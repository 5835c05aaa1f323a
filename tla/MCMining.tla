------------------------------ MODULE MCMining ------------------------------
(* The two mining threads executor::run creates, for TLC. *)
EXTENDS Mining, TLC

MCMiners   == {0, 1}
MCMinerPow == [m \in MCMiners |-> IF m = 0 THEN "randomx" ELSE "progpow"]

MCSymmetry == Permutations(Seeds) \cup Permutations(Epochs)
=============================================================================
