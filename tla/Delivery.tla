------------------------------ MODULE Delivery ------------------------------
(* What result_q and its uv_async_t promise (miner.hpp:58-61, miner.cpp:8-19): *)
(* the results a miner finds are handed to the executor one by one, in the     *)
(* order they were found, each once, and none is left behind.                  *)
EXTENDS Sequences

CONSTANTS Producers, Items

VARIABLE waiting  \* for each producer, what it found and is not handed over

Init == waiting = [p \in Producers |-> <<>>]

Find(p) == \E i \in Items : waiting' = [waiting EXCEPT ![p] = Append(@, i)]

HandOver(p) ==
  /\ waiting[p] # <<>>
  /\ waiting' = [waiting EXCEPT ![p] = Tail(@)]

Next == \E p \in Producers : Find(p) \/ HandOver(p)

Spec == Init /\ [][Next]_waiting

FairSpec == /\ Spec
            /\ \A p \in Producers : WF_waiting(HandOver(p))
=============================================================================
