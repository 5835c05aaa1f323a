----------------------------- MODULE SharesProofs -----------------------------
(* Proofs about Shares, for any miners, targets, chunk size and number of jobs: *)
(* types; that no result is left behind in a queue and none submitted twice;    *)
(* which nonces are hashed and how shares are credited; that the connection     *)
(* keeps to Session and the queues to Delivery.                                 *)
EXTENDS Shares, SequenceTheorems, TLAPS

(* Arithmetic of the nonce counter. *)

LEMMA CounterIsNonce == ASSUME draws \in Nat PROVE Counter \in Nonces
<1>1. draws * Chunk \in Nat
  BY SharesAssumption
<1> QED
  BY <1>1, SharesAssumption DEF Counter, Nonces

\* A chunk is no longer than the counter's range.
LEMMA ChunkFits == Chunk <= NonceMod
<1>1. SUFFICES ASSUME NonceMod < Chunk PROVE FALSE
  BY SharesAssumption
<1>2. NonceMod % Chunk = NonceMod
  BY <1>1, SharesAssumption
<1> QED
  BY <1>2, SharesAssumption

LEMMA RoundIsBounded ==
  ASSUME draws \in 0..MaxDraws PROVE Round \in 0..MaxDraws
<1>1. draws * Chunk \in Nat /\ draws * Chunk <= draws * NonceMod
  BY ChunkFits, SharesAssumption
<1>2. Round \in Nat /\ Round * NonceMod <= draws * Chunk
  BY <1>1, SharesAssumption DEF Round
<1>3. Round * NonceMod <= draws * NonceMod
  BY <1>1, <1>2, SharesAssumption
<1>4. Round <= draws
  BY <1>2, <1>3, SharesAssumption
<1> QED
  BY <1>2, <1>4, SharesAssumption

LEMMA DiffIsNat == ASSUME NEW t \in Targets \cup {0} PROVE Diff(t) \in Nat
BY SharesAssumption DEF Diff
------------------------------------------------------------------------------
(* The invariant: TypeOK by the parts of the program that the variables belong to, what *)
(* ties the connection to the loop thread in the middle of a job, and NoneLeftBehind.   *)

ConnOK ==
  /\ conn \in {"down", "up", "shutting"} /\ hasJob \in BOOLEAN
  /\ myJob \in Jobs /\ current \in Jobs
  /\ stage \in {"ready", "parsing", "publishing", "draining"}
  /\ draining \in Workers /\ (draining \in Miners <=> stage = "draining")

CountersOK ==
  /\ draws \in 0..MaxDraws
  /\ accepted \in Nat /\ rejected \in Nat /\ total \in Nat

Calls == [share : Results, late : BOOLEAN, state : {"open", "closed"}]

CallsOK == calls \in Seq(Calls)

MinersOK ==
  /\ pc \in [Miners -> {"idle", "check", "hash", "signal"}]
  /\ job \in [Miners -> Jobs]
  /\ nonce \in [Miners -> Nonces] /\ round \in [Miners -> 0..MaxDraws]
  /\ resultQ \in [Miners -> Seq(Results)] /\ async \in [Miners -> BOOLEAN]

\* A pool without a connection has no job and its miners are idle; a job in hand is one
\* of a connection.
SessionInv ==
  /\ conn = "down" => ~hasJob /\ current.id = 0
  /\ stage \in {"parsing", "publishing"} => conn # "down" /\ myJob.id # 0
  /\ stage = "publishing" => hasJob

SharesInv == /\ ConnOK /\ CountersOK /\ CallsOK /\ MinersOK
             /\ SessionInv /\ NoneLeftBehind

LEMMA SharesInit == Init => SharesInv
<1> SUFFICES ASSUME Init PROVE SharesInv
  OBVIOUS
<1> USE SharesAssumption DEF Init
<1>1. IdleJob \in Jobs /\ IdleJob.id = 0
  BY DEF IdleJob, Jobs, Workers
<1>2. 0 \in Nonces
  BY DEF Nonces
<1>3. ConnOK
  BY <1>1 DEF ConnOK, Workers
<1>6. CountersOK
  BY DEF CountersOK
<1>5. CallsOK /\ MinersOK
  BY <1>1, <1>2 DEF CallsOK, MinersOK
<1>4. SessionInv /\ NoneLeftBehind
  BY <1>1 DEF SessionInv, NoneLeftBehind
<1> QED
  BY <1>3, <1>4, <1>5, <1>6 DEF SharesInv

(* A miner thread. *)

LEMMA HashEffect ==
  ASSUME MinersOK, draws \in 0..MaxDraws, NEW m \in Miners, pc[m] = "hash", DrawNonce(m)
  PROVE  /\ nonce' \in [Miners -> Nonces] /\ round' \in [Miners -> 0..MaxDraws]
         /\ draws' \in 0..MaxDraws
<1> USE SharesAssumption
<1>1. Counter \in Nonces /\ Round \in 0..MaxDraws
  BY CounterIsNonce, RoundIsBounded
<1>2. (nonce[m] + 1) % NonceMod \in Nonces
  <2>1. nonce[m] \in Nat /\ NonceMod \in Nat \ {0}
    BY DEF MinersOK, Nonces
  <2>2. PICK k \in Nat : k = nonce[m] + 1
    BY <2>1
  <2>3. k % NonceMod \in 0..(NonceMod - 1)
    BY <2>1
  <2> QED
    BY <2>2, <2>3 DEF Nonces
<1>3. CASE nonce[m] % Chunk = 0
  <2>1. /\ nonce' = [nonce EXCEPT ![m] = Counter] /\ round' = [round EXCEPT ![m] = Round]
        /\ draws < MaxDraws /\ draws' = draws + 1
    BY <1>3 DEF DrawNonce
  <2>2. draws' \in 0..MaxDraws
    BY <2>1
  <2> QED
    BY <1>1, <2>1, <2>2 DEF MinersOK
<1>4. CASE nonce[m] % Chunk # 0
  <2>1. nonce' = [nonce EXCEPT ![m] = (nonce[m] + 1) % NonceMod] /\ round' = round /\ draws' = draws
    BY <1>4 DEF DrawNonce
  <2>2. PICK v \in Nonces : v = (nonce[m] + 1) % NonceMod
    BY <1>2
  <2>3. nonce' = [nonce EXCEPT ![m] = v]
    BY <2>1, <2>2
  <2>4. nonce \in [Miners -> Nonces] /\ round \in [Miners -> 0..MaxDraws]
    BY DEF MinersOK
  <2>5. nonce' \in [Miners -> Nonces]
    BY <2>3, <2>4
  <2> QED
    BY <2>1, <2>4, <2>5
<1> QED
  BY <1>3, <1>4

LEMMA MinerNext ==
  ASSUME SharesInv, NEW m \in Miners, MinerStep(m)
  PROVE  SharesInv'
<1>0. ConnOK /\ CountersOK /\ CallsOK /\ MinersOK /\ SessionInv /\ NoneLeftBehind
  BY DEF SharesInv
<1>1. UNCHANGED <<poolVars, loopVars, current, calls, counters>>
  BY DEF MinerStep, PickUp, CheckJob, LeaveJob, Hash, Signal
<1>2. ConnOK' /\ CallsOK' /\ SessionInv'
  BY <1>0, <1>1 DEF ConnOK, CallsOK, SessionInv, poolVars, loopVars
<1>3. IdleJob \in Jobs /\ 0 \in Nonces /\ 0 \in 0..MaxDraws
  BY SharesAssumption DEF IdleJob, Jobs, Workers, Nonces
<1>4. CASE PickUp(m)
  <2>1. CountersOK' /\ UNCHANGED <<resultQ, async>>
    BY <1>0, <1>1, <1>4 DEF CountersOK, counters, PickUp
  <2>2. MinersOK'
    BY <1>0, <1>3, <1>4 DEF MinersOK, ConnOK, PickUp
  <2>3. NoneLeftBehind'
    BY <1>0, <1>1, <1>4 DEF NoneLeftBehind, MinersOK, PickUp, loopVars
  <2> QED
    BY <1>0, <1>2, <2>1, <2>2, <2>3 DEF SharesInv
<1>5. CASE CheckJob(m)
  <2>1. CountersOK' /\ UNCHANGED <<resultQ, async>>
    BY <1>0, <1>1, <1>5 DEF CountersOK, counters, CheckJob
  <2>2. MinersOK'
    BY <1>0, <1>3, <1>5 DEF MinersOK, ConnOK, CheckJob
  <2>3. NoneLeftBehind'
    BY <1>0, <1>1, <1>5 DEF NoneLeftBehind, MinersOK, CheckJob, loopVars
  <2> QED
    BY <1>0, <1>2, <2>1, <2>2, <2>3 DEF SharesInv
<1>6. CASE LeaveJob(m)
  <2>1. CountersOK' /\ UNCHANGED <<resultQ, async>>
    BY <1>0, <1>1, <1>6 DEF CountersOK, counters, LeaveJob
  <2>2. MinersOK'
    BY <1>0, <1>3, <1>6 DEF MinersOK, ConnOK, LeaveJob
  <2>3. NoneLeftBehind'
    BY <1>0, <1>1, <1>6 DEF NoneLeftBehind, MinersOK, LeaveJob, loopVars
  <2> QED
    BY <1>0, <1>2, <2>1, <2>2, <2>3 DEF SharesInv
<1>7. CASE Hash(m)
  <2>1. /\ nonce' \in [Miners -> Nonces] /\ round' \in [Miners -> 0..MaxDraws]
        /\ draws' \in 0..MaxDraws
    BY <1>0, <1>7, HashEffect DEF Hash, CountersOK
  <2>2. CountersOK'
    BY <1>0, <1>1, <2>1 DEF CountersOK, counters
  <2>3. Result(m) \in Results
    BY <1>0, <2>1 DEF Result, Results, MinersOK, Jobs
  <2>4. Append(resultQ[m], Result(m)) \in Seq(Results)
    BY <1>0, <2>3 DEF MinersOK
  <2>5. MinersOK'
    BY <1>0, <1>7, <2>1, <2>4 DEF Hash, MinersOK
  <2>6. NoneLeftBehind'
    BY <1>0, <1>1, <1>7 DEF NoneLeftBehind, MinersOK, Hash, loopVars
  <2> QED
    BY <1>2, <2>2, <2>5, <2>6 DEF SharesInv
<1>8. CASE Signal(m)
  <2>1. CountersOK' /\ MinersOK'
    BY <1>0, <1>1, <1>8 DEF CountersOK, counters, MinersOK, Signal
  <2>2. NoneLeftBehind'
    BY <1>0, <1>1, <1>8 DEF NoneLeftBehind, MinersOK, Signal, loopVars
  <2> QED
    BY <1>2, <2>1, <2>2 DEF SharesInv
<1> QED
  BY <1>4, <1>5, <1>6, <1>7, <1>8 DEF MinerStep

(* The loop thread: results. *)

LEMMA SubmitType == ASSUME CallsOK, NEW r \in Results PROVE Submit(r) \in Seq(Calls)
<1>1. [share |-> r, state |-> "open", late |-> r.job # myJob.id] \in Calls
  BY DEF Calls
<1> QED
  BY <1>1 DEF Submit, CallsOK

LEMMA AsyncNext ==
  ASSUME SharesInv, NEW m \in Miners, OnAsync(m)
  PROVE  SharesInv'
<1>1. ConnOK' /\ CountersOK' /\ CallsOK' /\ SessionInv'
  BY DEF SharesInv, OnAsync, ConnOK, CountersOK, CallsOK, SessionInv, Workers, poolVars, counters
<1>2. MinersOK'
  BY DEF SharesInv, OnAsync, MinersOK, minerVars
<1>3. NoneLeftBehind'
  BY SharesAssumption DEF SharesInv, OnAsync, MinersOK, ConnOK, NoneLeftBehind, minerVars, Workers
<1> QED
  BY <1>1, <1>2, <1>3 DEF SharesInv

LEMMA DrainNext == ASSUME SharesInv, DrainStep PROVE SharesInv'
<1>1. draining \in Miners /\ stage = "draining"
  BY DEF SharesInv, ConnOK, DrainStep, SendResult, EndDrain
<1>2. CASE SendResult
  <2>1. Head(resultQ[draining]) \in Results /\ Tail(resultQ[draining]) \in Seq(Results)
    BY <1>1, <1>2 DEF SharesInv, MinersOK, SendResult
  <2>2. CallsOK'
    BY <1>2, <2>1, SubmitType DEF SharesInv, SendResult, CallsOK
  <2>3. MinersOK'
    BY <1>1, <1>2, <2>1 DEF SharesInv, MinersOK, SendResult, minerVars
  <2>4. ConnOK' /\ CountersOK' /\ SessionInv'
    BY <1>2 DEF SharesInv, SendResult, ConnOK, CountersOK, SessionInv, poolVars, loopVars, counters
  <2>5. NoneLeftBehind'
    BY <1>1, <1>2 DEF SharesInv, MinersOK, SendResult, NoneLeftBehind, minerVars, loopVars
  <2> QED
    BY <2>2, <2>3, <2>4, <2>5 DEF SharesInv
<1>3. CASE EndDrain
  <2>1. ConnOK' /\ CountersOK' /\ CallsOK' /\ SessionInv'
    BY <1>3, SharesAssumption
    DEF SharesInv, EndDrain, ConnOK, CountersOK, CallsOK, SessionInv, Workers, poolVars, counters
  <2>2. MinersOK'
    BY <1>3 DEF SharesInv, EndDrain, MinersOK, minerVars
  <2>3. NoneLeftBehind'
    BY <1>3 DEF SharesInv, EndDrain, NoneLeftBehind, minerVars
  <2> QED
    BY <2>1, <2>2, <2>3 DEF SharesInv
<1> QED
  BY <1>2, <1>3 DEF DrainStep

LEMMA ReplyNext ==
  ASSUME SharesInv, NEW i \in DOMAIN calls, NEW ok \in BOOLEAN, OnResultReply(i, ok)
  PROVE  SharesInv'
<1>1. CallsOK'
  <2>1. calls \in Seq(Calls) /\ i \in 1..Len(calls) /\ calls[i] \in Calls
    BY DEF SharesInv, CallsOK
  <2>2. [calls[i] EXCEPT !.state = "closed"] \in Calls
    BY <2>1 DEF Calls
  <2>3. calls' = [calls EXCEPT ![i] = [calls[i] EXCEPT !.state = "closed"]]
    BY DEF OnResultReply
  <2> QED
    BY <2>1, <2>2, <2>3, ExceptSeq DEF CallsOK
<1>2. Diff(myJob.target) \in Nat
  BY DiffIsNat DEF SharesInv, ConnOK, Jobs
<1>3. CountersOK'
  BY <1>2 DEF SharesInv, OnResultReply, CountersOK
<1>4. ConnOK' /\ MinersOK' /\ SessionInv' /\ NoneLeftBehind'
  BY DEF SharesInv, OnResultReply, ConnOK, MinersOK, SessionInv, NoneLeftBehind, poolVars,
         loopVars, minerVars
<1> QED
  BY <1>1, <1>3, <1>4 DEF SharesInv

(* The loop thread: jobs and the connection. *)

LEMMA JobNext == ASSUME SharesInv, JobStep \/ ReceiveJob PROVE SharesInv'
<1> USE SharesAssumption
<1>1. UNCHANGED <<draining, calls, counters, minerVars, resultQ, async>>
  BY DEF JobStep, ReceiveJob, RefuseJob, AcceptJob, PublishJob
<1>2. CallsOK' /\ MinersOK' /\ NoneLeftBehind'
  BY <1>1 DEF SharesInv, CallsOK, MinersOK, NoneLeftBehind, minerVars
<1>3. CountersOK'
  <2>1. draws' \in {0, draws}
    BY DEF JobStep, ReceiveJob, RefuseJob, AcceptJob, PublishJob
  <2> QED
    BY <1>1, <2>1 DEF SharesInv, CountersOK, counters
<1>4. CASE ReceiveJob
  BY <1>1, <1>2, <1>3, <1>4 DEF SharesInv, ConnOK, SessionInv, ReceiveJob, Jobs
<1>5. CASE RefuseJob
  BY <1>1, <1>2, <1>3, <1>5 DEF SharesInv, ConnOK, SessionInv, RefuseJob, Jobs
<1>6. CASE AcceptJob
  BY <1>1, <1>2, <1>3, <1>6 DEF SharesInv, ConnOK, SessionInv, AcceptJob, Jobs
<1>7. CASE PublishJob
  BY <1>1, <1>2, <1>3, <1>7 DEF SharesInv, ConnOK, SessionInv, PublishJob, Jobs, poolVars
<1> QED
  BY <1>4, <1>5, <1>6, <1>7 DEF JobStep

LEMMA ConnNext ==
  ASSUME SharesInv, OnConnect \/ OnShutdown \/ OnError \/ OnClose
  PROVE  SharesInv'
<1> USE SharesAssumption
<1>1. UNCHANGED <<myJob, loopVars, minerVars, resultQ, async>> /\ stage = "ready"
  BY DEF OnConnect, OnShutdown, OnError, OnClose
<1>2. MinersOK' /\ NoneLeftBehind'
  BY <1>1 DEF SharesInv, MinersOK, NoneLeftBehind, minerVars, loopVars
<1>3. CASE OnConnect \/ OnShutdown \/ OnError
  <2>1. UNCHANGED <<current, calls, counters>> /\ draws' \in {0, draws}
    BY <1>3 DEF OnConnect, OnShutdown, OnError
  <2>2. CountersOK' /\ CallsOK'
    BY <2>1 DEF SharesInv, CountersOK, CallsOK, counters
  <2>3. ConnOK' /\ SessionInv'
    BY <1>1, <1>3, <2>1
    DEF SharesInv, ConnOK, SessionInv, loopVars, OnConnect, OnShutdown, OnError
  <2> QED
    BY <1>2, <2>2, <2>3 DEF SharesInv
<1>4. CASE OnClose
  <2>1. CallsOK'
    <3>1. calls \in Seq(Calls) /\ \A i \in DOMAIN calls : calls[i] \in Calls
      BY DEF SharesInv, CallsOK
    <3>2. \A i \in DOMAIN calls : [calls[i] EXCEPT !.state = "closed"] \in Calls
      BY <3>1 DEF Calls
    <3>3. calls' = [i \in DOMAIN calls |-> [calls[i] EXCEPT !.state = "closed"]]
      BY <1>4 DEF OnClose
    <3>4. DOMAIN calls = 1..Len(calls) /\ Len(calls) \in Nat
      BY <3>1
    <3>5. calls' \in [1..Len(calls) -> Calls]
      BY <3>2, <3>3, <3>4
    <3> QED
      BY <3>4, <3>5 DEF CallsOK
  <2>2. IdleJob \in Jobs /\ IdleJob.id = 0
    BY DEF IdleJob, Jobs, Workers
  <2>3. draws' = 0 /\ conn' = "down" /\ hasJob' = FALSE /\ current'.id = 0
    BY <1>4, <2>2 DEF OnClose
  <2>4. accepted' \in {0, accepted} /\ rejected' \in {0, rejected} /\ total' \in {0, total}
    BY <1>4 DEF OnClose, counters
  <2>5. CountersOK'
    BY <2>3, <2>4 DEF SharesInv, CountersOK
  <2>6. current' \in Jobs
    BY <1>4, <2>2 DEF OnClose, SharesInv, ConnOK
  <2>7. ConnOK' /\ SessionInv'
    BY <1>1, <2>3, <2>6 DEF SharesInv, ConnOK, SessionInv, loopVars
  <2> QED
    BY <1>2, <2>1, <2>5, <2>7 DEF SharesInv
<1> QED
  BY <1>3, <1>4
------------------------------------------------------------------------------
LEMMA SharesNext == SharesInv /\ [Next]_vars => SharesInv'
<1> SUFFICES ASSUME SharesInv, [Next]_vars PROVE SharesInv'
  OBVIOUS
<1>1. CASE UNCHANGED vars
  BY <1>1 DEF vars, SharesInv, ConnOK, CountersOK, CallsOK, MinersOK, SessionInv, NoneLeftBehind
<1>2. CASE Next
  BY <1>2, MinerNext, AsyncNext, ReplyNext, DrainNext, JobNext, ConnNext DEF Next, ConnStep
<1> QED
  BY <1>1, <1>2

THEOREM SharesInvariant == Spec => []SharesInv
<1> QED
  BY SharesInit, SharesNext, PTL DEF Spec

\* Every variable of the share pipeline keeps its type.
THEOREM SharesTypeCorrect == Spec => []TypeOK
<1>1. SharesInv => TypeOK
  BY DEF SharesInv, ConnOK, CountersOK, CallsOK, MinersOK, Calls, TypeOK
<1> QED
  BY <1>1, SharesInvariant, PTL

\* However the signals of uv_async_send are merged and whatever is found during a drain,
\* no result is left in a queue that the loop thread is not told of.
THEOREM NothingIsLeftBehind == Spec => []NoneLeftBehind
<1>1. SharesInv => NoneLeftBehind
  BY DEF SharesInv
<1> QED
  BY <1>1, SharesInvariant, PTL

(* The nonces. *)

\* The counter is a multiple of the chunk also after it has gone round.
LEMMA CounterStartsChunk == ASSUME draws \in Nat PROVE Counter % Chunk = 0
<1> USE SharesAssumption
<1> DEFINE k == NonceMod \div Chunk
           q == Round
           e == draws - q * k
<1>1. k \in Nat /\ NonceMod = k * Chunk
  OBVIOUS
<1>2. draws * Chunk \in Nat
  OBVIOUS
<1>3. q \in Nat /\ Counter = draws * Chunk - q * NonceMod
  BY <1>2 DEF Round, Counter
<1>4. Counter = e * Chunk /\ e \in Int
  BY <1>1, <1>3
<1> HIDE DEF e
<1>5. (e * Chunk) % Chunk = 0
  BY <1>4
<1> QED
  BY <1>4, <1>5

\* Since every nonce hashed is the first of a chunk, the next is always drawn from the
\* counter: of the Chunk nonces a draw reserves one is hashed.
THEOREM OneNonceOfAChunk == Spec => []OnlyChunkStarts
<1>1. Init => OnlyChunkStarts
  BY SharesAssumption DEF Init, OnlyChunkStarts
<1>2. SharesInv /\ OnlyChunkStarts /\ [Next]_vars => OnlyChunkStarts'
  <2> SUFFICES ASSUME SharesInv, OnlyChunkStarts, [Next]_vars, NEW n \in Miners
               PROVE  nonce'[n] % Chunk = 0
    BY DEF OnlyChunkStarts
  <2>1. nonce \in [Miners -> Nonces] /\ draws \in Nat /\ nonce[n] % Chunk = 0
    BY DEF SharesInv, MinersOK, CountersOK, OnlyChunkStarts
  <2>2. ASSUME NEW m \in Miners, PickUp(m) \/ LeaveJob(m)
        PROVE  nonce'[n] % Chunk = 0
    BY <2>1, <2>2, SharesAssumption DEF PickUp, LeaveJob
  <2>3. ASSUME NEW m \in Miners, Hash(m)
        PROVE  nonce'[n] % Chunk = 0
    <3>1. nonce' = [nonce EXCEPT ![m] = Counter]
      BY <2>3 DEF Hash, DrawNonce, OnlyChunkStarts
    <3> QED
      BY <2>1, <3>1, CounterStartsChunk
  <2>4. CASE UNCHANGED nonce
    BY <2>1, <2>4
  <2>5. CASE UNCHANGED vars
    BY <2>4, <2>5 DEF vars
  <2>6. ASSUME NEW m \in Miners, CheckJob(m) \/ Signal(m) \/ OnAsync(m)
        PROVE  nonce'[n] % Chunk = 0
    BY <2>4, <2>6 DEF CheckJob, Signal, OnAsync, minerVars
  <2>7. ASSUME NEW i \in DOMAIN calls, NEW ok \in BOOLEAN, OnResultReply(i, ok)
        PROVE  nonce'[n] % Chunk = 0
    BY <2>4, <2>7 DEF OnResultReply, minerVars
  <2>8. CASE DrainStep \/ JobStep \/ ConnStep
    BY <2>4, <2>8
    DEF DrainStep, JobStep, ConnStep, SendResult, EndDrain, RefuseJob, AcceptJob, PublishJob,
        ReceiveJob, OnConnect, OnShutdown, OnError, OnClose, minerVars
  <2> QED
    BY <2>2, <2>3, <2>5, <2>6, <2>7, <2>8 DEF Next, MinerStep
<1> QED
  BY <1>1, <1>2, SharesInvariant, PTL DEF Spec

(* The connection. *)

SessionVars == AsSession!vars

LEMMA SharesSessionNext ==
  ASSUME SharesInv, [Next]_vars
  PROVE  [AsSession!Next]_SessionVars
<1> USE DEF SessionVars, AsSession!vars
<1>1. ConnOK /\ SessionInv
  BY DEF SharesInv
<1>2. CASE UNCHANGED <<conn, hasJob, current>>
  BY <1>2
<1>3. CASE RefuseJob
  BY <1>1, <1>3 DEF RefuseJob, ConnOK, SessionInv, AsSession!Next, AsSession!Shut
<1>4. CASE AcceptJob
  BY <1>1, <1>4 DEF AcceptJob, SessionInv, AsSession!Next, AsSession!Job
<1>5. CASE PublishJob
  BY <1>1, <1>5 DEF PublishJob, SessionInv, poolVars, AsSession!Next, AsSession!Publish
<1>6. CASE OnConnect
  BY <1>6 DEF OnConnect, AsSession!Next, AsSession!Connect
<1>7. CASE OnShutdown
  BY <1>7 DEF OnShutdown, AsSession!Next, AsSession!Shut
<1>8. CASE OnError
  BY <1>8 DEF OnError, AsSession!Next, AsSession!Fail
<1>9. CASE OnClose
  <2>1. current'.id = 0
    BY <1>9 DEF OnClose, IdleJob
  <2> QED
    BY <1>9, <2>1 DEF OnClose, AsSession!Next, AsSession!Close
<1>10. CASE UNCHANGED vars
  BY <1>2, <1>10 DEF vars
<1>11. ASSUME NEW m \in Miners, MinerStep(m) \/ OnAsync(m)
       PROVE  [AsSession!Next]_SessionVars
  BY <1>2, <1>11
  DEF MinerStep, PickUp, CheckJob, LeaveJob, Hash, Signal, OnAsync, poolVars
<1>12. ASSUME NEW i \in DOMAIN calls, NEW ok \in BOOLEAN, OnResultReply(i, ok)
       PROVE  [AsSession!Next]_SessionVars
  BY <1>2, <1>12 DEF OnResultReply, poolVars
<1>13. CASE DrainStep \/ ReceiveJob
  BY <1>2, <1>13 DEF DrainStep, SendResult, EndDrain, ReceiveJob, poolVars
<1> QED
  BY <1>3, <1>4, <1>5, <1>6, <1>7, <1>8, <1>9, <1>10, <1>11, <1>12, <1>13
  DEF Next, JobStep, ConnStep

\* The connection of Shares keeps to the session that PoolConnection keeps to as well
\* (PoolConnectionProofs!ConnectionIsSession), with the steps of job messages between.
THEOREM SharesUsesSession == Spec => IsSession
<1>1. Init => AsSession!Init
  BY DEF Init, AsSession!Init, IdleJob
<1>2. SharesInv /\ [Next]_vars => [AsSession!Next]_SessionVars
  BY SharesSessionNext
<1> QED
  BY <1>1, <1>2, SharesInvariant, PTL DEF Spec, IsSession, SessionVars, AsSession!Spec
------------------------------------------------------------------------------
(* No share is submitted twice.  The invariant says how far the ids of messages, jobs *)
(* and shares may be apart, that a share of the newest message was found for what     *)
(* my_job holds, and that such shares wait in the order they were drawn in, as long   *)
(* as the pool has a job: an error or a message resets the counter, but after either  *)
(* hasJob or the id says so.                                                          *)

\* The draw a share comes from, counted in nonces.
Drawn(s) == s.round * NonceMod + s.nonce

\* Ids are of messages that have come; one that is being taken in has no job yet.
Older(id) == id <= myJob.id /\ (stage \in {"parsing", "publishing"} => id < myJob.id)

JobKnown(j) == Older(j.id) /\ (j.id = myJob.id => j = myJob)

JobsKnown ==
  /\ JobKnown(IdleJob) /\ JobKnown(current)
  /\ \A m \in Miners : JobKnown(job[m]) /\ (pc[m] # "idle" => job[m].worker = m)

Known(s) ==
  /\ Older(s.job)
  /\ s.job = myJob.id => s.target = myJob.target /\ s.miner = myJob.worker
  /\ s.job = myJob.id /\ hasJob => Drawn(s) < draws * Chunk

SharesKnown ==
  /\ \A i \in DOMAIN calls : Known(calls[i].share)
  /\ \A m \in Miners : \A k \in DOMAIN resultQ[m] :
       resultQ[m][k].miner = m /\ Known(resultQ[m][k])

\* Share s was drawn before the one at k in the queue of m, if both are of the newest job.
Before(s, m, k) ==
  s.job = myJob.id /\ resultQ[m][k].job = myJob.id => Drawn(s) < Drawn(resultQ[m][k])

DrawnInOrder ==
  hasJob =>
    \A m \in Miners : \A k \in DOMAIN resultQ[m] :
      /\ \A i \in DOMAIN calls : Before(calls[i].share, m, k)
      /\ \A l \in DOMAIN resultQ[m] : l < k => Before(resultQ[m][l], m, k)

OnceInv == JobsKnown /\ SharesKnown /\ DrawnInOrder /\ SubmittedOnce

LEMMA DrawnIsNat == ASSUME NEW s \in Results PROVE Drawn(s) \in Nat
<1>1. s.round \in Nat /\ s.nonce \in Nat /\ NonceMod \in Nat
  BY SharesAssumption DEF Results, Nonces
<1>2. s.round * NonceMod \in Nat
  BY <1>1
<1> QED
  BY <1>1, <1>2 DEF Drawn

\* Of two shares with the same nonce the later one was drawn after the counter went round.
LEMMA SameNonceLater ==
  ASSUME NEW s \in Results, NEW t \in Results, Drawn(s) < Drawn(t), s.nonce = t.nonce
  PROVE  t.round > 0
<1>1. /\ s.round \in Nat /\ s.nonce \in Nat /\ NonceMod \in Nat /\ t.round \in Nat
  BY SharesAssumption DEF Results, Nonces
<1>2. s.round * NonceMod \in Nat
  BY <1>1
<1>3. SUFFICES ASSUME t.round = 0 PROVE FALSE
  BY <1>1
<1>4. t.round * NonceMod = 0
  BY <1>1, <1>3
<1>5. s.round * NonceMod + s.nonce < s.nonce
  BY <1>1, <1>4 DEF Drawn
<1> QED
  BY <1>1, <1>2, <1>5

\* The counter and the rounds it has made are the chunks drawn.
LEMMA CounterIsDrawn ==
  ASSUME draws \in Nat
  PROVE  /\ Round * NonceMod + Counter = draws * Chunk
         /\ draws * Chunk \in Nat /\ draws * Chunk < (draws + 1) * Chunk
<1>1. draws * Chunk \in Nat
  BY SharesAssumption
<1>2. Round * NonceMod + Counter = draws * Chunk
  BY <1>1, SharesAssumption DEF Round, Counter
<1>3. draws * Chunk < (draws + 1) * Chunk
  BY <1>1, SharesAssumption
<1> QED
  BY <1>1, <1>2, <1>3

LEMMA ShareTypes ==
  ASSUME SharesInv
  PROVE  /\ myJob.id \in Nat /\ draws \in Nat
         /\ \A i \in DOMAIN calls : calls[i].share \in Results
         /\ \A m \in Miners : \A k \in DOMAIN resultQ[m] : resultQ[m][k] \in Results
         /\ \A s \in Results : s.job \in Nat
<1>1. myJob.id \in Nat /\ draws \in Nat
  BY SharesAssumption DEF SharesInv, ConnOK, CountersOK, Jobs
<1>2. \A i \in DOMAIN calls : calls[i] \in Calls
  BY DEF SharesInv, CallsOK
<1>3. \A m \in Miners : \A k \in DOMAIN resultQ[m] : resultQ[m][k] \in Results
  BY DEF SharesInv, MinersOK
<1>4. \A s \in Results : s.job \in Nat
  BY SharesAssumption DEF Results
<1> QED
  BY <1>1, <1>2, <1>3, <1>4 DEF Calls

\* What is said of shares stays true as long as the newest job stays and the counter is
\* not reset while the pool has a job,
LEMMA SharesKept ==
  ASSUME SharesKnown, DrawnInOrder, SubmittedOnce, UNCHANGED <<myJob, resultQ>>,
         stage' \in {"parsing", "publishing"} => stage \in {"parsing", "publishing"},
         hasJob' => hasJob /\ draws' = draws,
         DOMAIN calls' = DOMAIN calls,
         \A i \in DOMAIN calls :
           calls'[i].share = calls[i].share /\ calls'[i].late = calls[i].late
  PROVE  SharesKnown' /\ DrawnInOrder' /\ SubmittedOnce'
<1>1. SharesKnown'
  BY DEF SharesKnown, Known, Older, Drawn
<1>2. DrawnInOrder'
  BY DEF DrawnInOrder, Before, Drawn
<1>3. SubmittedOnce'
  BY DEF SubmittedOnce
<1> QED
  BY <1>1, <1>2, <1>3

\* and of all that are older than it.
LEMMA SharesOlder ==
  ASSUME SharesInv, SharesKnown, SubmittedOnce, UNCHANGED <<calls, resultQ>>, myJob'.id \in Nat,
         \A s \in Results : Older(s.job) => s.job < myJob'.id
  PROVE  SharesKnown' /\ DrawnInOrder' /\ SubmittedOnce'
<1>1. /\ \A i \in DOMAIN calls : calls[i].share.job \in Nat /\ calls[i].share.job < myJob'.id
      /\ \A m \in Miners : \A k \in DOMAIN resultQ[m] :
           /\ resultQ[m][k].job \in Nat /\ resultQ[m][k].job < myJob'.id
           /\ resultQ[m][k].miner = m
  BY ShareTypes DEF SharesKnown, Known
<1>2. SharesKnown'
  BY <1>1 DEF SharesKnown, Known, Older
<1>3. DrawnInOrder'
  BY <1>1 DEF DrawnInOrder, Before
<1>4. SubmittedOnce'
  BY DEF SubmittedOnce
<1> QED
  BY <1>2, <1>3, <1>4

LEMMA OnceInit == Init => OnceInv
<1> SUFFICES ASSUME Init PROVE OnceInv
  OBVIOUS
<1>1. JobsKnown
  BY DEF Init, JobsKnown, JobKnown, Older, IdleJob
<1>2. SharesKnown /\ DrawnInOrder /\ SubmittedOnce
  BY DEF Init, SharesKnown, DrawnInOrder, SubmittedOnce
<1> QED
  BY <1>1, <1>2 DEF OnceInv

LEMMA OnceMiner ==
  ASSUME SharesInv, OnceInv, NEW m \in Miners, MinerStep(m) \/ OnAsync(m), ~Hash(m)
  PROVE  OnceInv'
<1>1. JobsKnown /\ SharesKnown /\ DrawnInOrder /\ SubmittedOnce
  BY DEF OnceInv
<1>2. /\ UNCHANGED <<myJob, hasJob, draws, calls, resultQ, current>>
      /\ stage' \in {"parsing", "publishing"} <=> stage \in {"parsing", "publishing"}
  BY DEF MinerStep, PickUp, CheckJob, LeaveJob, Signal, OnAsync, poolVars, loopVars
<1>3. SharesKnown' /\ DrawnInOrder' /\ SubmittedOnce'
  BY <1>1, <1>2, SharesKept
<1>4. \A j \in {IdleJob, current} \cup {job[n] : n \in Miners} : JobKnown(j)
  BY <1>1 DEF JobsKnown
<1>5. \A j : JobKnown(j) => JobKnown(j)'
  BY <1>2 DEF JobKnown, Older
<1>6. \A n \in Miners : /\ job'[n] \in {job[n], IdleJob, current}
                        /\ pc'[n] # "idle" => job'[n].worker = n
  BY <1>1 DEF MinerStep, PickUp, CheckJob, LeaveJob, Signal, OnAsync, minerVars, JobsKnown,
              SharesInv, MinersOK
<1>7. JobsKnown'
  BY <1>2, <1>4, <1>5, <1>6 DEF JobsKnown, JobKnown, Older
<1> QED
  BY <1>3, <1>7 DEF OnceInv

\* A new share is of the job its miner works on, and was drawn after all others of it.
LEMMA NewShare ==
  ASSUME SharesInv, OnlyChunkStarts, JobsKnown, NEW m \in Miners, Hash(m),
         NEW r, r = Result(m)
  PROVE  /\ r \in Results /\ r.miner = m
         /\ Drawn(r) = draws * Chunk
         /\ draws * Chunk \in Nat /\ draws * Chunk < draws' * Chunk
         /\ Known(r)'
<1>1. MinersOK /\ draws \in 0..MaxDraws /\ draws \in Nat /\ pc[m] = "hash" /\ DrawNonce(m)
  BY SharesAssumption DEF SharesInv, CountersOK, Hash
<1>2. /\ nonce' = [nonce EXCEPT ![m] = Counter] /\ round' = [round EXCEPT ![m] = Round]
      /\ draws' = draws + 1
  BY <1>1 DEF DrawNonce, OnlyChunkStarts
<1>3. nonce'[m] = Counter /\ round'[m] = Round
  BY <1>1, <1>2 DEF MinersOK
<1>4. nonce' \in [Miners -> Nonces] /\ round' \in [Miners -> 0..MaxDraws]
  BY <1>1, HashEffect
<1>5. r \in Results /\ r.miner = m
  BY <1>1, <1>4 DEF Result, Results, MinersOK, Jobs
<1>6. /\ Drawn(r) = draws * Chunk /\ draws * Chunk \in Nat
      /\ draws * Chunk < draws' * Chunk
  BY <1>1, <1>2, <1>3, CounterIsDrawn DEF Drawn, Result
<1>7. JobKnown(job[m]) /\ job[m].worker = m
  BY <1>1 DEF JobsKnown
<1>8. r.job = job[m].id /\ r.target = job[m].target
  BY DEF Result
<1>9. UNCHANGED <<stage, myJob, job>>
  BY DEF Hash, loopVars, poolVars
<1>10. Drawn(r)' = Drawn(r)
  BY DEF Drawn
<1>11. Known(r)'
  BY <1>5, <1>6, <1>7, <1>8, <1>9, <1>10 DEF Known, Older, JobKnown
<1> QED
  BY <1>5, <1>6, <1>11

\* Drawing moves the counter on, and the share found is the last of its queue.
LEMMA OnceHash ==
  ASSUME SharesInv, OnlyChunkStarts, OnceInv, NEW m \in Miners, Hash(m)
  PROVE  OnceInv'
<1>1. JobsKnown /\ SharesKnown /\ DrawnInOrder /\ SubmittedOnce
  BY DEF OnceInv
<1>2. UNCHANGED <<myJob, hasJob, stage, calls, current, job>>
  BY DEF Hash, poolVars, loopVars
<1>3. PICK r : r = Result(m)
  OBVIOUS
<1>4. /\ r \in Results /\ r.miner = m /\ Drawn(r) = draws * Chunk
      /\ draws * Chunk \in Nat /\ draws * Chunk < draws' * Chunk
      /\ Known(r)'
  BY <1>1, <1>3, NewShare
<1>5. draws' * Chunk \in Nat
  BY HashEffect, SharesAssumption DEF SharesInv, CountersOK, Hash
<1>6. JobsKnown'
  <2>1. \A n \in Miners : pc'[n] # "idle" => pc[n] # "idle"
    BY DEF Hash, SharesInv, MinersOK
  <2> QED
    BY <1>1, <1>2, <2>1 DEF JobsKnown, JobKnown, Older
<1>7. \A s \in Results : Drawn(s) \in Nat /\ Drawn(s)' = Drawn(s)
  BY DrawnIsNat DEF Drawn
<1>8. \A s \in Results : Known(s) => Known(s)'
  BY <1>2, <1>4, <1>5, <1>7 DEF Known, Older
<1>9. SubmittedOnce'
  BY <1>1, <1>2 DEF SubmittedOnce
<1>10. CASE UNCHANGED resultQ
  <2>1. SharesKnown'
    BY <1>1, <1>2, <1>8, <1>10, ShareTypes DEF SharesKnown
  <2>2. DrawnInOrder'
    BY <1>1, <1>2, <1>10 DEF DrawnInOrder, Before, Drawn
  <2> QED
    BY <1>6, <1>9, <2>1, <2>2 DEF OnceInv
<1>11. CASE resultQ' = [resultQ EXCEPT ![m] = Append(@, Result(m))]
  <2> DEFINE q == resultQ[m]
             e == Len(q) + 1
  <2>1. q \in Seq(Results) /\ resultQ \in [Miners -> Seq(Results)]
    BY DEF SharesInv, MinersOK
  <2>2. resultQ'[m] = Append(q, r) /\ \A n \in Miners : n # m => resultQ'[n] = resultQ[n]
    BY <1>3, <1>11, <2>1
  <2>3. /\ DOMAIN resultQ'[m] = DOMAIN q \cup {e} /\ e \notin DOMAIN q /\ e \in Nat
        /\ resultQ'[m][e] = r
        /\ \A k \in DOMAIN q : resultQ'[m][k] = q[k] /\ k < e
    BY <2>1, <2>2
  <2> HIDE DEF e
  <2>4. SharesKnown'
    <3>1. \A i \in DOMAIN calls' : Known(calls[i].share)'
      BY <1>1, <1>2, <1>8, ShareTypes DEF SharesKnown, Known, Older
    <3>2. ASSUME NEW n \in Miners, NEW k \in DOMAIN resultQ'[n]
          PROVE  resultQ'[n][k].miner = n /\ Known(resultQ[n][k])'
      <4>1. CASE n = m /\ k = e
        BY <1>4, <2>3, <4>1 DEF Known, Older
      <4>2. CASE ~(n = m /\ k = e)
        <5>1. k \in DOMAIN resultQ[n] /\ resultQ'[n][k] = resultQ[n][k]
          BY <2>1, <2>2, <2>3, <4>2
        <5>2. resultQ[n][k] \in Results /\ resultQ[n][k].miner = n /\ Known(resultQ[n][k])
          BY <1>1, <5>1, ShareTypes DEF SharesKnown
        <5> QED
          BY <1>8, <5>1, <5>2 DEF Known, Older
      <4> QED
        BY <4>1, <4>2
    <3> QED
      BY <3>1, <3>2 DEF SharesKnown
  <2>5. DrawnInOrder'
    <3> SUFFICES ASSUME hasJob', NEW n \in Miners, NEW k \in DOMAIN resultQ'[n]
                 PROVE  /\ \A i \in DOMAIN calls' : Before(calls[i].share, n, k)'
                        /\ \A l \in DOMAIN resultQ'[n] : l < k => Before(resultQ[n][l], n, k)'
      BY DEF DrawnInOrder
    <3>1. CASE n = m /\ k = e
      <4>1. \A i \in DOMAIN calls' : Before(calls[i].share, n, k)'
        BY <1>1, <1>2, <1>4, <1>7, <2>3, <3>1, ShareTypes DEF SharesKnown, Known, Before
      <4>2. \A l \in DOMAIN q :
              q[l] \in Results /\ (q[l].job = myJob.id => Drawn(q[l]) < Drawn(r))
        BY <1>1, <1>2, <1>4, <1>7, ShareTypes DEF SharesKnown, Known
      <4>3. \A l \in DOMAIN resultQ'[n] : l < k => l \in DOMAIN q
        BY <2>1, <2>3, <3>1
      <4>4. \A l \in DOMAIN resultQ'[n] : l < k => Before(resultQ[n][l], n, k)'
        BY <1>2, <1>4, <1>7, <2>3, <3>1, <4>2, <4>3 DEF Before
      <4> QED
        BY <4>1, <4>4
    <3>2. CASE ~(n = m /\ k = e)
      <4>1. /\ k \in DOMAIN resultQ[n] /\ resultQ'[n][k] = resultQ[n][k]
            /\ \A l \in DOMAIN resultQ'[n] :
                 l < k => l \in DOMAIN resultQ[n] /\ resultQ'[n][l] = resultQ[n][l]
        BY <2>1, <2>2, <2>3, <3>2
      <4> QED
        BY <1>1, <1>2, <1>7, <4>1, ShareTypes DEF DrawnInOrder, Before
    <3> QED
      BY <3>1, <3>2
  <2> QED
    BY <1>6, <1>9, <2>4, <2>5 DEF OnceInv
<1> QED
  BY <1>10, <1>11 DEF Hash

\* The share at the head of a queue was drawn after all submitted of its job, and before
\* all that wait: shares of one job that the pool's counter gave wait in one queue.
LEMMA OnceSend == ASSUME SharesInv, OnceInv, SendResult PROVE OnceInv'
<1> DEFINE d == draining
           r == resultQ[d][1]
           At(m, k) == IF m = d THEN k + 1 ELSE k
<1>1. JobsKnown /\ SharesKnown /\ DrawnInOrder /\ SubmittedOnce
  BY DEF OnceInv
<1>2. UNCHANGED <<myJob, hasJob, draws, stage, current, job, pc>>
  BY DEF SendResult, poolVars, loopVars, minerVars
<1>3. d \in Miners /\ resultQ \in [Miners -> Seq(Results)] /\ resultQ[d] # <<>>
  BY DEF SendResult, SharesInv, ConnOK, MinersOK
<1>4. r \in Results /\ 1 \in DOMAIN resultQ[d] /\ r = Head(resultQ[d])
  BY <1>3
<1>5. resultQ' = [resultQ EXCEPT ![d] = Tail(resultQ[d])] /\ calls' = Submit(r)
  BY <1>4 DEF SendResult
<1>6. \A m \in Miners : \A k \in DOMAIN resultQ'[m] :
        /\ k \in Nat /\ At(m, k) \in DOMAIN resultQ[m] /\ (m = d => 1 < At(m, k))
        /\ resultQ'[m][k] = resultQ[m][At(m, k)]
  <2>1. ASSUME NEW k \in DOMAIN resultQ'[d]
        PROVE  /\ k \in Nat /\ k + 1 \in DOMAIN resultQ[d] /\ 1 < k + 1
               /\ resultQ'[d][k] = resultQ[d][k + 1]
    <3>1. resultQ'[d] = Tail(resultQ[d])
      BY <1>3, <1>5
    <3> QED
      BY <1>3, <2>1, <3>1
  <2>2. ASSUME NEW m \in Miners, m # d, NEW k \in DOMAIN resultQ'[m]
        PROVE  k \in Nat /\ k \in DOMAIN resultQ[m] /\ resultQ'[m][k] = resultQ[m][k]
    BY <1>3, <1>5, <2>2
  <2> QED
    BY <2>1, <2>2
<1>7. \A m \in Miners : \A k, l \in DOMAIN resultQ'[m] : l < k => At(m, l) < At(m, k)
  BY <1>6
<1>8. \A m \in Miners : \A k \in DOMAIN resultQ[m] :
        resultQ[m][k] \in Results /\ resultQ[m][k].miner = m /\ Known(resultQ[m][k])
  BY <1>1, ShareTypes DEF SharesKnown
<1>9. r \in Results /\ r.miner = d /\ Known(r)
  BY <1>3, <1>4, <1>8
<1> HIDE DEF At, r, d
<1>10. JobsKnown'
  BY <1>1, <1>2 DEF JobsKnown, JobKnown, Older
<1>11. \A m \in Miners : \A k \in DOMAIN resultQ'[m] :
         resultQ'[m][k].miner = m /\ Known(resultQ[m][k])'
  BY <1>2, <1>6, <1>8 DEF Known, Older, Drawn
<1>12. CASE ~hasJob
  <2>1. UNCHANGED calls
    BY <1>5, <1>12 DEF Submit
  <2>2. SharesKnown'
    BY <1>1, <1>2, <1>11, <2>1 DEF SharesKnown, Known, Older, Drawn
  <2>3. DrawnInOrder' /\ SubmittedOnce'
    BY <1>1, <1>2, <1>12, <2>1 DEF DrawnInOrder, SubmittedOnce
  <2> QED
    BY <1>10, <2>2, <2>3 DEF OnceInv
<1>13. CASE hasJob
  <2> DEFINE c == [share |-> r, state |-> "open", late |-> r.job # myJob.id]
             e == Len(calls) + 1
  <2>1. calls \in Seq(Calls) /\ calls' = Append(calls, c)
    BY <1>5, <1>13 DEF Submit, SharesInv, CallsOK
  <2>2. /\ DOMAIN calls' = DOMAIN calls \cup {e} /\ calls'[e] = c
        /\ e \in Nat /\ \A i \in DOMAIN calls : calls'[i] = calls[i] /\ i \in Nat /\ i < e
    BY <2>1
  <2>3. c.share = r /\ c.late = (r.job # myJob.id)
    OBVIOUS
  <2> HIDE DEF c, e
  <2>4. SharesKnown'
    <3>1. ASSUME NEW i \in DOMAIN calls' PROVE Known(calls[i].share)'
      <4>1. CASE i = e
        BY <1>2, <1>9, <2>2, <2>3, <4>1 DEF Known, Older, Drawn
      <4>2. CASE i # e
        BY <1>1, <1>2, <2>2, <4>2 DEF SharesKnown, Known, Older, Drawn
      <4> QED
        BY <4>1, <4>2
    <3> QED
      BY <1>11, <3>1 DEF SharesKnown
  <2>5. ASSUME NEW m \in Miners, NEW k \in DOMAIN resultQ[m],
               r.job = myJob.id, resultQ[m][k].job = myJob.id, m = d => 1 < k
        PROVE  Drawn(r) < Drawn(resultQ[m][k])
    <3>1. m = d
      BY <1>8, <1>9, <2>5 DEF Known
    <3> QED
      BY <1>1, <1>3, <1>4, <1>13, <2>5, <3>1 DEF DrawnInOrder, Before, r
  <2>6. DrawnInOrder'
    <3> SUFFICES ASSUME NEW m \in Miners, NEW k \in DOMAIN resultQ'[m]
                 PROVE  /\ \A i \in DOMAIN calls' : Before(calls[i].share, m, k)'
                        /\ \A l \in DOMAIN resultQ'[m] : l < k => Before(resultQ[m][l], m, k)'
      BY DEF DrawnInOrder
    <3>1. At(m, k) \in DOMAIN resultQ[m] /\ resultQ'[m][k] = resultQ[m][At(m, k)]
      BY <1>6
    <3>2. ASSUME NEW i \in DOMAIN calls' PROVE Before(calls[i].share, m, k)'
      <4>1. CASE i = e
        BY <1>2, <1>6, <2>2, <2>3, <2>5, <4>1 DEF Before, Drawn
      <4>2. CASE i # e
        BY <1>1, <1>2, <1>13, <2>2, <3>1, <4>2 DEF DrawnInOrder, Before, Drawn
      <4> QED
        BY <4>1, <4>2
    <3>3. ASSUME NEW l \in DOMAIN resultQ'[m], l < k PROVE Before(resultQ[m][l], m, k)'
      <4>1. /\ At(m, l) \in DOMAIN resultQ[m] /\ resultQ'[m][l] = resultQ[m][At(m, l)]
            /\ At(m, l) < At(m, k)
        BY <1>6, <1>7, <3>3
      <4> QED
        BY <1>1, <1>2, <1>13, <3>1, <4>1 DEF DrawnInOrder, Before, Drawn
    <3> QED
      BY <3>2, <3>3
  <2>7. SubmittedOnce'
    <3> SUFFICES ASSUME NEW i \in DOMAIN calls', NEW j \in DOMAIN calls', i < j,
                        calls'[i].share.job = calls'[j].share.job,
                        calls'[i].share.nonce = calls'[j].share.nonce
                 PROVE  calls'[j].late \/ calls'[j].share.round > 0
      BY DEF SubmittedOnce
    <3>1. i \in DOMAIN calls /\ calls'[i] = calls[i] /\ calls[i].share \in Results
      BY <2>2, ShareTypes
    <3>2. CASE j # e
      BY <1>1, <2>2, <3>1, <3>2 DEF SubmittedOnce
    <3>3. CASE j = e /\ r.job = myJob.id
      <4>1. calls[i].share.job = myJob.id /\ calls'[j].share = r
        BY <2>2, <2>3, <3>1, <3>3
      <4>2. Drawn(calls[i].share) < Drawn(r)
        BY <1>1, <1>3, <1>4, <1>13, <3>1, <3>3, <4>1 DEF DrawnInOrder, Before, r
      <4> QED
        BY <1>9, <3>1, <4>1, <4>2, SameNonceLater
    <3>4. CASE j = e /\ r.job # myJob.id
      BY <2>2, <2>3, <3>4
    <3> QED
      BY <3>2, <3>3, <3>4
  <2> QED
    BY <1>10, <2>4, <2>6, <2>7 DEF OnceInv
<1> QED
  BY <1>12, <1>13 DEF SharesInv, ConnOK

\* What the loop thread does besides with my_job keeps what is said of the jobs and shares.
LEMMA OnceLoop ==
  ASSUME SharesInv, OnceInv,
         \/ EndDrain \/ PublishJob \/ OnConnect \/ OnShutdown \/ OnError \/ OnClose
         \/ \E i \in DOMAIN calls, ok \in BOOLEAN : OnResultReply(i, ok)
  PROVE  OnceInv'
<1>1. JobsKnown /\ SharesKnown /\ DrawnInOrder /\ SubmittedOnce
  BY DEF OnceInv
<1>2. /\ UNCHANGED <<myJob, resultQ, job, pc>>
      /\ hasJob' => hasJob /\ draws' = draws
      /\ current' \in {current, IdleJob, myJob}
      /\ stage' \in {"parsing", "publishing"} => stage' = stage
      /\ stage = "publishing" => stage' # "publishing"
  BY DEF EndDrain, PublishJob, OnConnect, OnShutdown, OnError, OnClose, OnResultReply, poolVars,
         loopVars, minerVars
<1>3. /\ DOMAIN calls' = DOMAIN calls
      /\ \A i \in DOMAIN calls :
           calls'[i].share = calls[i].share /\ calls'[i].late = calls[i].late
  <2>1. CASE UNCHANGED calls
    BY <2>1
  <2>2. \A i \in DOMAIN calls : calls[i] \in Calls
    BY DEF SharesInv, CallsOK
  <2>3. \A i \in DOMAIN calls :
          LET c == [calls[i] EXCEPT !.state = "closed"]
          IN  c.share = calls[i].share /\ c.late = calls[i].late
    BY <2>2 DEF Calls
  <2>4. CASE OnClose
    BY <2>3, <2>4 DEF OnClose
  <2>5. ASSUME NEW i \in DOMAIN calls, NEW ok \in BOOLEAN, OnResultReply(i, ok)
        PROVE  calls' = [calls EXCEPT ![i] = [calls[i] EXCEPT !.state = "closed"]]
    BY <2>5 DEF OnResultReply
  <2> QED
    BY <2>1, <2>3, <2>4, <2>5 DEF EndDrain, PublishJob, OnConnect, OnShutdown, OnError
<1>4. SharesKnown' /\ DrawnInOrder' /\ SubmittedOnce'
  BY <1>1, <1>2, <1>3, SharesKept
<1>5. JobsKnown'
  <2>1. \A j : JobKnown(j) => Older(j.id)' /\ (j.id = myJob'.id => j = myJob')
    BY <1>2 DEF JobKnown, Older
  <2>2. CASE ~PublishJob
    BY <1>1, <1>2, <2>1, <2>2
    DEF EndDrain, OnConnect, OnShutdown, OnError, OnClose, OnResultReply, JobsKnown, JobKnown,
        Older
  <2>3. CASE PublishJob
    BY <1>1, <1>2, <2>1, <2>3 DEF PublishJob, JobsKnown, JobKnown, Older, SharesInv, ConnOK, Jobs
  <2> QED
    BY <2>2, <2>3
<1> QED
  BY <1>4, <1>5 DEF OnceInv

\* A message's id is a new one, and no job or share has it until it is published.
LEMMA OnceJob ==
  ASSUME SharesInv, OnceInv, ReceiveJob \/ RefuseJob \/ AcceptJob
  PROVE  OnceInv'
<1>1. JobsKnown /\ SharesKnown /\ DrawnInOrder /\ SubmittedOnce
  BY DEF OnceInv
<1>2. UNCHANGED <<calls, resultQ, current, job, pc>>
  BY DEF ReceiveJob, RefuseJob, AcceptJob, minerVars
<1>3. /\ myJob \in Jobs /\ \A j \in Jobs : j.id \in Nat
      /\ IdleJob \in Jobs /\ current \in Jobs /\ \A m \in Miners : job[m] \in Jobs
  BY SharesAssumption DEF SharesInv, ConnOK, MinersOK, Jobs, IdleJob, Workers
<1>4. /\ myJob'.id \in Nat
      /\ \A id \in Nat : Older(id) => id < myJob'.id
  <2>1. CASE ReceiveJob
    <3>1. myJob'.id = myJob.id + 1
      BY <1>3, <2>1 DEF ReceiveJob, Jobs
    <3> QED
      BY <1>3, <3>1 DEF Older
  <2>2. CASE RefuseJob \/ AcceptJob
    <3>1. myJob'.id = myJob.id /\ stage = "parsing"
      BY <1>3, <2>2 DEF RefuseJob, AcceptJob, Jobs
    <3> QED
      BY <1>3, <3>1 DEF Older
  <2> QED
    BY <2>1, <2>2
<1>5. SharesKnown' /\ DrawnInOrder' /\ SubmittedOnce'
  BY <1>1, <1>2, <1>3, <1>4, SharesOlder, ShareTypes
<1>6. ASSUME NEW j, j \in Jobs, JobKnown(j) PROVE JobKnown(j)'
  <2>1. j.id < myJob'.id
    BY <1>3, <1>4, <1>6 DEF JobKnown
  <2> QED
    BY <1>3, <1>4, <1>6, <2>1 DEF JobKnown, Older
<1>7. JobsKnown'
  BY <1>1, <1>2, <1>3, <1>6 DEF JobsKnown, JobKnown, Older
<1> QED
  BY <1>5, <1>7 DEF OnceInv

LEMMA OnceNext == SharesInv /\ OnlyChunkStarts /\ OnceInv /\ [Next]_vars => OnceInv'
<1> SUFFICES ASSUME SharesInv, OnlyChunkStarts, OnceInv, [Next]_vars PROVE OnceInv'
  OBVIOUS
<1>1. CASE UNCHANGED vars
  BY <1>1
  DEF vars, OnceInv, JobsKnown, JobKnown, SharesKnown, Known, Older, Drawn, DrawnInOrder, Before,
      SubmittedOnce
<1>2. CASE Next
  BY <1>2, OnceMiner, OnceHash, OnceSend, OnceLoop, OnceJob
  DEF Next, MinerStep, DrainStep, JobStep, ConnStep
<1> QED
  BY <1>1, <1>2

THEOREM OnceInvariant == Spec => []OnceInv
<1> QED
  BY OnceInit, OnceNext, SharesInvariant, OneNonceOfAChunk, PTL DEF Spec

\* However messages and errors reset the counter under the miners, no share is submitted
\* twice while its job is the newest and the counter has not gone round.
THEOREM NoShareTwice == Spec => []SubmittedOnce
<1>1. OnceInv => SubmittedOnce
  BY DEF OnceInv
<1> QED
  BY <1>1, OnceInvariant, PTL

\* Only an answer adds to the shares accepted, and it closes the call of one share.
LEMMA CreditNext ==
  ASSUME SharesInv, OnceInv, [Next]_vars, NEW i \in DOMAIN calls, calls[i].share.job = myJob.id
  PROVE  CreditedRight(i)
<1> SUFFICES ASSUME calls[i].state # calls'[i].state, accepted' > accepted
             PROVE  total' = total + Diff(calls[i].share.target)
  BY DEF CreditedRight
<1>1. calls[i].share.target = myJob.target
  BY DEF OnceInv, SharesKnown, Known
<1>2. accepted \in Nat
  BY DEF SharesInv, CountersOK
<1>3. ASSUME NEW j \in DOMAIN calls, NEW ok \in BOOLEAN, OnResultReply(j, ok)
      PROVE  total' = total + Diff(calls[i].share.target)
  BY <1>1, <1>2, <1>3 DEF OnResultReply
<1>4. CASE UNCHANGED accepted
  BY <1>2, <1>4
<1>5. CASE OnClose
  <2>1. accepted' \in {0, accepted}
    BY <1>5 DEF OnClose, counters
  <2> QED
    BY <1>2, <2>1
<1>6. ASSUME NEW m \in Miners, MinerStep(m) \/ OnAsync(m) PROVE UNCHANGED accepted
  BY <1>6 DEF MinerStep, PickUp, CheckJob, LeaveJob, Hash, Signal, OnAsync, counters
<1>7. CASE DrainStep \/ JobStep \/ ReceiveJob \/ OnConnect \/ OnShutdown \/ OnError
  BY <1>4, <1>7
  DEF DrainStep, SendResult, EndDrain, JobStep, RefuseJob, AcceptJob, PublishJob, ReceiveJob,
      OnConnect, OnShutdown, OnError, counters
<1>8. CASE UNCHANGED vars
  BY <1>4, <1>8 DEF vars
<1> QED
  BY <1>3, <1>4, <1>5, <1>6, <1>7, <1>8 DEF Next, ConnStep

\* An accepted share is counted at the target it was found for until a job message has
\* come in, through errors, shutdowns and new connections.
THEOREM CreditIsRight == Spec => CreditedUntilReplaced
<1>1. SharesInv /\ OnceInv /\ [Next]_vars =>
        [\A i \in DOMAIN calls : calls[i].share.job = myJob.id => CreditedRight(i)]_vars
  BY CreditNext
<1> QED
  BY <1>1, SharesInvariant, OnceInvariant, PTL DEF Spec, CreditedUntilReplaced
------------------------------------------------------------------------------
(* The queues. *)

LEMMA DeliveryNext ==
  ASSUME SharesInv, [Next]_vars
  PROVE  [Delivered!Next]_resultQ
<1>1. CASE UNCHANGED resultQ
  BY <1>1
<1>2. ASSUME NEW m \in Miners, Hash(m) PROVE [Delivered!Next]_resultQ
  <2>1. PICK r : r = Result(m)
    OBVIOUS
  <2>2. nonce' \in [Miners -> Nonces] /\ round' \in [Miners -> 0..MaxDraws]
    BY <1>2, HashEffect DEF Hash, SharesInv, CountersOK
  <2>3. r \in Results
    BY <2>1, <2>2 DEF Result, Results, SharesInv, MinersOK, Jobs
  <2>4. CASE resultQ' = [resultQ EXCEPT ![m] = Append(@, Result(m))]
    BY <2>1, <2>3, <2>4 DEF Delivered!Next, Delivered!Find
  <2> QED
    BY <1>1, <1>2, <2>4 DEF Hash
<1>3. CASE SendResult
  BY <1>3 DEF SendResult, SharesInv, ConnOK, Delivered!Next, Delivered!HandOver
<1>4. ASSUME NEW m \in Miners, (MinerStep(m) /\ ~Hash(m)) \/ OnAsync(m)
      PROVE  UNCHANGED resultQ
  BY <1>4 DEF MinerStep, PickUp, CheckJob, LeaveJob, Signal, OnAsync
<1>5. ASSUME NEW i \in DOMAIN calls, NEW ok \in BOOLEAN, OnResultReply(i, ok)
      PROVE  UNCHANGED resultQ
  BY <1>5 DEF OnResultReply
<1>6. CASE EndDrain \/ JobStep \/ ConnStep
  BY <1>1, <1>6
  DEF EndDrain, JobStep, ConnStep, RefuseJob, AcceptJob, PublishJob, ReceiveJob, OnConnect,
      OnShutdown, OnError, OnClose
<1>7. CASE UNCHANGED vars
  BY <1>1, <1>7 DEF vars
<1> QED
  BY <1>1, <1>2, <1>3, <1>4, <1>5, <1>6, <1>7 DEF Next, DrainStep

\* What a miner finds is handed over once and in the order found, and nothing else is:
\* the safety of Delivery; that all is handed over in the end is DeliversAll.
THEOREM SharesDeliver == Spec => Delivered!Spec
<1>1. Init => Delivered!Init
  BY DEF Init, Delivered!Init
<1>2. SharesInv /\ [Next]_vars => [Delivered!Next]_resultQ
  BY DeliveryNext
<1> QED
  BY <1>1, <1>2, SharesInvariant, PTL DEF Spec, Delivered!Spec
=============================================================================
