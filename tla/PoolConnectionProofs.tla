------------------------ MODULE PoolConnectionProofs ------------------------
(* Proofs about PoolConnection, for any number of buffers, slots, calls and *)
(* miners: first what holds under every fault, then, when each connection   *)
(* is closed before the next is begun, that no assertion fails and that an  *)
(* answer finds the call it answers, each without the faults that break it. *)
EXTENDS PoolConnection, TLAPS

(* What holds under every fault, as long as no assertion has failed. *)

\* uv_tcp_connect is only pending on a socket that is just opened.
AttemptHasSocket == conn = "pending" => sock = "open"

\* A socket in use is what makes a pool live and its miners work.
LiveHasSocket ==
  poolState \in {"connected", "has_job"} \/ work => sock \in {"reading", "deaf", "closing"}

\* do_connect has reset g_call_id for the attempt under way.
IdsAreReset ==
  /\ conn = "pending" /\ dns = "pending" => gCallId = 0
  /\ conn = "pending" \/ dns = "pending" => gCallId <= MaxCalls

\* A connecting pool has made one of the two requests of an attempt.
AttemptIsAsked == poolState = "connecting" => dns # "none" \/ conn # "none"

\* shutting_down is the shutdown request and then the close of the socket, and it is set
\* once the stream has ended.
ShutdownIsMarked ==
  /\ shutting <=> shutReq # "none" \/ sock = "closing"
  /\ sock = "closing" => shutReq = "none" /\ writes = {}
  /\ sock = "deaf" => shutting

WritesAreActive == \A b \in writes : active[b] /\ sendData[b]

RunningInv == /\ AttemptHasSocket /\ LiveHasSocket /\ IdsAreReset
              /\ AttemptIsAsked /\ ShutdownIsMarked /\ WritesAreActive

FaultyInv == /\ TypeOK
             /\ "r_shutdown" \notin failed /\ "write_active" \notin failed
             /\ Running => RunningInv

(* What holds besides when each connection is closed before the next is begun. *)

\* An attempt: the resolver first, then uv_tcp_connect, on a pool left clean.
AttemptIsClean ==
  /\ dns # "none" => sock = "none" /\ conn = "none"
  /\ conn # "none" => sock = "open"
  /\ dns # "none" \/ conn # "none" =>
       poolState = "connecting" /\ ~shutting /\ \A s \in Slots : callMap[s] = Unused

\* A socket the pool has given up is on its way to being closed.
GivenUpIsClosing ==
  /\ shutReq # "refused"
  /\ sock = "open" => conn # "none" \/ Closing
  /\ poolState = "idle" => sock = "none" \/ Closing
  /\ sock = "none" => shutReq = "none"

\* Before a connection nothing is written and nothing asked.
NothingIsOut == sock \in {"none", "open"} => writes = {} /\ asked = {}

\* The three records of a send agree.
SendsAgree == \A b \in Buffers : (active[b] <=> b \in writes) /\ (sendData[b] <=> b \in writes)

\* Open calls have distinct ids, and every open request has its call.
CallsAreDistinct ==
  /\ \A s \in Slots : InUse(s) => callMap[s].request.id < gCallId
  /\ \A s, t \in Slots :
       InUse(s) /\ InUse(t) /\ callMap[s].request.id = callMap[t].request.id => s = t
  /\ \A r \in asked : \E t \in Slots : InUse(t) /\ callMap[t].request = r

ClosedInv == FaultyInv /\ (Running => AttemptIsClean /\ GivenUpIsClosing /\ NothingIsOut)

SendInv == ClosedInv /\ Running /\ SendsAgree

CallInv == ClosedInv /\ (Running => CallsAreDistinct)
------------------------------------------------------------------------------
(* What the methods the callbacks share do. *)

\* No call in use can be taken for an unused slot.
LEMMA CallIsNotUnused == \A c \in Calls : c # Unused
<1>1. TAKE c \in Calls
<1>2. DOMAIN c = {"request", "old"}
  BY DEF Calls
<1>3. DOMAIN Unused = {"type"}
  BY DEF Unused
<1>4. "old" \in DOMAIN c /\ "old" \notin DOMAIN Unused
  BY <1>2, <1>3
<1> QED
  BY <1>4

\* do_shutdown while no assertion has failed: it marks the shutdown and never
\* meets a request under way; what libuv accepts is a close to come.
LEMMA ShutdownEffect ==
  ASSUME NEW accepted \in BOOLEAN, Running, TypeOK, ShutdownIsMarked, Shutdown(accepted)
  PROVE  /\ failed' = {} /\ shutting' = TRUE /\ shutReq' \in RequestState
         /\ IF sock = "closing" THEN shutReq' = "none" ELSE shutReq' # "none"
         /\ accepted /\ shutReq # "refused" =>
              shutReq' # "refused" /\ (~shutting => shutReq' = "pending")
         /\ shutting => shutReq' = shutReq
BY DEF Running, TypeOK, ShutdownIsMarked, Shutdown, Assert, RequestState

\* Registering and writing a request keeps the types, advances g_call_id by one
\* at most, and can only miss a buffer or meet a request that was not zeroed.
LEMMA MakeCallEffect ==
  ASSUME TypeOK, Running, gCallId <= MaxCalls, NEW type \in CallTypes,
         NEW miner \in PoolMiners \cup {NoMiner}, MakeCall(type, miner)
  PROVE  /\ callMap' \in [Slots -> Calls \cup {Unused}]
         /\ gCallId' \in {gCallId, gCallId + 1}
         /\ active' \in [Buffers -> BOOLEAN] /\ sendData' \in [Buffers -> BOOLEAN]
         /\ writes' \subseteq Buffers /\ asked' \subseteq Requests
         /\ failed' \subseteq {"no_buffer", "r_send"}
         /\ WritesAreActive => WritesAreActive'
         /\ sock = "closing" => writes' = writes
<1>1. PICK id \in CallIds :
         LET r == [id |-> id, type |-> type, miner |-> miner]
         IN  RegisterCall(r) /\ WriteRequest(r)
  BY DEF MakeCall
<1> DEFINE r == [id |-> id, type |-> type, miner |-> miner]
<1>2. r \in Requests
  BY DEF Requests
<1> HIDE DEF r
<1>3. RegisterCall(r) /\ WriteRequest(r)
  BY <1>1 DEF r
<1>4. callMap' \in [Slots -> Calls \cup {Unused}] /\ gCallId' \in {gCallId, gCallId + 1}
  <2>1. [request |-> r, old |-> FALSE] \in Calls
    BY <1>2 DEF Calls
  <2> QED
    BY <1>3, <2>1 DEF RegisterCall, TypeOK
<1>5. CASE \A b \in Buffers : active[b]
  <2>1. failed' = {"no_buffer"} /\ UNCHANGED <<active, sendData, writes, asked>>
    BY <1>3, <1>5 DEF WriteRequest, FirstFree
  <2> QED
    BY <1>4, <2>1 DEF TypeOK, WritesAreActive
<1>6. CASE ~(\A b \in Buffers : active[b])
  <2>1. PICK b \in Buffers :
          /\ active' = [active EXCEPT ![b] = TRUE]
          /\ sendData' = [sendData EXCEPT ![b] = TRUE]
          /\ failed' = Assert("r_send", ~sendData[b])
          /\ \E accepted \in WriteOutcomes :
               IF accepted
                 THEN writes' = writes \cup {b} /\ asked' = asked \cup {r}
                 ELSE UNCHANGED <<writes, asked>>
    BY <1>3, <1>6 DEF WriteRequest
  <2>2. /\ writes' \subseteq writes \cup {b}
        /\ asked' \subseteq asked \cup {r}
        /\ sock = "closing" => writes' = writes
    BY <2>1 DEF WriteOutcomes
  <2>3. failed' \subseteq {"r_send"}
    BY <2>1 DEF Assert
  <2>4. active' \in [Buffers -> BOOLEAN] /\ sendData' \in [Buffers -> BOOLEAN]
    BY <2>1 DEF TypeOK
  <2>5. WritesAreActive => WritesAreActive'
    BY <2>1, <2>2 DEF TypeOK, WritesAreActive
  <2> QED
    BY <1>2, <1>4, <2>2, <2>3, <2>4, <2>5 DEF TypeOK
<1> QED
  BY <1>5, <1>6
------------------------------------------------------------------------------
(* Every fault allowed: FaultyInv is inductive. *)

LEMMA FaultyInit == Init => FaultyInv
<1> SUFFICES ASSUME Init PROVE FaultyInv
  OBVIOUS
<1> USE PoolAssumption, NetAssumption DEF Init, NetInit
<1>1. TypeOK
  <2>1. 0 \in CallIds
    BY DEF CallIds
  <2>2. /\ [b \in Buffers |-> FALSE] \in [Buffers -> BOOLEAN]
        /\ [s \in Slots |-> Unused] \in [Slots -> Calls \cup {Unused}]
    OBVIOUS
  <2> QED
    BY <2>1, <2>2 DEF TypeOK, RequestState
<1>2. RunningInv
  BY DEF RunningInv, AttemptHasSocket, LiveHasSocket, AttemptIsAsked, IdsAreReset,
         ShutdownIsMarked, WritesAreActive
<1> QED
  BY <1>1, <1>2 DEF FaultyInv

\* net_on_error, whatever part of the connection reports the error: the socket is
\* as before or has just reached its end, and a write or the attempt may be over.
LEMMA NetOnErrorEffect ==
  ASSUME FaultyInv, Running, NEW accepted \in BOOLEAN, NetOnError(accepted),
         dns' \in {dns, "none"}, conn' \in {conn, "none"},
         sock' = sock \/ (sock = "reading" /\ sock' = "deaf"), writes' \subseteq writes,
         UNCHANGED <<active, sendData, asked, attempt, callMap, gCallId, work>>
  PROVE  FaultyInv'
<1>1. TypeOK /\ RunningInv
  BY DEF FaultyInv
<1>2. /\ failed' = {} /\ shutting' = TRUE /\ shutReq' \in RequestState
      /\ IF sock = "closing" THEN shutReq' = "none" ELSE shutReq' # "none"
  BY <1>1, ShutdownEffect DEF RunningInv, NetOnError
<1>3. poolState' = "idle"
  BY DEF NetOnError
<1>4. TypeOK'
  BY <1>1, <1>2, <1>3 DEF TypeOK, RequestState
<1>5. AttemptHasSocket' /\ LiveHasSocket' /\ IdsAreReset' /\ AttemptIsAsked'
  BY <1>1, <1>3
     DEF RunningInv, AttemptHasSocket, LiveHasSocket, AttemptIsAsked, IdsAreReset
<1>6. ShutdownIsMarked'
  BY <1>1, <1>2 DEF RunningInv, ShutdownIsMarked
<1>7. WritesAreActive'
  BY <1>1 DEF RunningInv, WritesAreActive
<1> QED
  BY <1>2, <1>4, <1>5, <1>6, <1>7 DEF FaultyInv, RunningInv

\* A refused message: the pool keeps its state until the socket is closed.
LEMMA RefuseEffect ==
  ASSUME FaultyInv, Running, sock = "reading", RefuseMessage,
         sock' \in {"reading", "deaf"}, asked' \subseteq asked,
         callMap' \in [Slots -> Calls \cup {Unused}],
         UNCHANGED <<dns, conn, active, sendData, writes, attempt, gCallId>>
  PROVE  FaultyInv'
<1>1. TypeOK /\ RunningInv
  BY DEF FaultyInv
<1>2. /\ failed' = {} /\ shutting' = TRUE /\ shutReq' \in RequestState
      /\ shutReq' # "none" /\ UNCHANGED <<poolState, work>>
  BY <1>1, ShutdownEffect DEF RunningInv, RefuseMessage
<1>4. TypeOK'
  BY <1>1, <1>2 DEF TypeOK, RequestState
<1>5. RunningInv'
  BY <1>1, <1>2
     DEF TypeOK, RunningInv, AttemptHasSocket, LiveHasSocket, AttemptIsAsked, IdsAreReset,
         ShutdownIsMarked, WritesAreActive
<1> QED
  BY <1>2, <1>4, <1>5 DEF FaultyInv

LEMMA FaultyNext == FaultyInv /\ [Next]_vars => FaultyInv'
<1> SUFFICES ASSUME FaultyInv, [Next]_vars PROVE FaultyInv'
  OBVIOUS
<1>0. TypeOK /\ (Running => RunningInv)
  BY DEF FaultyInv
<1> USE PoolAssumption, NetAssumption
<1>1. CASE Running /\ HeartbeatTimeout
  BY <1>0, <1>1, NetOnErrorEffect DEF TypeOK, HeartbeatTimeout
<1>2. CASE Running /\ HeartbeatConnect
  <2>1. TypeOK'
    BY <1>0, <1>2
       DEF HeartbeatConnect, StartConnect, Assert, Running, TypeOK, RequestState, CallIds,
           netVars, poolVars
  <2>2. "r_shutdown" \notin failed' /\ "write_active" \notin failed'
    BY <1>0, <1>2 DEF HeartbeatConnect, StartConnect, Assert, Running, RunningInv,
                      WritesAreActive, TypeOK, netVars
  <2>3. Running' => RunningInv'
    BY <1>0, <1>2
       DEF HeartbeatConnect, StartConnect, Assert, Running, TypeOK, CallIds, RunningInv,
           AttemptHasSocket, LiveHasSocket, AttemptIsAsked, IdsAreReset,
           ShutdownIsMarked, WritesAreActive, netVars, poolVars
  <2> QED
    BY <2>1, <2>2, <2>3 DEF FaultyInv
<1>3. CASE Running /\ AttemptAges
  <2>1. TypeOK'
    BY <1>0, <1>3
       DEF AttemptAges, Running, TypeOK, RequestState, CallIds, netVars, poolVars
  <2>2. "r_shutdown" \notin failed' /\ "write_active" \notin failed'
    BY <1>0, <1>3 DEF AttemptAges, Running, RunningInv, WritesAreActive, TypeOK, netVars
  <2>3. Running' => RunningInv'
    BY <1>0, <1>3
       DEF AttemptAges, Running, TypeOK, CallIds, RunningInv, AttemptHasSocket,
           LiveHasSocket, AttemptIsAsked, IdsAreReset, ShutdownIsMarked, WritesAreActive,
           netVars, poolVars
  <2> QED
    BY <2>1, <2>2, <2>3 DEF FaultyInv
<1>4. CASE Running /\ \E s \in Slots : CallAges(s)
  <2>1. PICK s \in Slots : CallAges(s)
    BY <1>4
  <2>2. callMap' \in [Slots -> Calls \cup {Unused}]
    <3>1. callMap[s] \in Calls
      BY <1>0, <2>1 DEF CallAges, InUse, TypeOK
    <3>2. [callMap[s] EXCEPT !.old = TRUE] \in Calls
      BY <3>1 DEF Calls
    <3> QED
      BY <1>0, <2>1, <3>2 DEF CallAges, TypeOK
  <2>3. TypeOK'
    BY <1>0, <2>1, <2>2 DEF CallAges, TypeOK, netVars
  <2>4. RunningInv'
    BY <1>0, <1>4, <2>1
       DEF CallAges, RunningInv, AttemptHasSocket, LiveHasSocket, AttemptIsAsked,
           IdsAreReset, ShutdownIsMarked, WritesAreActive, netVars
  <2> QED
    BY <1>4, <2>1, <2>3, <2>4 DEF CallAges, FaultyInv, Running
<1>5. CASE Running /\ OnDnsResolved
  <2>0. /\ dns' = "none" /\ sock' = "open" /\ conn' \in RequestState
        /\ failed' \subseteq {"h_sock", "r_conn"}
    BY <1>5 DEF OnDnsResolved, OpenSocket, Assert, RequestState
  <2>1. TypeOK'
    BY <1>0, <1>5, <2>0 DEF OnDnsResolved, TypeOK, RequestState, CallIds, poolVars
  <2>2. "r_shutdown" \notin failed' /\ "write_active" \notin failed'
    BY <1>0, <1>5
       DEF OnDnsResolved, OpenSocket, Assert, Running, RunningInv, WritesAreActive,
           TypeOK, netVars
  <2>3. Running' => RunningInv'
    BY <1>0, <1>5
       DEF OnDnsResolved, OpenSocket, Assert, Running, TypeOK, CallIds, RunningInv,
           AttemptHasSocket, LiveHasSocket, AttemptIsAsked, IdsAreReset,
           ShutdownIsMarked, WritesAreActive, netVars, poolVars
  <2> QED
    BY <2>1, <2>2, <2>3 DEF FaultyInv
<1>6. CASE Running /\ OnDnsError
  <2>1. CASE sock \in {"open", "reading", "deaf"}
    <3>1. NetOnError(TRUE)
      BY <1>6, <2>1 DEF OnDnsError, NetOnError, Shutdown
    <3> QED
      BY <1>6, <3>1, NetOnErrorEffect DEF OnDnsError
  <2>2. CASE ~(sock \in {"open", "reading", "deaf"})
    <3>1. NetOnError(FALSE)
      BY <1>6, <2>2 DEF OnDnsError, NetOnError, Shutdown
    <3> QED
      BY <1>6, <3>1, NetOnErrorEffect DEF OnDnsError
  <2> QED
    BY <2>1, <2>2
<1>7. CASE Running /\ OnConnect
  <2>1. gCallId <= MaxCalls /\ (dns = "pending" => gCallId = 0) /\ sock = "open" /\ ~work
    BY <1>0, <1>7
       DEF OnConnect, RunningInv, AttemptHasSocket, IdsAreReset, LiveHasSocket, TypeOK
  <2>2. MakeCall("login", NoMiner) /\ "login" \in CallTypes
    BY <1>7 DEF OnConnect, CallTypes
  <2>3. /\ callMap' \in [Slots -> Calls \cup {Unused}]
        /\ gCallId' \in {gCallId, gCallId + 1}
        /\ active' \in [Buffers -> BOOLEAN] /\ sendData' \in [Buffers -> BOOLEAN]
        /\ writes' \subseteq Buffers /\ asked' \subseteq Requests
        /\ failed' \subseteq {"no_buffer", "r_send"}
        /\ WritesAreActive => WritesAreActive'
    BY <1>0, <1>7, <2>1, <2>2, MakeCallEffect
  <2>4. TypeOK'
    BY <1>0, <1>7, <2>1, <2>3 DEF OnConnect, TypeOK, RequestState, CallIds
  <2>5. RunningInv'
    BY <1>0, <1>7, <2>1, <2>3
       DEF OnConnect, TypeOK, CallIds, RunningInv, AttemptHasSocket, LiveHasSocket,
           AttemptIsAsked, IdsAreReset, ShutdownIsMarked
  <2> QED
    BY <2>3, <2>4, <2>5 DEF FaultyInv
<1>8. CASE Running /\ OnConnectError
  BY <1>0, <1>8, NetOnErrorEffect DEF TypeOK, OnConnectError
<1>9. CASE Running /\ OnJob
  <2>1. TypeOK'
    BY <1>0, <1>9
       DEF OnJob, AcceptJob, Running, TypeOK, RequestState, CallIds, netVars, poolVars
  <2>2. "r_shutdown" \notin failed' /\ "write_active" \notin failed'
    BY <1>0, <1>9
       DEF OnJob, AcceptJob, Running, RunningInv, WritesAreActive, TypeOK, netVars
  <2>3. Running' => RunningInv'
    BY <1>0, <1>9
       DEF OnJob, AcceptJob, Running, TypeOK, CallIds, RunningInv, AttemptHasSocket,
           LiveHasSocket, AttemptIsAsked, IdsAreReset,
           ShutdownIsMarked, WritesAreActive, netVars, poolVars
  <2> QED
    BY <2>1, <2>2, <2>3 DEF FaultyInv
<1>10. CASE Running /\ OnBadMessage
  BY <1>0, <1>10, RefuseEffect DEF OnBadMessage, TypeOK
<1>11. CASE Running /\ OnGarbage
  BY <1>0, <1>11, NetOnErrorEffect DEF TypeOK, OnGarbage
<1>12. CASE Running /\ OnEof
  <2>1. CASE shutting
    BY <1>0, <1>12, <2>1, NetOnErrorEffect DEF TypeOK, OnEof, NetOnError
  <2>2. CASE ~shutting
    BY <1>0, <1>12, <2>2, RefuseEffect DEF OnEof, RefuseMessage, TypeOK
  <2> QED
    BY <2>1, <2>2
<1>13. CASE Running /\ OnReadError
  BY <1>0, <1>13, NetOnErrorEffect DEF TypeOK, OnReadError
<1>14. CASE Running /\ \E r \in asked, ok \in BOOLEAN : OnReply(r, ok)
  <2>1. PICK r \in asked, ok \in BOOLEAN : OnReply(r, ok)
    BY <1>14
  <2>2. /\ sock = "reading" /\ asked' \subseteq asked
        /\ UNCHANGED <<dns, sock, conn, active, sendData, writes, attempt, gCallId>>
        /\ callMap' \in [Slots -> Calls \cup {Unused}]
    BY <1>0, <2>1 DEF OnReply, TypeOK
  <2>3. \/ RefuseMessage
        \/ UNCHANGED <<shutting, shutReq, failed, poolState, work>>
        \/ AcceptJob /\ UNCHANGED <<shutting, shutReq, failed>>
    BY <2>1 DEF OnReply
  <2>4. CASE RefuseMessage
    BY <1>14, <2>2, <2>4, RefuseEffect
  <2>5. CASE ~RefuseMessage
    <3>1. /\ UNCHANGED <<shutting, shutReq, failed>>
          /\ \/ UNCHANGED <<poolState, work>>
             \/ poolState' = "has_job" /\ work' = TRUE
      BY <2>3, <2>5 DEF AcceptJob
    <3>2. TypeOK'
      BY <1>0, <2>2, <3>1 DEF TypeOK
    <3>3. RunningInv'
      BY <1>0, <1>14, <2>2, <3>1
         DEF RunningInv, AttemptHasSocket, LiveHasSocket, AttemptIsAsked, IdsAreReset,
             ShutdownIsMarked, WritesAreActive, netVars, poolVars
    <3> QED
      BY <1>14, <3>1, <3>2, <3>3 DEF FaultyInv, Running
  <2> QED
    BY <2>4, <2>5
<1>15. CASE Running /\ \E m \in PoolMiners : OnFoundResult(m)
  <2>1. PICK m \in PoolMiners : OnFoundResult(m)
    BY <1>15
  <2>2. /\ gCallId < MaxCalls /\ sock \in {"reading", "deaf", "closing"}
        /\ conn # "pending"
    BY <1>0, <1>15, <2>1 DEF OnFoundResult, RunningInv, AttemptHasSocket, LiveHasSocket
  <2>3. MakeCall("result", m) /\ "result" \in CallTypes /\ gCallId <= MaxCalls
    BY <1>0, <2>1, <2>2 DEF OnFoundResult, CallTypes, TypeOK, CallIds
  <2>4. /\ callMap' \in [Slots -> Calls \cup {Unused}]
        /\ gCallId' \in {gCallId, gCallId + 1}
        /\ active' \in [Buffers -> BOOLEAN] /\ sendData' \in [Buffers -> BOOLEAN]
        /\ writes' \subseteq Buffers /\ asked' \subseteq Requests
        /\ failed' \subseteq {"no_buffer", "r_send"}
        /\ WritesAreActive => WritesAreActive'
        /\ sock = "closing" => writes' = writes
    BY <1>0, <1>15, <2>3, MakeCallEffect
  <2>5. TypeOK'
    BY <1>0, <2>1, <2>2, <2>4 DEF OnFoundResult, TypeOK, CallIds
  <2>6. RunningInv'
    BY <1>0, <1>15, <2>1, <2>2, <2>4
       DEF OnFoundResult, TypeOK, CallIds, RunningInv, AttemptHasSocket, LiveHasSocket,
           AttemptIsAsked, IdsAreReset, ShutdownIsMarked
  <2> QED
    BY <2>4, <2>5, <2>6 DEF FaultyInv
<1>16. CASE Running /\ (\E b \in Buffers : OnWriteComplete(b))
  <2>1. TypeOK'
    BY <1>0, <1>16
       DEF OnWriteComplete, WriteComplete, Assert, Running, TypeOK, RequestState, CallIds,
           netVars, poolVars
  <2>2. "r_shutdown" \notin failed' /\ "write_active" \notin failed'
    BY <1>0, <1>16 DEF OnWriteComplete, WriteComplete, Assert, Running, RunningInv,
                       WritesAreActive, TypeOK, netVars
  <2>3. Running' => RunningInv'
    BY <1>0, <1>16
       DEF OnWriteComplete, WriteComplete, Assert, Running, TypeOK, CallIds, RunningInv,
           AttemptHasSocket, LiveHasSocket, AttemptIsAsked, IdsAreReset,
           ShutdownIsMarked, WritesAreActive, netVars, poolVars
  <2> QED
    BY <2>1, <2>2, <2>3 DEF FaultyInv
<1>17. CASE Running /\ \E b \in Buffers : OnWriteError(b)
  <2>1. PICK b \in Buffers : OnWriteError(b)
    BY <1>17
  <2>2. /\ NetOnError(TRUE) /\ writes' \subseteq writes
        /\ UNCHANGED <<dns, sock, conn, active, sendData, asked, attempt, callMap, gCallId, work>>
    BY <2>1 DEF OnWriteError
  <2> QED
    BY <1>0, <1>17, <2>2, NetOnErrorEffect DEF TypeOK
<1>18. CASE Running /\ OnShutdown
  <2>1. TypeOK'
    BY <1>0, <1>18
       DEF OnShutdown, CloseSocket, Running, TypeOK, RequestState, CallIds, netVars,
           poolVars
  <2>2. "r_shutdown" \notin failed' /\ "write_active" \notin failed'
    BY <1>0, <1>18
       DEF OnShutdown, CloseSocket, Running, RunningInv, WritesAreActive, TypeOK, netVars
  <2>3. Running' => RunningInv'
    BY <1>0, <1>18
       DEF OnShutdown, CloseSocket, Running, TypeOK, CallIds, RunningInv,
           AttemptHasSocket, LiveHasSocket, AttemptIsAsked, IdsAreReset, ShutdownIsMarked,
           WritesAreActive, netVars, poolVars
  <2> QED
    BY <2>1, <2>2, <2>3 DEF FaultyInv
<1>19. CASE Running /\ OnClose
  <2>1. TypeOK'
    BY <1>0, <1>19
       DEF OnClose, SocketClosed, Running, TypeOK, RequestState, CallIds, netVars,
           poolVars
  <2>2. "r_shutdown" \notin failed' /\ "write_active" \notin failed'
    BY <1>0, <1>19
       DEF OnClose, SocketClosed, Running, RunningInv, WritesAreActive, TypeOK, netVars
  <2>3. Running' => RunningInv'
    BY <1>0, <1>19
       DEF OnClose, SocketClosed, Running, TypeOK, CallIds, RunningInv, AttemptHasSocket,
           LiveHasSocket, AttemptIsAsked, IdsAreReset,
           ShutdownIsMarked, WritesAreActive, netVars, poolVars
  <2> QED
    BY <2>1, <2>2, <2>3 DEF FaultyInv
<1>20. CASE UNCHANGED vars
  BY <1>20
     DEF vars, FaultyInv, TypeOK, Running, RunningInv, AttemptHasSocket, LiveHasSocket,
         AttemptIsAsked, IdsAreReset, ShutdownIsMarked, WritesAreActive
<1> QED
  BY <1>1, <1>2, <1>3, <1>4, <1>5, <1>6, <1>7, <1>8, <1>9, <1>10, <1>11, <1>12, <1>13,
     <1>14, 
     <1>15, <1>16, <1>17, <1>18, <1>19, <1>20
     DEF Next, Running, Heartbeat, Clock, DnsAnswers, ConnectAnswers, Message, WriteAnswers

\* The invariant of the pool under every fault.
THEOREM FaultyInvariant == Spec => []FaultyInv
<1>1. Init => FaultyInv
  BY FaultyInit
<1>2. FaultyInv /\ [Next]_vars => FaultyInv'
  BY FaultyNext
<1> QED
  BY <1>1, <1>2, PTL DEF Spec

\* Every variable of a pool keeps its type, whatever the environment does.
THEOREM PoolTypeCorrect == Spec => []TypeOK
<1>1. FaultyInv => TypeOK
  BY DEF FaultyInv
<1> QED
  BY <1>1, FaultyInvariant, PTL

\* A live pool, and working miners, always have a socket that is being read or whose
\* close is to come, so that on_pool_disconnect follows the loss of the connection,
\* unless uv_shutdown was refused.
THEOREM LiveStateIsBacked == Spec => []LiveStateHasSocket
<1>1. FaultyInv => LiveStateHasSocket
  BY DEF FaultyInv, TypeOK, RequestState, RunningInv, LiveHasSocket, ShutdownIsMarked,
         LiveStateHasSocket, Closing
<1> QED
  BY <1>1, FaultyInvariant, PTL

\* r_shutdown is never requested twice, and a completed write finds its buffer.
THEOREM ShutdownIsSingle == Spec => []OneShutdown
<1>1. FaultyInv => OneShutdown
  BY DEF FaultyInv, RunningInv, ShutdownIsMarked, WritesAreActive, OneShutdown, Closing
<1> QED
  BY <1>1, FaultyInvariant, PTL

\* A connecting pool, which the heartbeat leaves alone, has a callback to come, unless
\* libuv has refused to resolve or to connect.
THEOREM ConnectingIsBacked == Spec => []ConnectingHasRequest
<1>1. FaultyInv => ConnectingHasRequest
  BY DEF FaultyInv, TypeOK, RequestState, RunningInv, AttemptIsAsked, ConnectingHasRequest
<1> QED
  BY <1>1, FaultyInvariant, PTL
------------------------------------------------------------------------------
(* Connections that do not stay open behind the next attempt: ClosedInv is   *)
(* inductive.                                                                *)

LEMMA ClosedParts ==
  ASSUME ClosedInv, Running
  PROVE  /\ FaultyInv /\ TypeOK /\ AttemptHasSocket /\ LiveHasSocket /\ AttemptIsAsked
         /\ IdsAreReset /\ ShutdownIsMarked /\ WritesAreActive
         /\ AttemptIsClean /\ GivenUpIsClosing /\ NothingIsOut
BY DEF ClosedInv, FaultyInv, RunningInv

LEMMA ClosedInit == Init => ClosedInv
<1> SUFFICES ASSUME Init PROVE ClosedInv
  OBVIOUS
<1>1. AttemptIsClean /\ GivenUpIsClosing /\ NothingIsOut
  BY DEF Init, NetInit, AttemptIsClean, GivenUpIsClosing, NothingIsOut
<1> QED
  BY <1>1, FaultyInit DEF ClosedInv

\* An error on a connection that is there: its close is then under way.
LEMMA ClosedError ==
  ASSUME ClosedInv, Running, sock # "none", conn # "refused", NetOnError(TRUE),
         UNCHANGED dns, conn' = "none", sock' = sock \/ (sock = "reading" /\ sock' = "deaf"),
         writes' \subseteq writes, UNCHANGED asked
  PROVE  Running' /\ AttemptIsClean' /\ GivenUpIsClosing' /\ NothingIsOut'
<1>1. /\ TypeOK /\ ShutdownIsMarked /\ AttemptIsClean /\ GivenUpIsClosing /\ NothingIsOut
  BY ClosedParts
<1>2. /\ failed' = {} /\ shutting' = TRUE /\ shutReq' # "refused" /\ poolState' = "idle"
      /\ shutReq' = "pending" \/ (shutting /\ shutReq' = shutReq)
  BY <1>1, ShutdownEffect DEF NetOnError, GivenUpIsClosing
<1>3. dns' = "none" /\ sock' # "none"
  BY <1>1 DEF AttemptIsClean
<1>4. Closing'
  BY <1>1, <1>2 DEF Closing, GivenUpIsClosing, ShutdownIsMarked, TypeOK, RequestState
<1>5. AttemptIsClean' /\ GivenUpIsClosing' /\ NothingIsOut'
  BY <1>1, <1>2, <1>3, <1>4 DEF AttemptIsClean, GivenUpIsClosing, NothingIsOut
<1> QED
  BY <1>2, <1>5 DEF Running

\* A refused message: the same, but the pool keeps its state.
LEMMA ClosedRefuse ==
  ASSUME ClosedInv, Running, sock = "reading", RefuseMessage, sock' \in {"reading", "deaf"},
         UNCHANGED <<dns, conn>>
  PROVE  Running' /\ AttemptIsClean' /\ GivenUpIsClosing' /\ NothingIsOut'
<1>1. /\ TypeOK /\ ShutdownIsMarked /\ AttemptIsClean /\ GivenUpIsClosing /\ NothingIsOut
  BY ClosedParts
<1>2. /\ failed' = {} /\ shutting' = TRUE /\ shutReq' # "refused" /\ poolState' = poolState
      /\ shutReq' = "pending" \/ (shutting /\ shutReq' = shutReq)
  BY <1>1, ShutdownEffect DEF RefuseMessage, GivenUpIsClosing
<1>3. dns' = "none" /\ conn' = "none"
  BY <1>1 DEF AttemptIsClean
<1>4. Closing'
  BY <1>1, <1>2 DEF Closing, GivenUpIsClosing, ShutdownIsMarked, TypeOK, RequestState
<1>5. AttemptIsClean' /\ GivenUpIsClosing' /\ NothingIsOut'
  BY <1>2, <1>3, <1>4 DEF AttemptIsClean, GivenUpIsClosing, NothingIsOut
<1> QED
  BY <1>2, <1>5 DEF Running

LEMMA ClosedNext ==
  ASSUME Faults \cap LeavesOpen = {}, ClosedInv, [Next]_vars
  PROVE  ClosedInv'
<1> USE DEF LeavesOpen
<1>a. FaultyInv'
  BY FaultyNext DEF ClosedInv
<1>b. SUFFICES ASSUME Running' PROVE AttemptIsClean' /\ GivenUpIsClosing' /\ NothingIsOut'
  BY <1>a DEF ClosedInv
<1>c. CASE UNCHANGED vars
  BY <1>b, <1>c
     DEF vars, ClosedInv, Running, AttemptIsClean, GivenUpIsClosing, Closing, NothingIsOut
<1>d. SUFFICES ASSUME Next, Running PROVE AttemptIsClean' /\ GivenUpIsClosing' /\ NothingIsOut'
  BY <1>c DEF Next, Running
<1>0. /\ TypeOK /\ AttemptHasSocket /\ LiveHasSocket /\ AttemptIsAsked /\ ShutdownIsMarked
      /\ AttemptIsClean /\ GivenUpIsClosing /\ NothingIsOut
  BY <1>d, ClosedParts
<1>e. sock \notin {"none", "open"} => dns = "none" /\ conn = "none" /\ poolState # "connecting"
  BY <1>0 DEF AttemptIsClean, AttemptIsAsked
<1>f. ASSUME UNCHANGED <<dns, sock, conn, shutting, shutReq, poolState, callMap>>,
             writes' \subseteq writes, UNCHANGED asked
      PROVE  AttemptIsClean' /\ GivenUpIsClosing' /\ NothingIsOut'
  BY <1>0, <1>f DEF AttemptIsClean, GivenUpIsClosing, Closing, NothingIsOut
<1>1. CASE HeartbeatTimeout
  <2>1. sock \notin {"none", "open"}
    BY <1>0, <1>1 DEF HeartbeatTimeout, LiveHasSocket
  <2> QED
    BY <1>1, <1>d, <1>e, <2>1, ClosedError DEF HeartbeatTimeout
<1>2. CASE HeartbeatConnect
  <2>1. ~Closing /\ ~shutting /\ sock = "none" /\ conn = "none"
    BY <1>0, <1>2
       DEF HeartbeatConnect, AttemptIsClean, GivenUpIsClosing, ShutdownIsMarked, TypeOK,
           RequestState
  <2>2. /\ \A s \in Slots : callMap'[s] = Unused
        /\ dns' # "none" /\ poolState' = "connecting"
        /\ UNCHANGED <<sock, conn, shutting, shutReq, writes, asked>>
    BY <1>2 DEF HeartbeatConnect, StartConnect
  <2> QED
    BY <1>0, <2>1, <2>2 DEF AttemptIsClean, GivenUpIsClosing, NothingIsOut
<1>3. CASE AttemptAges
  BY <1>3, <1>f DEF AttemptAges, netVars
<1>4. CASE \E s \in Slots : CallAges(s)
  <2>1. PICK s \in Slots : CallAges(s)
    BY <1>4
  <2>2. dns = "none" /\ conn = "none"
    BY <1>0, <2>1 DEF CallAges, AttemptIsClean, InUse
  <2> QED
    BY <1>0, <2>1, <2>2
       DEF CallAges, netVars, AttemptIsClean, GivenUpIsClosing, Closing, NothingIsOut
<1>5. CASE OnDnsResolved
  <2>1. /\ dns' = "none" /\ sock' = "open" /\ conn' # "none"
        /\ UNCHANGED <<shutting, shutReq, writes, asked, poolState, callMap>>
    BY <1>5 DEF OnDnsResolved, OpenSocket, poolVars
  <2>2. dns # "none" /\ sock = "none"
    BY <1>0, <1>5 DEF OnDnsResolved, AttemptIsClean
  <2> QED
    BY <1>0, <2>1, <2>2 DEF AttemptIsClean, GivenUpIsClosing, Closing, NothingIsOut
<1>6. CASE OnDnsError
  BY <1>6 DEF OnDnsError
<1>7. CASE OnConnect
  <2>1. dns = "none" /\ sock = "open" /\ ~shutting
    BY <1>0, <1>7 DEF OnConnect, AttemptIsClean
  <2>2. /\ dns' = "none" /\ sock' = "reading" /\ conn' = "none" /\ poolState' = "connected"
        /\ UNCHANGED <<shutting, shutReq>>
    BY <1>7, <2>1 DEF OnConnect
  <2> QED
    BY <1>0, <2>1, <2>2 DEF AttemptIsClean, GivenUpIsClosing, NothingIsOut
<1>8. CASE OnConnectError
  <2>1. sock = "open"
    BY <1>0, <1>8 DEF OnConnectError, AttemptHasSocket
  <2> QED
    BY <1>8, <1>d, <2>1, ClosedError DEF OnConnectError
<1>9. CASE OnJob
  BY <1>0, <1>9, <1>e
     DEF OnJob, AcceptJob, netVars, AttemptIsClean, GivenUpIsClosing, Closing,
         NothingIsOut
<1>10. CASE OnBadMessage
  BY <1>10, <1>d, ClosedRefuse DEF OnBadMessage
<1>11. CASE OnGarbage
  BY <1>11, <1>d, <1>e, ClosedError DEF OnGarbage
<1>12. CASE OnEof
  <2>1. CASE shutting
    <3>1. NetOnError(TRUE)
      BY <1>12, <2>1 DEF OnEof, NetOnError
    <3> QED
      BY <1>12, <1>d, <1>e, <3>1, ClosedError DEF OnEof
  <2>2. CASE ~shutting
    <3>1. RefuseMessage
      BY <1>12, <2>2 DEF OnEof, RefuseMessage
    <3> QED
      BY <1>12, <1>d, <3>1, ClosedRefuse DEF OnEof
  <2> QED
    BY <2>1, <2>2
<1>13. CASE OnReadError
  <2>1. NetOnError(TRUE)
    BY <1>13 DEF OnReadError
  <2> QED
    BY <1>13, <1>d, <1>e, <2>1, ClosedError DEF OnReadError
<1>14. CASE \E r \in asked, ok \in BOOLEAN : OnReply(r, ok)
  <2>1. PICK r \in asked, ok \in BOOLEAN : OnReply(r, ok)
    BY <1>14
  <2>2. /\ sock = "reading" /\ UNCHANGED <<dns, sock, conn, writes>>
        /\ \/ RefuseMessage
           \/ AcceptJob /\ UNCHANGED <<shutting, shutReq, failed>>
           \/ UNCHANGED <<shutting, shutReq, failed, poolState, work>>
    BY <2>1 DEF OnReply
  <2>3. CASE RefuseMessage
    BY <1>d, <2>2, <2>3, ClosedRefuse
  <2>4. CASE ~RefuseMessage
    <3>1. UNCHANGED <<shutting, shutReq>> /\ poolState' \in {poolState, "has_job"}
      BY <2>2, <2>4 DEF AcceptJob
    <3> QED
      BY <1>0, <1>e, <2>2, <3>1
         DEF AttemptIsClean, GivenUpIsClosing, Closing, NothingIsOut
  <2> QED
    BY <2>3, <2>4
<1>15. CASE \E m \in PoolMiners : OnFoundResult(m)
  <2>1. /\ poolState = "has_job" /\ UNCHANGED <<dns, sock, conn, shutting, shutReq, poolState>>
    BY <1>15 DEF OnFoundResult
  <2>2. sock \notin {"none", "open"}
    BY <1>0, <2>1 DEF LiveHasSocket
  <2> QED
    BY <1>0, <1>e, <2>1, <2>2 DEF AttemptIsClean, GivenUpIsClosing, Closing, NothingIsOut
<1>16. CASE \E b \in Buffers : OnWriteComplete(b)
  BY <1>16, <1>f DEF OnWriteComplete, WriteComplete, poolVars
<1>17. CASE \E b \in Buffers : OnWriteError(b)
  <2>1. PICK b \in Buffers : OnWriteError(b)
    BY <1>17
  <2>2. /\ NetOnError(TRUE) /\ writes' \subseteq writes /\ b \in writes
        /\ UNCHANGED <<dns, sock, conn, asked>>
    BY <2>1 DEF OnWriteError
  <2>3. sock \notin {"none", "open"}
    BY <1>0, <2>2 DEF NothingIsOut
  <2> QED
    BY <1>d, <1>e, <2>2, <2>3, ClosedError
<1>18. CASE OnShutdown
  <2>1. /\ sock' = "closing" /\ shutReq' = "none" /\ shutting
        /\ UNCHANGED <<dns, conn, shutting, poolState, callMap, writes, asked>>
    BY <1>0, <1>18 DEF OnShutdown, CloseSocket, ShutdownIsMarked, poolVars
  <2>2. dns = "none" /\ conn = "none"
    BY <1>0, <2>1 DEF AttemptIsClean
  <2> QED
    BY <1>0, <2>1, <2>2 DEF AttemptIsClean, GivenUpIsClosing, Closing, NothingIsOut
<1>19. CASE OnClose
  <2>1. /\ sock = "closing" /\ writes = {} /\ shutReq = "none"
    BY <1>0, <1>19 DEF OnClose, SocketClosed, ShutdownIsMarked
  <2>2. /\ sock' = "none" /\ asked' = {} /\ poolState' = "idle" /\ ~shutting'
        /\ UNCHANGED <<dns, conn, shutReq, writes>>
    BY <1>19 DEF OnClose, SocketClosed
  <2> QED
    BY <1>e, <2>1, <2>2 DEF AttemptIsClean, GivenUpIsClosing, NothingIsOut
<1> QED
  BY <1>1, <1>2, <1>3, <1>4, <1>5, <1>6, <1>7, <1>8, <1>9, <1>10, <1>11, <1>12, <1>13,
     <1>14, 
     <1>15, <1>16, <1>17, <1>18, <1>19, <1>d
     DEF Next, Heartbeat, Clock, DnsAnswers, ConnectAnswers, Message, WriteAnswers
------------------------------------------------------------------------------
(* Sends: no request is met before it is zeroed, and a buffer is there.      *)

\* Giving up and refusing make no assertion fail.
LEMMA QuietStops ==
  ASSUME Running, TypeOK, ShutdownIsMarked, NEW accepted \in BOOLEAN,
         NetOnError(accepted) \/ Shutdown(accepted)
  PROVE  Running'
BY ShutdownEffect DEF NetOnError, Running

\* A call made with a buffer to spare and no close under way.
LEMMA SafeCall ==
  ASSUME SendInv, NEW type \in CallTypes, NEW miner \in PoolMiners \cup {NoMiner},
         MakeCall(type, miner), ~Closing, \E b \in Buffers : ~active[b]
  PROVE  Running' /\ SendsAgree'
<1>1. TypeOK /\ SendsAgree
  BY ClosedParts DEF SendInv
<1>2. PICK id \in CallIds : WriteRequest([id |-> id, type |-> type, miner |-> miner])
  BY DEF MakeCall
<1>3. PICK b \in Buffers :
        /\ FirstFree(b)
        /\ active' = [active EXCEPT ![b] = TRUE]
        /\ sendData' = [sendData EXCEPT ![b] = TRUE]
        /\ failed' = Assert("r_send", ~sendData[b])
        /\ \E accepted \in WriteOutcomes :
             IF accepted THEN writes' = writes \cup {b} ELSE UNCHANGED writes
  BY <1>2 DEF WriteRequest
<1>4. writes' = writes \cup {b}
  BY <1>3 DEF WriteOutcomes
<1>5. ~active[b] /\ ~sendData[b]
  BY <1>1, <1>3 DEF FirstFree, SendsAgree
<1> QED
  BY <1>1, <1>3, <1>4, <1>5 DEF Running, Assert, SendsAgree, TypeOK

LEMMA SendNext ==
  ASSUME Faults \cap Aborting = {}, SendInv, [Next]_vars
  PROVE  SendInv'
<1> USE NetAssumption, PoolAssumption DEF Aborting, LeavesOpen
<1>0. /\ Running /\ TypeOK /\ AttemptHasSocket /\ LiveHasSocket /\ ShutdownIsMarked
      /\ AttemptIsAsked /\ AttemptIsClean /\ GivenUpIsClosing /\ NothingIsOut /\ SendsAgree
  BY ClosedParts DEF SendInv
<1>a. ClosedInv'
  BY ClosedNext DEF SendInv
<1>b. SUFFICES Running' /\ SendsAgree'
  BY <1>a DEF SendInv
<1>c. ASSUME UNCHANGED <<active, sendData, writes>> PROVE SendsAgree'
  BY <1>0, <1>c DEF SendsAgree
<1>1. CASE Heartbeat
  <2>1. CASE HeartbeatTimeout
    BY <1>0, <1>c, <2>1, QuietStops DEF HeartbeatTimeout
  <2>2. CASE HeartbeatConnect
    <3>1. sock = "none" /\ dns = "none"
      BY <1>0, <2>2 DEF HeartbeatConnect, AttemptIsClean, GivenUpIsClosing
    <3> QED
      BY <1>c, <2>2, <3>1 DEF HeartbeatConnect, StartConnect, Assert, Running
  <2> QED
    BY <1>1, <2>1, <2>2 DEF Heartbeat
<1>2. CASE Clock
  BY <1>0, <1>2, <1>c DEF Clock, AttemptAges, CallAges, netVars, Running
<1>3. CASE DnsAnswers
  <2>1. OnDnsResolved
    BY <1>3 DEF DnsAnswers, OnDnsError
  <2>2. sock = "none" /\ conn = "none"
    BY <1>0, <2>1 DEF OnDnsResolved, AttemptIsClean
  <2> QED
    BY <1>c, <2>1, <2>2 DEF OnDnsResolved, OpenSocket, Assert, Running
<1>4. CASE OnConnect
  <2>1. /\ sock = "open" /\ ~shutting /\ ~Closing /\ writes = {}
    BY <1>0, <1>4
       DEF OnConnect, AttemptIsClean, ShutdownIsMarked, NothingIsOut, Closing
  <2>2. 1 \in Buffers /\ ~active[1]
    BY <1>0, <2>1 DEF Buffers, SendsAgree
  <2>3. MakeCall("login", NoMiner) /\ "login" \in CallTypes
    BY <1>4 DEF OnConnect, CallTypes
  <2> QED
    BY <2>1, <2>2, <2>3, SafeCall
<1>5. CASE OnConnectError
  BY <1>0, <1>5, <1>c, QuietStops DEF OnConnectError
<1>6. CASE Message
  <2>1. UNCHANGED <<active, sendData, writes>>
    BY <1>6
       DEF Message, OnJob, OnBadMessage, OnGarbage, OnEof, OnReadError, OnReply, netVars
  <2>2. \/ UNCHANGED failed
        \/ \E accepted \in BOOLEAN : NetOnError(accepted) \/ Shutdown(accepted)
    <3>1. ASSUME NEW r \in asked, NEW ok \in BOOLEAN, OnReply(r, ok)
          PROVE  UNCHANGED failed \/ Shutdown(TRUE)
      BY <3>1 DEF OnReply, RefuseMessage
    <3> QED
      BY <1>6, <3>1 DEF Message, OnJob, OnBadMessage, OnGarbage, OnEof, OnReadError,
                        RefuseMessage
  <2> QED
    BY <1>0, <1>c, <2>1, <2>2, QuietStops DEF Running
<1>7. CASE \E m \in PoolMiners : OnFoundResult(m)
  <2>1. PICK m \in PoolMiners : OnFoundResult(m)
    BY <1>7
  <2>2. /\ ~Closing /\ MakeCall("result", m) /\ "result" \in CallTypes
        /\ \E b \in Buffers : ~active[b]
    BY <2>1 DEF OnFoundResult, CallTypes
  <2> QED
    BY <2>2, SafeCall
<1>8. CASE \E b \in Buffers : WriteAnswers(b)
  <2>1. PICK b \in Buffers : OnWriteComplete(b)
    BY <1>8 DEF WriteAnswers, OnWriteError
  <2>2. Running'
    BY <1>0, <2>1 DEF OnWriteComplete, WriteComplete, SendsAgree, Assert, Running
  <2>3. SendsAgree'
    BY <1>0, <2>1 DEF OnWriteComplete, WriteComplete, SendsAgree, TypeOK
  <2> QED
    BY <2>2, <2>3
<1>9. CASE OnShutdown
  BY <1>0, <1>9, <1>c DEF OnShutdown, CloseSocket, Running
<1>10. CASE OnClose
  <2>1. writes = {}
    BY <1>0, <1>10 DEF OnClose, SocketClosed, ShutdownIsMarked
  <2> QED
    BY <1>0, <1>10, <2>1 DEF OnClose, SocketClosed, SendsAgree, Running
<1>11. CASE UNCHANGED vars
  BY <1>0, <1>11, <1>c DEF vars, Running
<1> QED
  BY <1>1, <1>2, <1>3, <1>4, <1>5, <1>6, <1>7, <1>8, <1>9, <1>10, <1>11
     DEF Next, ConnectAnswers

\* Without the six faults of Aborting the program never aborts on an assertion of
\* net_interface.cpp and never lacks a buffer, however messages, answers, timeouts and
\* refused attempts follow one another.
THEOREM GuardedNeverAborts == Spec => []NoAssertFails
<1>1. CASE Faults \cap Aborting = {}
  <2>1. Init => SendInv
    BY ClosedInit DEF Init, NetInit, SendInv, SendsAgree, Running
  <2>2. SendInv /\ [Next]_vars => SendInv'
    BY <1>1, SendNext
  <2>3. SendInv => NoAssertFails
    BY DEF SendInv, NoAssertFails
  <2> QED
    BY <2>1, <2>2, <2>3, PTL DEF Spec
<1>2. CASE ~(Faults \cap Aborting = {})
  <2>1. NoAssertFails
    BY <1>2 DEF NoAssertFails
  <2>2. Spec => []NoAssertFails
    BY <2>1, PTL
  <2> QED
    BY <2>2
<1> QED
  BY <1>1, <1>2
------------------------------------------------------------------------------
(* Calls: an answer finds the slot of its request.                           *)

\* A call made with a slot to spare, written or not.
LEMMA CallIsDistinct ==
  ASSUME TypeOK, CallsAreDistinct, NEW type \in CallTypes, NEW miner \in PoolMiners \cup {NoMiner},
         MakeCall(type, miner), gCallId <= MaxCalls, \E s \in Slots : ~InUse(s)
  PROVE  CallsAreDistinct'
<1>1. PICK id \in CallIds :
         LET r == [id |-> id, type |-> type, miner |-> miner]
         IN  RegisterCall(r) /\ WriteRequest(r)
  BY DEF MakeCall
<1> DEFINE r == [id |-> id, type |-> type, miner |-> miner]
<1>2. r \in Requests /\ r.id = id
  BY DEF Requests
<1>3. RegisterCall(r) /\ WriteRequest(r)
  BY <1>1
<1> HIDE DEF r
<1>4. PICK s \in Slots :
        /\ FirstUnused(s)
        /\ r.id = gCallId
        /\ callMap' = [callMap EXCEPT ![s] = [request |-> r, old |-> FALSE]]
        /\ gCallId' = gCallId + 1
  BY <1>3 DEF RegisterCall
<1>5. asked' \subseteq asked \cup {r}
  BY <1>3 DEF WriteRequest
<1> DEFINE c == [request |-> r, old |-> FALSE]
<1>6. c \in Calls /\ c.request = r
  BY <1>2 DEF Calls
<1>7. c # Unused
  BY <1>6, CallIsNotUnused
<1> HIDE DEF c
<1>8. /\ callMap' = [callMap EXCEPT ![s] = c] /\ callMap[s] = Unused
      /\ \A t \in Slots : InUse(t) => callMap[t] \in Calls
  BY <1>4 DEF c, FirstUnused, InUse, TypeOK
<1>9. \A t \in Slots : /\ (InUse(t))' <=> (t = s \/ InUse(t))
                       /\ callMap'[t] = IF t = s THEN c ELSE callMap[t]
  BY <1>7, <1>8 DEF InUse, TypeOK
<1>10. \A t \in Slots : InUse(t) => callMap[t].request.id \in CallIds
  BY <1>8 DEF Calls, Requests
<1>11. gCallId \in Nat /\ \A i \in CallIds : i \in Nat
  BY DEF TypeOK, CallIds
<1>12. \A t \in Slots : (InUse(t))' => callMap'[t].request.id < gCallId'
  BY <1>2, <1>4, <1>6, <1>9, <1>10, <1>11 DEF CallsAreDistinct
<1>13. \A t, u \in Slots :
         (InUse(t))' /\ (InUse(u))' /\ callMap'[t].request.id = callMap'[u].request.id => t = u
  BY <1>4, <1>6, <1>9, <1>10, <1>11 DEF CallsAreDistinct
<1>14. \A q \in asked' : \E t \in Slots : (InUse(t))' /\ callMap'[t].request = q
  <2> SUFFICES ASSUME NEW q \in asked'
               PROVE  \E t \in Slots : (InUse(t))' /\ callMap'[t].request = q
    OBVIOUS
  <2>1. CASE q = r
    BY <1>6, <1>9, <2>1
  <2>2. CASE q \in asked
    <3>1. PICK t \in Slots : InUse(t) /\ callMap[t].request = q
      BY <2>2 DEF CallsAreDistinct
    <3>2. t # s
      BY <1>8, <3>1 DEF InUse
    <3> QED
      BY <1>9, <3>1, <3>2
  <2> QED
    BY <1>5, <2>1, <2>2
<1> QED
  BY <1>12, <1>13, <1>14 DEF CallsAreDistinct

\* The answer to an open request frees the slot of that request and of no other.
LEMMA ReplyFreesItsCall ==
  ASSUME TypeOK, CallsAreDistinct, NEW r \in asked, NEW ok \in BOOLEAN, OnReply(r, ok)
  PROVE  CallsAreDistinct'
<1>1. PICK t \in Slots : InUse(t) /\ callMap[t].request = r
  BY DEF CallsAreDistinct
<1>2. PICK s \in Slots : FirstMatch(s, r.id) /\ callMap' = [callMap EXCEPT ![s] = Unused]
  <2>1. MatchesId(t, r.id)
    BY <1>1 DEF MatchesId
  <2> QED
    BY <2>1 DEF OnReply
<1>3. s = t
  BY <1>1, <1>2 DEF FirstMatch, MatchesId, CallsAreDistinct
<1>4. asked' = asked \ {r} /\ UNCHANGED gCallId
  BY DEF OnReply
<1>5. \A u \in Slots : /\ (InUse(u))' <=> (u # t /\ InUse(u))
                       /\ u # t => callMap'[u] = callMap[u]
  BY <1>2, <1>3 DEF InUse, TypeOK
<1>6. \A q \in asked' : \E u \in Slots : (InUse(u))' /\ callMap'[u].request = q
  <2>1. ASSUME NEW q \in asked'
        PROVE  \E u \in Slots : (InUse(u))' /\ callMap'[u].request = q
    <3>1. q \in asked /\ q # r
      BY <1>4, <2>1
    <3>2. PICK u \in Slots : InUse(u) /\ callMap[u].request = q
      BY <3>1 DEF CallsAreDistinct
    <3>3. u # t
      BY <1>1, <3>1, <3>2
    <3> QED
      BY <1>5, <3>2, <3>3
  <2> QED
    BY <2>1
<1> QED
  BY <1>4, <1>5, <1>6 DEF CallsAreDistinct

LEMMA CallNext ==
  ASSUME Faults \cap Misleading = {}, CallInv, [Next]_vars
  PROVE  CallInv'
<1> USE PoolAssumption DEF Misleading, LeavesOpen
<1>a. ClosedInv'
  BY ClosedNext DEF CallInv
<1>b. CASE UNCHANGED vars
  BY <1>a, <1>b DEF CallInv, vars, Running, CallsAreDistinct, InUse
<1>c. SUFFICES ASSUME Next, Running PROVE CallsAreDistinct'
  BY <1>a, <1>b DEF CallInv, Next, Running
<1>0. /\ TypeOK /\ IdsAreReset /\ AttemptIsClean /\ GivenUpIsClosing /\ NothingIsOut
      /\ CallsAreDistinct
  BY <1>c, ClosedParts DEF CallInv
<1>d. ASSUME UNCHANGED <<callMap, gCallId>>, asked' \subseteq asked PROVE CallsAreDistinct'
  BY <1>0, <1>d DEF CallsAreDistinct, InUse
<1>1. CASE HeartbeatTimeout
  BY <1>1, <1>d DEF HeartbeatTimeout
<1>2. CASE HeartbeatConnect
  <2>1. asked = {}
    BY <1>0, <1>2 DEF HeartbeatConnect, GivenUpIsClosing, NothingIsOut
  <2>2. (\A s \in Slots : callMap'[s] = Unused) /\ asked' = {}
    BY <1>2, <2>1 DEF HeartbeatConnect
  <2> QED
    BY <2>2 DEF CallsAreDistinct, InUse
<1>3. CASE AttemptAges
  BY <1>3, <1>d DEF AttemptAges, netVars
<1>4. CASE \E s \in Slots : CallAges(s)
  <2>1. PICK s \in Slots : CallAges(s)
    BY <1>4
  <2>2. /\ callMap[s] \in Calls
        /\ callMap' = [callMap EXCEPT ![s] = [callMap[s] EXCEPT !.old = TRUE]]
        /\ InUse(s) /\ UNCHANGED <<asked, gCallId>>
    BY <1>0, <2>1 DEF CallAges, InUse, TypeOK, netVars
  <2>3. callMap'[s] \in Calls /\ callMap'[s].request = callMap[s].request
    BY <1>0, <2>2 DEF TypeOK, Calls
  <2>4. \A t \in Slots : /\ (InUse(t))' <=> InUse(t)
                         /\ InUse(t) => callMap'[t].request = callMap[t].request
    BY <1>0, <2>2, <2>3, CallIsNotUnused DEF InUse, TypeOK
  <2> QED
    BY <1>0, <2>2, <2>4 DEF CallsAreDistinct
<1>5. CASE OnDnsResolved
  BY <1>5, <1>d DEF OnDnsResolved, poolVars
<1>6. CASE OnDnsError
  BY <1>6 DEF OnDnsError
<1>7. CASE OnConnect
  <2>1. /\ gCallId <= MaxCalls /\ 1 \in Slots /\ ~InUse(1)
        /\ MakeCall("login", NoMiner) /\ "login" \in CallTypes
    BY <1>0, <1>7 DEF OnConnect, IdsAreReset, AttemptIsClean, InUse, Slots, CallTypes
  <2> QED
    BY <1>0, <2>1, CallIsDistinct
<1>8. CASE OnConnectError
  BY <1>8, <1>d DEF OnConnectError
<1>9. CASE OnJob
  BY <1>9, <1>d DEF OnJob, netVars
<1>10. CASE OnBadMessage
  BY <1>10, <1>d DEF OnBadMessage
<1>11. CASE OnGarbage
  BY <1>11, <1>d DEF OnGarbage
<1>12. CASE OnEof
  BY <1>12, <1>d DEF OnEof
<1>13. CASE OnReadError
  BY <1>13, <1>d DEF OnReadError
<1>14. CASE \E r \in asked, ok \in BOOLEAN : OnReply(r, ok)
  BY <1>0, <1>14, ReplyFreesItsCall
<1>15. CASE \E m \in PoolMiners : OnFoundResult(m)
  <2>1. PICK m \in PoolMiners : OnFoundResult(m)
    BY <1>15
  <2>2. /\ gCallId <= MaxCalls /\ MakeCall("result", m) /\ "result" \in CallTypes
        /\ \E s \in Slots : ~InUse(s)
    BY <1>0, <2>1 DEF OnFoundResult, CallTypes, TypeOK, CallIds
  <2> QED
    BY <1>0, <2>2, CallIsDistinct
<1>16. CASE \E b \in Buffers : OnWriteComplete(b)
  BY <1>16, <1>d DEF OnWriteComplete, poolVars
<1>17. CASE \E b \in Buffers : OnWriteError(b)
  BY <1>17, <1>d DEF OnWriteError
<1>18. CASE OnShutdown
  BY <1>18, <1>d DEF OnShutdown, poolVars
<1>19. CASE OnClose
  BY <1>19, <1>d DEF OnClose, SocketClosed
<1> QED
  BY <1>1, <1>2, <1>3, <1>4, <1>5, <1>6, <1>7, <1>8, <1>9, <1>10, <1>11, <1>12, <1>13,
     <1>14, 
     <1>15, <1>16, <1>17, <1>18, <1>19, <1>c
     DEF Next, Heartbeat, Clock, DnsAnswers, ConnectAnswers, Message, WriteAnswers

\* Without the four faults of Misleading the answer to an open request is taken for the
\* answer to the call it answers, also when writes fail, results come too late or too
\* fast, and the resolver or libuv refuses an attempt.
THEOREM RepliesMatch == Spec => []RepliesFindTheirCall
<1>1. CASE Faults \cap Misleading = {}
  <2>1. Init => CallInv
    BY ClosedInit DEF Init, NetInit, CallInv, CallsAreDistinct, InUse
  <2>2. CallInv /\ [Next]_vars => CallInv'
    BY <1>1, CallNext
  <2>3. CallInv => RepliesFindTheirCall
    BY DEF CallInv, CallsAreDistinct, RepliesFindTheirCall, MatchesId
  <2> QED
    BY <2>1, <2>2, <2>3, PTL DEF Spec
<1>2. CASE ~(Faults \cap Misleading = {})
  <2>1. RepliesFindTheirCall
    BY <1>2 DEF RepliesFindTheirCall
  <2>2. Spec => []RepliesFindTheirCall
    BY <2>1, PTL
  <2> QED
    BY <2>2
<1> QED
  BY <1>1, <1>2
------------------------------------------------------------------------------
(* The connection provides the session Shares is built on, whatever happens. *)

SessionVars == AsSession!vars

\* What the three ways to give a connection up are to the session.
LEMMA ErrorIsFail ==
  ASSUME Running, NEW accepted, NetOnError(accepted), UNCHANGED work
  PROVE  failed' = {} => [AsSession!Next]_SessionVars
<1>1. shutting' /\ poolState' = "idle"
  BY DEF NetOnError, Shutdown
<1> QED
  BY <1>1 DEF AsSession!Next, AsSession!Fail

LEMMA RefuseIsShut ==
  ASSUME Running, sock = "reading", RefuseMessage
  PROVE  failed' = {} => [AsSession!Next]_SessionVars
<1>1. shutting' /\ UNCHANGED <<poolState, work>>
  BY DEF RefuseMessage, Shutdown
<1> QED
  BY <1>1 DEF AsSession!Next, AsSession!Shut, SessionVars, AsSession!vars

LEMMA AcceptIsJob ==
  ASSUME sock = "reading", AcceptJob, work \in BOOLEAN, UNCHANGED <<sock, shutting>>
  PROVE  [AsSession!Next]_SessionVars
BY DEF AcceptJob, AsSession!Next, AsSession!Job

LEMMA SessionNext ==
  ASSUME FaultyInv, [Next]_vars
  PROVE  failed' = {} => [AsSession!Next]_SessionVars
<1> SUFFICES ASSUME failed' = {} PROVE [AsSession!Next]_SessionVars
  OBVIOUS
<1> USE DEF SessionVars, AsSession!vars
<1>0. CASE UNCHANGED vars
  BY <1>0 DEF vars
<1>1. SUFFICES ASSUME Running, Next PROVE [AsSession!Next]_SessionVars
  BY <1>0 DEF Next, Running
<1>2. TypeOK /\ RunningInv
  BY <1>1 DEF FaultyInv
<1>3. work \in BOOLEAN /\ shutting \in BOOLEAN
  BY <1>2 DEF TypeOK
<1>4. CASE HeartbeatTimeout
  BY <1>1, <1>4, ErrorIsFail DEF HeartbeatTimeout
<1>5. CASE HeartbeatConnect
  BY <1>5 DEF HeartbeatConnect
<1>6. CASE AttemptAges \/ \E s \in Slots : CallAges(s)
  BY <1>6 DEF AttemptAges, CallAges, netVars
<1>7. CASE OnDnsResolved
  <2>1. sock = "none" /\ sock' = "open"
    BY <1>7 DEF OnDnsResolved, OpenSocket, Assert
  <2> QED
    BY <1>7, <2>1 DEF OnDnsResolved, poolVars
<1>8. CASE OnDnsError
  BY <1>1, <1>8, ErrorIsFail DEF OnDnsError
<1>9. CASE OnConnect
  <2>1. sock = "open" /\ poolState \notin {"connected", "has_job"}
    BY <1>2, <1>9 DEF OnConnect, RunningInv, AttemptHasSocket, LiveHasSocket
  <2>2. sock' = "reading" /\ poolState' = "connected" /\ UNCHANGED <<shutting, work>>
    BY <1>9 DEF OnConnect
  <2>3. CASE shutting
    BY <2>1, <2>2, <2>3
  <2>4. CASE ~shutting
    BY <2>1, <2>2, <2>4 DEF AsSession!Next, AsSession!Connect
  <2> QED
    BY <2>3, <2>4
<1>10. CASE OnConnectError
  BY <1>1, <1>10, ErrorIsFail DEF OnConnectError
<1>11. CASE OnJob
  BY <1>3, <1>11, AcceptIsJob DEF OnJob, netVars
<1>12. CASE OnBadMessage
  BY <1>1, <1>12, RefuseIsShut DEF OnBadMessage
<1>13. CASE OnGarbage
  BY <1>1, <1>13, ErrorIsFail DEF OnGarbage
<1>14. CASE OnEof
  <2>1. shutting' /\ UNCHANGED work
    BY <1>14 DEF OnEof, Shutdown
  <2>2. CASE shutting
    BY <1>14, <2>1, <2>2 DEF OnEof, AsSession!Next, AsSession!Fail
  <2>3. CASE ~shutting
    BY <1>14, <2>1, <2>3 DEF OnEof, AsSession!Next, AsSession!Shut
  <2> QED
    BY <2>2, <2>3
<1>15. CASE OnReadError
  BY <1>1, <1>15, ErrorIsFail DEF OnReadError
<1>16. ASSUME NEW r \in asked, NEW ok \in BOOLEAN, OnReply(r, ok)
       PROVE  [AsSession!Next]_SessionVars
  <2>1. sock = "reading" /\ UNCHANGED sock
    BY <1>16 DEF OnReply
  <2>2. CASE RefuseMessage
    BY <1>1, <2>1, <2>2, RefuseIsShut
  <2>3. CASE AcceptJob /\ UNCHANGED shutting
    BY <1>3, <2>1, <2>3, AcceptIsJob
  <2>4. CASE UNCHANGED <<shutting, poolState, work>>
    BY <2>1, <2>4
  <2> QED
    BY <1>16, <2>2, <2>3, <2>4 DEF OnReply
<1>17. CASE \E m \in PoolMiners : OnFoundResult(m)
  BY <1>17 DEF OnFoundResult
<1>18. ASSUME NEW b \in Buffers, OnWriteComplete(b)
       PROVE  [AsSession!Next]_SessionVars
  BY <1>18 DEF OnWriteComplete, poolVars
<1>19. ASSUME NEW b \in Buffers, OnWriteError(b)
       PROVE  [AsSession!Next]_SessionVars
  BY <1>1, <1>19, ErrorIsFail DEF OnWriteError
<1>20. CASE OnShutdown
  <2>1. shutting
    BY <1>2, <1>20 DEF OnShutdown, CloseSocket, RunningInv, ShutdownIsMarked
  <2> QED
    BY <1>20, <2>1 DEF OnShutdown, poolVars
<1>21. CASE OnClose
  <2>1. shutting
    BY <1>2, <1>21 DEF OnClose, SocketClosed, RunningInv, ShutdownIsMarked
  <2> QED
    BY <1>21, <2>1 DEF OnClose, SocketClosed, AsSession!Next, AsSession!Close
<1> QED
  BY <1>1, <1>4, <1>5, <1>6, <1>7, <1>8, <1>9, <1>10, <1>11, <1>12, <1>13, <1>14, <1>15,
     <1>16, <1>17, <1>18, <1>19, <1>20, <1>21
  DEF Next, Heartbeat, Clock, DnsAnswers, ConnectAnswers, Message, WriteAnswers

\* Up to the first failed assertion every connection is a session, with every fault of
\* AllFaults: the one that Shares keeps to as well (SharesProofs!SharesUsesSession).
THEOREM ConnectionIsSession == Spec => IsSession
<1>1. Init => AsSession!Init
  BY DEF Init, NetInit, AsSession!Init
<1>2. FaultyInv /\ [Next]_vars => [failed' = {} => [AsSession!Next]_SessionVars]_vars
  BY SessionNext
<1>3. Spec => []FaultyInv
  BY FaultyInvariant
<1> QED
  BY <1>1, <1>2, <1>3, PTL DEF Spec, IsSession, SessionVars
==============================================================================
