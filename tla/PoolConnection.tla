--------------------------- MODULE PoolConnection ---------------------------
(* A pool (pool.hpp, pool.cpp) over its net_interface, with the executor's  *)
(* heartbeat that reconnects it and the mining work it feeds.  Every action *)
(* is one callback on the loop thread, with all the calls it makes.  What   *)
(* is read is one message at a time; what a job says beyond being valid is  *)
(* in Mining.                                                               *)
EXTENDS NetInterface

CONSTANTS
  NSlots,      \* std::size(call_map), 8 in the source
  MaxCalls,    \* bound on g_call_id: the calls made on one connection
  PoolMiners,  \* the values of miner_result::miner_id
  NoMiner      \* invalid_miner_id

ASSUME PoolAssumption ==
  /\ NSlots \in Nat \ {0} /\ MaxCalls \in Nat \ {0}
  /\ NoMiner \notin PoolMiners

VARIABLES
  poolState,  \* pool::state
  attempt,    \* is last_connect_attempt more than ten seconds ago?
  callMap,    \* pool::call_map, where a slot of type invalid is Unused
  gCallId,    \* g_call_id
  work        \* current_job is not the idle job

poolVars == <<poolState, attempt, callMap, gCallId>>
vars == <<dns, sock, conn, shutting, shutReq, active, sendData, writes, asked,
          failed, poolState, attempt, callMap, gCallId, work>>

Slots     == 1..NSlots
CallIds   == 0..(MaxCalls + 1)
CallTypes == {"login", "result"}
Requests  == [id : CallIds, type : CallTypes, miner : PoolMiners \cup {NoMiner}]
Calls     == [request : Requests, old : BOOLEAN]
Unused    == [type |-> "invalid"]

InUse(s)        == callMap[s] # Unused
FirstUnused(s)  == ~InUse(s) /\ \A t \in 1..(s - 1) : InUse(t)
MatchesId(s, i) == InUse(s) /\ callMap[s].request.id = i
FirstMatch(s, i) == MatchesId(s, i) /\ \A t \in 1..(s - 1) : ~MatchesId(t, i)
------------------------------------------------------------------------------
(* The pool's side of the calls. *)

\* Mutant of RegisterCall: g_call_id is not advanced.
RegisterSameId(r) ==
  \/ \E s \in Slots :
       /\ FirstUnused(s)
       /\ r.id = gCallId
       /\ callMap' = [callMap EXCEPT ![s] = [request |-> r, old |-> FALSE]]
       /\ UNCHANGED gCallId
  \/ /\ \A s \in Slots : InUse(s)
     /\ UNCHANGED <<callMap, gCallId>>

\* register_call for request r.  Its result is not looked at: when no slot is
\* left, the call_id its caller goes on with was never written.
RegisterCall(r) ==
  \/ \E s \in Slots :
       /\ FirstUnused(s)
       /\ r.id = gCallId
       /\ callMap' = [callMap EXCEPT ![s] = [request |-> r, old |-> FALSE]]
       /\ gCallId' = gCallId + 1
  \/ /\ \A s \in Slots : InUse(s)
     /\ UNCHANGED <<callMap, gCallId>>

\* Register and write one request: do_login_call, and do_send_result's tail.
MakeCall(type, miner) ==
  \E id \in CallIds :
    LET r == [id |-> id, type |-> type, miner |-> miner]
    IN  RegisterCall(r) /\ WriteRequest(r)

\* net_on_error: what is left of the connection is closed later.
NetOnError(accepted) ==
  /\ Shutdown(accepted)
  /\ poolState' = "idle"
------------------------------------------------------------------------------
(* The heartbeat and the clock. *)

\* Mutant of HeartbeatTimeout: calls are timed out once there is a job.
TimeoutWithJob ==
  /\ poolState = "has_job"
  /\ \E s \in Slots : InUse(s) /\ callMap[s].old
  /\ NetOnError(TRUE)
  /\ UNCHANGED <<dns, sock, conn, active, sendData, writes, asked, attempt, callMap,
                 gCallId, work>>

\* on_heartbeat finds a call of a connected pool timed out.
HeartbeatTimeout ==
  /\ poolState = "connected"
  /\ \E s \in Slots : InUse(s) /\ callMap[s].old
  /\ NetOnError(TRUE)
  /\ UNCHANGED <<dns, sock, conn, active, sendData, writes, asked, attempt, callMap,
                 gCallId, work>>

\* Mutant of HeartbeatConnect: flush_call_map leaves g_call_id alone.
ConnectKeepingIds ==
  /\ poolState = "idle"
  /\ attempt = "old"
  /\ Closing => "slow_close" \in Faults
  /\ poolState' = "connecting"
  /\ callMap' = [s \in Slots |-> Unused]
  /\ attempt' = "recent"
  /\ StartConnect
  /\ UNCHANGED <<gCallId, sock, conn, shutting, shutReq, active, sendData, writes, asked,
                 work>>

\* on_heartbeat finds an idle pool due for a connection: do_connect, with flush_call_map.
HeartbeatConnect ==
  /\ poolState = "idle"
  /\ attempt = "old"
  /\ Closing => "slow_close" \in Faults
  /\ poolState' = "connecting"
  /\ callMap' = [s \in Slots |-> Unused]
  /\ gCallId' = 0
  /\ attempt' = "recent"
  /\ StartConnect
  /\ UNCHANGED <<sock, conn, shutting, shutReq, active, sendData, writes, asked, work>>

\* Ten seconds pass since the last connection attempt.
AttemptAges ==
  /\ attempt = "recent"
  /\ dns = "pending" => "slow_dns" \in Faults
  /\ attempt' = "old"
  /\ UNCHANGED <<netVars, failed, poolState, callMap, gCallId, work>>

\* Ten seconds pass since a call, which was made after that attempt.
CallAges(s) ==
  /\ attempt = "old"
  /\ InUse(s) /\ ~callMap[s].old
  /\ callMap' = [callMap EXCEPT ![s].old = TRUE]
  /\ UNCHANGED <<netVars, failed, poolState, attempt, gCallId, work>>
------------------------------------------------------------------------------
(* The callbacks of a connection attempt. *)

OnDnsResolved ==
  /\ dns = "pending"
  /\ OpenSocket
  /\ UNCHANGED <<shutting, shutReq, active, sendData, writes, asked, poolVars, work>>

\* Mutant of OnDnsError: the error is not reported to the pool.
DnsErrorUnreported ==
  /\ dns = "pending"
  /\ "dns_error" \in Faults
  /\ dns' = "none"
  /\ UNCHANGED <<sock, conn, shutting, shutReq, active, sendData, writes, asked, failed,
                 poolVars, work>>

\* No address: the pool shuts down a handle that is not initialised, unless an
\* earlier one is still there.
OnDnsError ==
  /\ dns = "pending"
  /\ "dns_error" \in Faults
  /\ dns' = "none"
  /\ NetOnError(sock \in {"open", "reading", "deaf"})
  /\ UNCHANGED <<sock, conn, active, sendData, writes, asked, attempt, callMap, gCallId,
                 work>>

\* on_connect and net_on_connect: log in, then start reading.
OnConnect ==
  /\ conn = "pending"
  /\ poolState' = "connected"
  /\ MakeCall("login", NoMiner)
  /\ conn' = "none"
  /\ sock' = "reading"
  /\ UNCHANGED <<dns, shutting, shutReq, attempt, work>>

OnConnectError ==
  /\ conn = "pending"
  /\ NetOnError(TRUE)
  /\ conn' = "none"
  /\ UNCHANGED <<dns, sock, active, sendData, writes, asked, attempt, callMap, gCallId,
                 work>>
------------------------------------------------------------------------------
(* Messages.  Reading goes on while the connection shuts down. *)

\* process_pool_job for a valid job, with executor::on_pool_new_job.
AcceptJob == poolState' = "has_job" /\ work' = TRUE

\* on_socket_read_st when the message is refused; only protocol_error ran, so
\* the pool's state is kept until the socket is closed.
RefuseMessage == Shutdown(TRUE) /\ UNCHANGED <<poolState, work>>

OnJob ==
  /\ sock = "reading"
  /\ AcceptJob
  /\ UNCHANGED <<netVars, failed, attempt, callMap, gCallId>>

\* A message process_json_doc refuses, whatever the reason.
OnBadMessage ==
  /\ sock = "reading"
  /\ RefuseMessage
  /\ UNCHANGED <<dns, sock, conn, active, sendData, writes, asked, attempt, callMap,
                 gCallId>>

\* A line that is no JSON object.
OnGarbage ==
  /\ sock = "reading"
  /\ NetOnError(TRUE)
  /\ UNCHANGED <<dns, sock, conn, active, sendData, writes, asked, attempt, callMap,
                 gCallId, work>>

\* The pool answers request r; ok tells a result from an error.  find_call goes
\* by the id alone.
OnReply(r, ok) ==
  /\ sock = "reading"
  /\ r \in asked
  /\ asked' = asked \ {r}
  /\ \/ /\ \A s \in Slots : ~MatchesId(s, r.id)
        /\ RefuseMessage
        /\ UNCHANGED callMap
     \/ \E s \in Slots :
          /\ FirstMatch(s, r.id)
          /\ callMap' = [callMap EXCEPT ![s] = Unused]
          /\ CASE callMap[s].request.type = "result" ->
                    UNCHANGED <<shutting, shutReq, failed, poolState, work>>
               [] callMap[s].request.type = "login" /\ ok /\ r.type = "login" ->
                    AcceptJob /\ UNCHANGED <<shutting, shutReq, failed>>
               [] OTHER -> RefuseMessage
  /\ UNCHANGED <<dns, sock, conn, active, sendData, writes, attempt, gCallId>>

\* Mutant of OnEof: the end of the stream is not acted on.
EofIgnored ==
  /\ sock = "reading"
  /\ sock' = "deaf"
  /\ UNCHANGED <<dns, conn, shutting, shutReq, active, sendData, writes, asked, failed,
                 poolVars, work>>

\* Mutant of OnEof: the miners are idled at once, before the socket is closed.
EofIdlingMiners ==
  /\ sock = "reading"
  /\ sock' = "deaf"
  /\ Shutdown(TRUE)
  /\ poolState' = IF shutting THEN "idle" ELSE poolState
  /\ work' = FALSE
  /\ UNCHANGED <<dns, conn, active, sendData, writes, asked, attempt, callMap, gCallId>>

\* on_socket_error with UV_EOF: an orderly end, unless it comes while shutting
\* down already.
OnEof ==
  /\ sock = "reading"
  /\ sock' = "deaf"
  /\ Shutdown(TRUE)
  /\ poolState' = IF shutting THEN "idle" ELSE poolState
  /\ UNCHANGED <<dns, conn, active, sendData, writes, asked, attempt, callMap, gCallId,
                 work>>

\* on_socket_error with any other error.
OnReadError ==
  /\ sock = "reading"
  /\ sock' = "deaf"
  /\ \E accepted \in BOOLEAN :
       /\ ~accepted => "shutdown_refused" \in Faults
       /\ NetOnError(accepted)
  /\ UNCHANGED <<dns, conn, active, sendData, writes, asked, attempt, callMap, gCallId,
                 work>>
------------------------------------------------------------------------------
(* Results and writes. *)

\* executor::on_found_result and do_send_result.
OnFoundResult(m) ==
  /\ poolState = "has_job"
  /\ gCallId < MaxCalls
  /\ Closing => "late_result" \in Faults
  /\ (\A b \in Buffers : active[b]) => "burst" \in Faults
  /\ (\A s \in Slots : InUse(s)) => "unanswered" \in Faults
  /\ MakeCall("result", m)
  /\ UNCHANGED <<dns, sock, conn, shutting, shutReq, poolState, attempt, work>>

OnWriteComplete(b) ==
  /\ WriteComplete(b)
  /\ UNCHANGED <<dns, sock, conn, shutting, shutReq, asked, poolVars, work>>

\* on_socket_write_st with an error: the buffer stays as it is.
OnWriteError(b) ==
  /\ "write_error" \in Faults
  /\ b \in writes
  /\ writes' = writes \ {b}
  /\ NetOnError(TRUE)
  /\ UNCHANGED <<dns, sock, conn, active, sendData, asked, attempt, callMap, gCallId,
                 work>>
------------------------------------------------------------------------------
(* The end of a connection. *)

\* Mutant of OnShutdown: shutting_down is cleared before the socket is closed.
ShutdownForgotten ==
  /\ CloseSocket
  /\ shutting' = FALSE
  /\ UNCHANGED <<dns, conn, active, sendData, writes, asked, failed, poolVars, work>>

OnShutdown ==
  /\ CloseSocket
  /\ UNCHANGED <<dns, conn, shutting, active, sendData, writes, asked, failed, poolVars,
                 work>>

\* Mutant of OnClose: the miners are idled only if the pool still has a job.
CloseIdlingJob ==
  /\ SocketClosed
  /\ poolState' = "idle"
  /\ work' = (work /\ poolState # "has_job")
  /\ UNCHANGED <<dns, conn, shutReq, sendData, writes, failed, attempt, callMap, gCallId>>

\* on_socket_close_st with net_on_close and executor::on_pool_disconnect.
OnClose ==
  /\ SocketClosed
  /\ poolState' = "idle"
  /\ work' = FALSE
  /\ UNCHANGED <<dns, conn, shutReq, sendData, writes, failed, attempt, callMap, gCallId>>
------------------------------------------------------------------------------
\* last_connect_attempt starts at zero, so the first heartbeat connects.
Init ==
  /\ NetInit
  /\ poolState = "idle"
  /\ attempt = "old"
  /\ callMap = [s \in Slots |-> Unused]
  /\ gCallId = 0
  /\ work = FALSE

Heartbeat      == HeartbeatTimeout \/ HeartbeatConnect
Clock          == AttemptAges \/ \E s \in Slots : CallAges(s)
DnsAnswers     == OnDnsResolved \/ OnDnsError
ConnectAnswers == OnConnect \/ OnConnectError
Message        == \/ OnJob \/ OnBadMessage \/ OnGarbage \/ OnEof \/ OnReadError
                  \/ \E r \in asked, ok \in BOOLEAN : OnReply(r, ok)
WriteAnswers(b) == OnWriteComplete(b) \/ OnWriteError(b)

Next ==
  /\ failed = {}
  /\ \/ Heartbeat \/ Clock \/ DnsAnswers \/ ConnectAnswers \/ Message
     \/ \E m \in PoolMiners : OnFoundResult(m)
     \/ \E b \in Buffers : WriteAnswers(b)
     \/ OnShutdown \/ OnClose

Spec == Init /\ [][Next]_vars

\* libuv calls back for every request it took, the timer ticks and time passes.
\* Nothing is assumed of the pool or of the miners.
Fairness ==
  /\ WF_vars(failed = {} /\ Heartbeat)
  /\ WF_vars(failed = {} /\ AttemptAges)
  /\ \A s \in Slots : WF_vars(failed = {} /\ CallAges(s))
  /\ WF_vars(failed = {} /\ DnsAnswers)
  /\ WF_vars(failed = {} /\ ConnectAnswers)
  /\ \A b \in Buffers : WF_vars(failed = {} /\ WriteAnswers(b))
  /\ WF_vars(failed = {} /\ OnShutdown)
  /\ WF_vars(failed = {} /\ OnClose)

FairSpec == Spec /\ Fairness
------------------------------------------------------------------------------
\* Every variable keeps its type; only the known assertions can fail.
TypeOK ==
  /\ shutting \in BOOLEAN /\ work \in BOOLEAN
  /\ sock \in {"none", "open", "reading", "deaf", "closing"}
  /\ dns \in RequestState /\ conn \in RequestState /\ shutReq \in RequestState
  /\ active \in [Buffers -> BOOLEAN] /\ sendData \in [Buffers -> BOOLEAN]
  /\ writes \subseteq Buffers
  /\ asked \subseteq Requests
  /\ failed \subseteq {"r_resolv", "h_sock", "r_conn", "r_shutdown", "no_buffer", "r_send",
                       "write_active"}
  /\ poolState \in {"idle", "connecting", "connected", "has_job"}
  /\ attempt \in {"recent", "old"}
  /\ callMap \in [Slots -> Calls \cup {Unused}]
  /\ gCallId \in CallIds

Running == failed = {}

\* A pool that counts as connected, or miners at work for it, have a socket that is
\* being read, so that its end will be noticed, or whose close libuv has taken on: it is
\* on_socket_closed alone which idles the miners.  The one exception is a uv_shutdown
\* that was refused, whose result is not looked at: then nothing closes the socket.
LiveStateHasSocket ==
  Running /\ (poolState \in {"connected", "has_job"} \/ work)
    => sock = "reading" \/ Closing \/ shutReq = "refused"

\* A pool that is connecting, which on_heartbeat leaves alone, has a callback to come
\* from the resolver or from uv_tcp_connect.  The exceptions are the two requests whose
\* results are not looked at, when libuv refuses them.
ConnectingHasRequest ==
  Running /\ poolState = "connecting" /\ "refused" \notin {dns, conn}
    => dns = "pending" \/ conn = "pending"

\* Of a shutdown under way there is one, the one shutting_down stands for, and
\* a completed write finds its buffer in use.
OneShutdown ==
  /\ "r_shutdown" \notin failed /\ "write_active" \notin failed
  /\ Running /\ Closing => shutting
  /\ Running => \A b \in writes : active[b] /\ sendData[b]

\* The faults after which a connection may still be open, or be marked as shutting down,
\* when the next is begun.
LeavesOpen == {"dns_error", "slow_close", "shutdown_refused"}

\* The faults each of which is enough for an assertion to fail, or a buffer to be missing.
Aborting == LeavesOpen \cup {"write_error", "late_result", "burst"}

\* The faults each of which is enough for an answer to find another call than its own, or
\* none: it is the answer of an older connection, or one to a call that got no slot.
Misleading == LeavesOpen \cup {"unanswered"}

\* Without any of the six faults of Aborting no assertion of net_interface.cpp fails and
\* no missing buffer is used: not when the resolver is slow, when libuv refuses to resolve
\* or to connect, nor when the pool never answers.
NoAssertFails == Faults \cap Aborting = {} => Running

\* Without any of the four faults of Misleading the answer to a request that is still
\* open finds the slot of that very request, so that a share is credited to the miner
\* that found it: also when slots are used again, writes fail, results come during a
\* shutdown or every buffer is in use, up to the first failed assertion.
RepliesFindTheirCall ==
  Faults \cap Misleading = {} /\ Running => \A r \in asked : \A s \in Slots :
    /\ \E t \in Slots : InUse(t) /\ callMap[t].request = r
    /\ MatchesId(s, r.id) => callMap[s].request = r

\* assert(h_sock.data == nullptr), net_interface.cpp:107.
SocketIsFree == "h_sock" \notin failed

\* assert(st.r_send.data == nullptr), net_interface.cpp:249.
SendRequestIsFree == "r_send" \notin failed

\* A pool without a job does not stay in the state it is in: it connects, gets a
\* job, or is given up and connected again, however slow the resolver is.  Only a
\* uv_getaddrinfo or uv_tcp_connect that was refused, whose result is not looked at,
\* leaves it connecting for good.
NoLimbo ==
  \A st \in {"idle", "connecting", "connected"} :
    poolState = st ~> poolState # st \/ "refused" \in {dns, conn}

\* Once the connection is lost the miners are idled, unless the program aborts.
LossIdlesMiners == (work /\ sock # "reading") ~> (~work \/ ~Running)

\* The connection as the rest of the program sees it.
AsSession ==
  INSTANCE Session WITH
    link  <- IF shutting THEN "shutting" ELSE IF sock = "reading" THEN "up" ELSE "down",
    ready <- poolState = "has_job",
    busy  <- work

\* Whatever libuv, the resolver and the pool do, up to the first failed assertion: jobs
\* come over a connection only, errors stop the results, and the miners are idled when
\* the socket is closed and not before.
IsSession ==
  AsSession!Init /\ [][failed' = {} => [AsSession!Next]_(AsSession!vars)]_vars
=============================================================================
