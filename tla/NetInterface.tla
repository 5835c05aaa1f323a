---------------------------- MODULE NetInterface ----------------------------
(* net_interface (net/net_interface.hpp, net/net_interface.cpp): the libuv  *)
(* requests behind one connection to a pool, without TLS.  Each operator is *)
(* what one method does to the state of this class; PoolConnection puts the *)
(* methods, and the pool's callbacks they run into, together.               *)
(*                                                                          *)
(* libuv itself is external.  Of each request it owns the model keeps       *)
(* whether its data pointer is set, which is what the code asserts about,   *)
(* and whether a callback is still to come.                                 *)
EXTENDS Naturals

CONSTANTS
  NBufs,    \* std::size(send_bufs), 4 in the source
  Faults    \* what the environment may do to this class, out of AllFaults

AllFaults ==
  { "resolv_refused",    \* uv_getaddrinfo returns an error, so no callback
    "dns_error",         \* the resolver finds no address
    "slow_dns",          \* ... or takes longer than the reconnection delay
    "connect_sync",      \* uv_tcp_connect returns an error, so no callback
    "slow_close",        \* the heartbeat ticks before an ordered close is done
    "shutdown_refused",  \* uv_shutdown returns an error after a read error
    "write_error",       \* a write completes with an error
    "late_result",       \* a result is found while the connection closes
    "burst",             \* results are found faster than writes complete
    "unanswered" }       \* ... or faster than the pool answers

ASSUME NetAssumption == NBufs \in Nat \ {0} /\ Faults \subseteq AllFaults

VARIABLES
  dns,       \* r_resolv: zeroed, called back later, or refused by libuv
  sock,      \* h_sock: zeroed, opened, being read, at its end, or in uv_close
  conn,      \* r_conn: zeroed, called back later, or refused by libuv
  shutting,  \* shutting_down
  shutReq,   \* r_shutdown: zeroed, called back later, or refused by libuv
  active,    \* send_bufs[i].active
  sendData,  \* send_bufs[i].r_send.data is set
  writes,    \* the buffers libuv has a write in progress for
  asked,     \* the requests written to this connection and not answered
  failed     \* the assertions that have failed: the program has aborted

netVars == <<dns, sock, conn, shutting, shutReq, active, sendData, writes, asked>>

Buffers      == 1..NBufs
RequestState == {"none", "pending", "refused"}

\* assert(c), whose label is l.
Assert(l, c) == IF c THEN {} ELSE {l}

\* A close that libuv has accepted and will finish.
Closing == shutReq = "pending" \/ sock = "closing"
------------------------------------------------------------------------------
\* do_connect; what uv_getaddrinfo returns is not looked at.
StartConnect ==
  /\ dns' \in {"pending"} \cup (IF "resolv_refused" \in Faults THEN {"refused"} ELSE {})
  /\ failed' = Assert("r_resolv", dns = "none")

\* The address is known; what uv_tcp_connect returns is not looked at.
OpenSocket ==
  /\ dns' = "none"
  /\ sock' = "open"
  /\ conn' \in {"pending"} \cup (IF "connect_sync" \in Faults THEN {"refused"} ELSE {})
  /\ failed' = Assert("h_sock", sock = "none") \cup Assert("r_conn", conn = "none")

\* do_shutdown; what uv_shutdown returns is not looked at.
Shutdown(accepted) ==
  IF shutting
    THEN UNCHANGED <<shutting, shutReq, failed>>
    ELSE /\ shutting' = TRUE
         /\ shutReq' = IF accepted THEN "pending" ELSE "refused"
         /\ failed' = Assert("r_shutdown", shutReq = "none")

FirstFree(b) == ~active[b] /\ \A c \in 1..(b - 1) : active[c]

\* libuv takes no write on a handle it has closed; on one it is shutting down
\* it depends on the version.
WriteOutcomes ==
  {accepted \in BOOLEAN : /\ accepted => sock # "closing"
                          /\ ~accepted => Closing}

\* get_send_buffer and finalize_socket_write for request r, as pool.cpp calls
\* them: neither a missing buffer nor the result of uv_write is looked at.
WriteRequest(r) ==
  \/ /\ \A b \in Buffers : active[b]
     /\ failed' = {"no_buffer"}
     /\ UNCHANGED <<active, sendData, writes, asked>>
  \/ \E b \in Buffers :
       /\ FirstFree(b)
       /\ active' = [active EXCEPT ![b] = TRUE]
       /\ sendData' = [sendData EXCEPT ![b] = TRUE]
       /\ failed' = Assert("r_send", ~sendData[b])
       /\ \E accepted \in WriteOutcomes :
            IF accepted
              THEN writes' = writes \cup {b} /\ asked' = asked \cup {r}
              ELSE UNCHANGED <<writes, asked>>

\* Mutant of WriteComplete: r_send is not zeroed.
WriteCompleteKeepingData(b) ==
  /\ b \in writes
  /\ writes' = writes \ {b}
  /\ active' = [active EXCEPT ![b] = FALSE]
  /\ failed' = Assert("write_active", active[b])
  /\ UNCHANGED sendData

\* on_socket_write_st with status 0, and on_socket_write_complete.
WriteComplete(b) ==
  /\ b \in writes
  /\ writes' = writes \ {b}
  /\ active' = [active EXCEPT ![b] = FALSE]
  /\ sendData' = [sendData EXCEPT ![b] = FALSE]
  /\ failed' = Assert("write_active", active[b])

\* on_shutdown_st: libuv calls it once it is done connecting and writing.
CloseSocket ==
  /\ shutReq = "pending"
  /\ conn # "pending" /\ writes = {}
  /\ shutReq' = "none"
  /\ sock' = "closing"

\* on_socket_closed up to notify_close; r_send keeps its data.
SocketClosed ==
  /\ sock = "closing"
  /\ sock' = "none"
  /\ active' = [b \in Buffers |-> FALSE]
  /\ shutting' = FALSE
  /\ asked' = {}

NetInit ==
  /\ dns = "none" /\ sock = "none" /\ conn = "none"
  /\ shutting = FALSE /\ shutReq = "none"
  /\ active = [b \in Buffers |-> FALSE]
  /\ sendData = [b \in Buffers |-> FALSE]
  /\ writes = {} /\ asked = {} /\ failed = {}
=============================================================================
