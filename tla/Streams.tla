------------------------------ MODULE Streams ------------------------------
(* What goes over one connection to a pool, plain (net_interface) or over    *)
(* TLS (tls_interface): reading and splitting what the pool sends, the TLS   *)
(* handshake, records and close_notify, sending, shutting down and closing.  *)
(* The connection comes up when it is asked for and fails for any reason at  *)
(* any time; what can go wrong in between is in PoolConnection, and so is    *)
(* what a refused write leaves behind after the connection.                  *)
EXTENDS LineBuffer

CONSTANTS
  NBufs,      \* std::size(send_bufs)
  Cap,        \* sizeof(recv_buf) and sizeof(pt_buf), both 4096
  BioCap,     \* what the SSL object takes before its records are read
  Sizes,      \* the sizes of messages, each of which the SSL object has room for
  HelloSize,  \* the size of the server's part of the handshake
  MaxMsgs     \* bound on the messages of the pool

ASSUME StreamsAssumption ==
  /\ Junk \notin Nat
  /\ NBufs \in Nat /\ NBufs >= 4
  /\ Cap \in Nat \ {0} /\ BioCap \in Nat \ {0} /\ HelloSize \in 1..BioCap
  /\ Sizes \subseteq 1..BioCap /\ MaxMsgs \in Nat

VARIABLES
  tls,       \* pool::tls
  strict,    \* does this libuv refuse to write once it was asked to shut down?
  sock,      \* h_sock: none, being read, at its end, or in uv_close
  wire,      \* what the pool has sent and is not read
  sent,      \* how many messages the pool has sent
  first,     \* ... before this connection
  rude,      \* did the pool send faster or more than it is handled?
  slips,     \* were results found while the link shut down, or too fast for the buffers?
  recv,      \* recv_buf up to recv_pos
  consumed,  \* where consume_loop is in recv_buf, in the middle of its TLS records
  looping,   \* is it?
  bio,       \* what the SSL object was given and has not been read out of it
  pt,        \* pt_buf up to pt_pos
  handled,   \* the messages of this connection process_json_doc was called for
  link       \* the rest: see Links

vars == <<tls, strict, sock, wire, sent, first, rude, slips, recv, consumed, looping, bio, pt,
          handled, link>>
farSide  == <<tls, strict, sent, first, rude, slips>>
readSide == <<recv, consumed, looping, bio, pt, handled>>

\* ssl and handshake_complete, pool::state, shutting_down and why it was set, the writes
\* in progress and those libuv refused, each in a send buffer, and what the program has
\* come to grief over.
Links ==
  [ssl : {"none", "handshake", "up", "shut"},
   pool : {"idle", "connecting", "connected", "has_job"},
   shutting : BOOLEAN,
   cause : {"none", "garbage", "refused", "full", "tls", "handshake", "peer", "timeout"},
   writes : 0..NBufs,
   held : 0..NBufs,
   failed : {"none", "no_buffer", "ssl", "endless"}]

NewLink == [ssl |-> "none", pool |-> "idle", shutting |-> FALSE, cause |-> "none",
            writes |-> 0, held |-> 0, failed |-> "none"]
------------------------------------------------------------------------------
(* What the methods do to the link, one after the other. *)

\* uv_write: never on a handle in uv_close.
Writable(l) == ~l.shutting \/ (~strict /\ sock # "closing")

\* get_send_buffer and finalize_socket_write: without a buffer, buflen is not written; the
\* buffer of a write that is refused is kept until the socket is closed.
Send(l) ==
  CASE l.writes + l.held >= NBufs -> [l EXCEPT !.failed = "no_buffer"]
    [] l.writes + l.held < NBufs /\ Writable(l) -> [l EXCEPT !.writes = @ + 1]
    [] OTHER -> [l EXCEPT !.held = @ + 1]

\* SSL_shutdown with flush_tls_pending; nothing on a plain link or during a handshake.
CloseNotify(l) == IF l.ssl = "up" THEN [Send(l) EXCEPT !.ssl = "shut"] ELSE l

DoShutdown(l, cause) ==
  IF l.shutting THEN l ELSE [CloseNotify(l) EXCEPT !.shutting = TRUE, !.cause = cause]

\* notify_error: pool::net_on_error.
NotifyError(l, cause) == [DoShutdown(l, cause) EXCEPT !.pool = "idle"]

\* do_socket_write; once close_notify is sent every SSL_write fails, and the loop that
\* takes its result for the length written does not end.
Write(l) ==
  IF l.ssl = "shut" THEN [NotifyError(l, "tls") EXCEPT !.failed = "endless"] ELSE Send(l)

\* net_on_connect: log in.
LogIn(l) == Write([l EXCEPT !.pool = "connected"])

\* What a line has done to the link; answer is what process_json_doc made of it.
AfterLine(l, verdict, answer) ==
  CASE verdict = "garbage" -> NotifyError(l, "garbage")
    [] verdict = "refused" -> DoShutdown(l, "refused")
    [] verdict = "handled" /\ answer = "job" -> [l EXCEPT !.pool = "has_job"]
    [] OTHER -> l

Answers == {"job", "other", "refuse"}
------------------------------------------------------------------------------
(* The pool's side: handshake and messages. *)

Hello == [i \in 1..HelloSize |-> Unit(0, i, HelloSize, i = HelloSize)]

\* Messages in one TLS record, or in two with a cut after unit cut.
Records(sizes, cut) ==
  LET Message(k) == [i \in 1..sizes[k] |->
                       Unit(sent + k, i, sizes[k], k = Len(sizes) /\ i = sizes[k])]
      data == IF Len(sizes) = 1 THEN Message(1) ELSE Message(1) \o Message(2)
  IN [i \in DOMAIN data |-> IF i = cut THEN [data[i] EXCEPT !.seal = TRUE] ELSE data[i]]

PoolSends ==
  \E n \in 1..2 : \E sizes \in [1..n -> Sizes] : \E cut \in 0..(sizes[1] - 1) :
    /\ sock = "reading" /\ ~looping
    /\ tls => link.ssl \in {"up", "shut"}
    /\ sent + n <= MaxMsgs
    /\ wire' = wire \o Records(sizes, cut)
    /\ sent' = sent + n
    /\ rude' = rude \cup (IF n = 2 \/ Len(handled) < sent - first THEN {"haste"} ELSE {})
                    \cup (IF \E k \in 1..n : sizes[k] > Cap THEN {"length"} ELSE {})
    /\ UNCHANGED <<tls, strict, sock, first, slips, readSide, link>>
------------------------------------------------------------------------------
(* Connecting. *)

\* The heartbeat connects an idle pool, and the connection comes up: log in, or start
\* a handshake, with the pool still connecting.
OnConnect ==
  /\ sock = "none" /\ link.pool = "idle"
  /\ sock' = "reading"
  /\ first' = sent /\ handled' = <<>> /\ rude' = {} /\ slips' = {}
  /\ IF tls
       THEN /\ wire' = Hello
            /\ link' = IF link.ssl # "none"
                         THEN [link EXCEPT !.failed = "ssl"]
                         ELSE [Send(link) EXCEPT !.ssl = "handshake", !.pool = "connecting"]
       ELSE /\ wire' = <<>>
            /\ link' = LogIn(link)
  /\ UNCHANGED <<tls, strict, sent, recv, consumed, looping, bio, pt>>

\* do_ssl_handshake with all of the server's part at hand: complete, refused, or with the
\* fingerprint of another certificate; there may be a last flight, or an alert, to send.
Handshakes ==
  UNION {{LogIn([l EXCEPT !.ssl = "up"]), NotifyError(l, "handshake"),
          NotifyError([l EXCEPT !.ssl = "up"], "handshake")} : l \in {link, Send(link)}}
------------------------------------------------------------------------------
(* Reading. *)

\* The units of the first record in data that has all arrived, if there is one.
FirstRecord(data) ==
  LET seals == {i \in DOMAIN data : data[i].seal}
  IN IF seals = {} THEN <<>> ELSE SubSeq(data, 1, Min(seals))

\* on_socket_read_st: as much as fits, of what has come; a plain buffer is consumed at
\* once, one of TLS record by record.
ReadSome ==
  \E n \in 1..Len(wire), answer \in Answers :
    \E buf \in {recv \o SubSeq(wire, 1, n)} : \E c \in {Consume(buf, answer # "refuse")} :
       /\ sock = "reading" /\ ~looping
       /\ Len(buf) <= Cap
       /\ wire' = SubSeq(wire, n + 1, Len(wire))
       /\ IF tls
            THEN /\ recv' = buf /\ consumed' = 0 /\ looping' = TRUE
                 /\ UNCHANGED <<handled, link>>
            ELSE /\ recv' = c.rest
                 /\ handled' = handled \o c.message
                 /\ link' = AfterLine(link, c.verdict, answer)
                 /\ UNCHANGED <<consumed, looping>>
       /\ UNCHANGED <<farSide, sock, bio, pt>>

\* The loop goes on after n more units, or has consumed the buffer.
LoopOn(n) ==
  IF consumed + n = Len(recv)
    THEN recv' = <<>> /\ consumed' = 0 /\ looping' = FALSE
    ELSE consumed' = consumed + n /\ UNCHANGED <<recv, looping>>

\* consume_ct_data returned -1: recv_buf keeps data that was taken before, so that what
\* is read next comes after records repeated.
LoopFails ==
  /\ recv' = [i \in DOMAIN recv |-> [recv[i] EXCEPT !.msg = Junk]]
  /\ consumed' = 0 /\ looping' = FALSE

\* consume_ct_data: BIO_write gives the SSL object what it takes, which is then read once.
Takes  == Min({Len(recv) - consumed, BioCap - Len(bio)})
Given  == bio \o SubSeq(recv, consumed + 1, consumed + Takes)
Record == FirstRecord(Given)
Intact == \A i \in DOMAIN Record : Record[i].msg # Junk

\* Mutant of Room: the room asked for is that of the whole pt_buf.
WholeRoom == Min({Len(Record), Cap})

Room == Min({Len(Record), Cap - Len(pt)})

\* BIO_write: no room, since records were left unread.
SslIsFull ==
  /\ looping /\ Takes = 0
  /\ link' = NotifyError(link, "tls")
  /\ LoopFails
  /\ UNCHANGED <<farSide, sock, wire, bio, pt, handled>>

\* Before the handshake is complete what was given goes to do_ssl_handshake.
OnHandshakeData ==
  /\ looping /\ Takes > 0 /\ link.ssl = "handshake"
  /\ bio' = SubSeq(Given, Len(Record) + 1, Len(Given))
  /\ link' \in IF Record = <<>> THEN {link} ELSE Handshakes
  /\ LoopOn(Takes)
  /\ UNCHANGED <<farSide, sock, wire, pt, handled>>

\* Mutant of OnPartOfRecord: SSL_ERROR_WANT_READ is an error like any other.
PartOfRecordFails ==
  /\ looping /\ Takes > 0 /\ link.ssl \in {"up", "shut"}
  /\ Record = <<>>
  /\ bio' = Given /\ LoopFails
  /\ link' = NotifyError(link, "tls")
  /\ UNCHANGED <<farSide, sock, wire, pt, handled>>

\* SSL_read: no record is complete,
OnPartOfRecord ==
  /\ looping /\ Takes > 0 /\ link.ssl \in {"up", "shut"}
  /\ Record = <<>>
  /\ bio' = Given /\ LoopOn(Takes)
  /\ UNCHANGED <<farSide, sock, wire, pt, handled, link>>

\* or what was repeated is no record,
OnBadRecord ==
  /\ looping /\ Takes > 0 /\ link.ssl \in {"up", "shut"}
  /\ ~Intact
  /\ bio' = Given /\ LoopFails
  /\ link' = NotifyError(link, "tls")
  /\ UNCHANGED <<farSide, sock, wire, pt, handled>>

\* or pt_buf is full and nothing can be read,
OnFullText ==
  /\ looping /\ Takes > 0 /\ link.ssl \in {"up", "shut"}
  /\ Record # <<>> /\ Intact /\ Room = 0
  /\ bio' = Given /\ LoopFails
  /\ link' = DoShutdown(link, "full")
  /\ UNCHANGED <<farSide, sock, wire, pt, handled>>

\* or it returns what fits of one record, which goes through the same consume_loop.
OnRecord ==
  /\ looping /\ Takes > 0 /\ link.ssl \in {"up", "shut"}
  /\ Record # <<>> /\ Intact /\ Room > 0
  /\ bio' = SubSeq(Given, Room + 1, Len(Given))
  /\ \E answer \in Answers :
       \E c \in {Consume(pt \o SubSeq(Record, 1, Room), answer # "refuse")} :
         /\ pt' = c.rest
         /\ handled' = handled \o c.message
         /\ link' = AfterLine(link, c.verdict, answer)
         /\ IF c.verdict \in {"garbage", "refused"} THEN LoopFails ELSE LoopOn(Takes)
  /\ UNCHANGED <<farSide, sock, wire>>

\* Mutant of OnFullBuffer: it is taken for a read of nothing.
FullBufferIgnored ==
  /\ sock = "reading" /\ ~looping
  /\ Len(recv) = Cap /\ wire # <<>>
  /\ UNCHANGED vars

\* recv_buf is full: libuv has nowhere to read to (UV_ENOBUFS).
OnFullBuffer ==
  /\ sock = "reading" /\ ~looping
  /\ Len(recv) = Cap /\ wire # <<>>
  /\ link' = NotifyError(link, "full")
  /\ UNCHANGED <<farSide, sock, wire, readSide>>

\* The end of the stream, or an error of it.
OnEndOfStream ==
  /\ sock = "reading" /\ ~looping
  /\ sock' = "deaf"
  /\ \/ link' = IF link.shutting THEN NotifyError(link, "peer") ELSE DoShutdown(link, "peer")
     \/ link' = NotifyError(link, "peer")
  /\ UNCHANGED <<farSide, wire, readSide>>
------------------------------------------------------------------------------
(* Sending, timeouts and closing. *)

\* do_send_result, also while the link shuts down and when it takes the last buffer.
OnFoundResult ==
  /\ ~looping
  /\ link.pool = "has_job"
  /\ slips' = slips \cup (IF link.shutting THEN {"late"} ELSE {})
                    \cup (IF link.writes + link.held >= NBufs - 1 THEN {"burst"} ELSE {})
  /\ link' = Write(link)
  /\ UNCHANGED <<tls, strict, sent, first, rude, sock, wire, readSide>>

OnWriteComplete ==
  /\ ~looping
  /\ link.writes > 0
  /\ link' = [link EXCEPT !.writes = @ - 1]
  /\ UNCHANGED <<farSide, sock, wire, readSide>>

\* A call of a connected pool has timed out; nothing times a handshake out.
OnTimeout ==
  /\ ~looping
  /\ link.pool = "connected"
  /\ link' = NotifyError(link, "timeout")
  /\ UNCHANGED <<farSide, sock, wire, readSide>>

\* Mutant of OnShutdown: the socket is closed only when the pool has closed its side.
ShutdownAfterEnd ==
  /\ ~looping
  /\ link.shutting /\ link.writes = 0 /\ sock = "deaf"
  /\ sock' = "closing"
  /\ UNCHANGED <<farSide, wire, readSide, link>>

OnShutdown ==
  /\ ~looping
  /\ link.shutting /\ link.writes = 0 /\ sock \in {"reading", "deaf"}
  /\ sock' = "closing"
  /\ UNCHANGED <<farSide, wire, readSide, link>>

\* Mutant of OnClose: ssl is not freed.
CloseKeepingSsl ==
  /\ ~looping
  /\ sock = "closing"
  /\ sock' = "none"
  /\ wire' = <<>> /\ recv' = <<>> /\ bio' = <<>> /\ pt' = <<>>
  /\ link' = [NewLink EXCEPT !.ssl = link.ssl]
  /\ UNCHANGED <<farSide, consumed, looping, handled>>

\* on_socket_closed of either class, and net_on_close.
OnClose ==
  /\ ~looping
  /\ sock = "closing"
  /\ sock' = "none"
  /\ wire' = <<>> /\ recv' = <<>> /\ bio' = <<>> /\ pt' = <<>>
  /\ link' = NewLink
  /\ UNCHANGED <<farSide, consumed, looping, handled>>
------------------------------------------------------------------------------
Init ==
  /\ tls \in BOOLEAN /\ strict \in BOOLEAN
  /\ sock = "none" /\ link = NewLink
  /\ wire = <<>> /\ sent = 0 /\ first = 0 /\ rude = {} /\ slips = {}
  /\ recv = <<>> /\ consumed = 0 /\ looping = FALSE
  /\ bio = <<>> /\ pt = <<>> /\ handled = <<>>

Consuming ==
  SslIsFull \/ OnHandshakeData \/ OnPartOfRecord \/ OnBadRecord \/ OnFullText \/ OnRecord
Reading   == ReadSome \/ OnFullBuffer
Ending    == OnShutdown \/ OnClose

Next ==
  /\ link.failed = "none"
  /\ \/ PoolSends \/ OnConnect \/ Reading \/ Consuming \/ OnEndOfStream
     \/ OnFoundResult \/ OnWriteComplete \/ OnTimeout \/ Ending

Spec == Init /\ [][Next]_vars

\* What arrives is read, writes complete, a shutdown is carried out: libuv runs the
\* callbacks of what has happened.  A consume_loop is part of the callback that began it
\* and runs to its end.  Nothing is assumed of the pool or the miners.
Fairness ==
  /\ WF_vars(link.failed = "none" /\ Reading)
  /\ []<>~looping
  /\ WF_vars(link.failed = "none" /\ OnWriteComplete)
  /\ WF_vars(link.failed = "none" /\ Ending)

FairSpec == Spec /\ Fairness
------------------------------------------------------------------------------
Units == [msg : (0..MaxMsgs) \cup {Junk}, at : Nat, size : Sizes \cup {HelloSize},
          seal : BOOLEAN]

\* Every variable keeps its type; buffers hold no more than they can.
TypeOK ==
  /\ tls \in BOOLEAN /\ strict \in BOOLEAN /\ looping \in BOOLEAN
  /\ sock \in {"none", "reading", "deaf", "closing"}
  /\ sent \in 0..MaxMsgs /\ first \in 0..sent /\ rude \subseteq {"haste", "length"}
  /\ slips \subseteq {"late", "burst"}
  /\ \A data \in {wire, recv, bio, pt} : data \in Seq(Units)
  /\ Len(recv) <= Cap /\ Len(pt) <= Cap /\ Len(bio) <= BioCap
  /\ consumed \in 0..Len(recv) /\ handled \in Seq(1..MaxMsgs)
  /\ link \in Links

\* The messages handled are those the pool sent on this connection, from its first, in
\* order and each once: no line, record or rest of an earlier connection is mistaken for
\* one, however the stream is cut and whatever was refused before.  (A message is more
\* than an empty object: parsing spoils what it refuses, but nothing of "{}", which would be
\* handled and refused once more if something came after it.)
HandledInOrder == handled = [i \in 1..Len(handled) |-> first + i]

\* A pool that sends one message at a time, none longer than the buffers, is never given
\* up as if it had sent garbage, a bad record or more than fits.  It may still be given up
\* over what a message says, or over a reply that came as two records in one read and is
\* left inside the SSL object until the call is timed out.
PoliteIsUnderstood ==
  /\ link.cause \in {"garbage", "tls"} => "haste" \in rude
  /\ link.cause = "full" => rude # {}

\* Between two callbacks of a link in use no complete line waits in a buffer of the
\* program, and no record outside the SSL object: a message that has come and is not
\* handled is inside the SSL object, on a link over TLS.
NoLineWaits ==
  sock = "reading" /\ ~looping /\ ~link.shutting =>
    /\ Newlines(pt) = {}
    /\ IF tls THEN recv = <<>> ELSE Newlines(recv) = {}
    /\ wire = <<>> /\ Len(handled) < sent - first => tls /\ Newlines(bio) # {}

\* No assertion of tls_interface.cpp fails; every write returns, except one for a result
\* found while the link shuts down; and a buffer is there for whatever is flushed, also for
\* the close_notify that errors set off inside one another, except after a result that took
\* the last free buffer or found none.
LinkHolds ==
  /\ link.failed # "ssl"
  /\ link.failed = "endless" => "late" \in slips
  /\ link.failed = "no_buffer" => "burst" \in slips

\* What is sent on a connection is handled, or the connection is given up, or the program
\* comes to grief over a result; over TLS it may also be left inside the SSL object, behind
\* another record, when nothing more comes to be read.
GetsThrough ==
  (sock = "reading" /\ Len(handled) < sent - first) ~>
    \/ Len(handled) = sent - first \/ link.shutting \/ sock # "reading"
    \/ link.failed # "none"
    \/ wire = <<>> /\ FirstRecord(bio) # <<>>

\* A link that is given up is closed and its pool can connect again, unless results are
\* found during its shutdown again and again, or the program comes to grief over one.
GivenUpIsClosed ==
  \/ link.shutting ~> (sock = "none" /\ link.pool = "idle") \/ link.failed # "none"
  \/ []<><<OnFoundResult /\ link.shutting>>_vars
=============================================================================
