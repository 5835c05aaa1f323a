--------------------------- MODULE StreamsProofs ---------------------------
(* Proofs about Streams, for any sizes of buffers and messages: what is     *)
(* handled is what the pool sent, in order, and the link holds.             *)
EXTENDS StreamFlow
------------------------------------------------------------------------------
(* The link: its ssl, why it was given up, and the buffers that are taken.    *)

Causes == {"none", "garbage", "refused", "full", "tls", "handshake", "peer", "timeout"}

\* Send buffers in use.
Taken(l) == l.writes + l.held

\* close_notify is sent by do_shutdown only, and no pool logs in during a handshake.
LinkOK(l) ==
  /\ l \in Links /\ l.failed # "ssl"
  /\ l.ssl = "shut" => l.shutting
  /\ l.ssl = "handshake" => l.pool \in {"idle", "connecting"}
  /\ ~l.shutting => l.cause = "none"

\* m is what giving up l over cause leaves.
GivenUp(l, m, cause) ==
  /\ LinkOK(m) /\ m.shutting /\ m.cause = (IF l.shutting THEN l.cause ELSE cause)
  /\ m.ssl = "none" <=> l.ssl = "none"
  /\ m.ssl = "handshake" <=> l.ssl = "handshake"
  /\ m.ssl = "handshake" => Taken(m) = Taken(l)

LEMMA LinkFields ==
  ASSUME NEW l \in Links
  PROVE  /\ l.ssl \in {"none", "handshake", "up", "shut"}
         /\ l.pool \in {"idle", "connecting", "connected", "has_job"}
         /\ l.shutting \in BOOLEAN /\ l.cause \in Causes
         /\ l.writes \in 0..NBufs /\ l.held \in 0..NBufs /\ Taken(l) \in Nat
         /\ l.failed \in {"none", "no_buffer", "ssl", "endless"}
         /\ NBufs \in Nat /\ NBufs >= 4
<1>1. /\ l.ssl \in {"none", "handshake", "up", "shut"}
      /\ l.pool \in {"idle", "connecting", "connected", "has_job"}
      /\ l.shutting \in BOOLEAN /\ l.cause \in Causes
      /\ l.writes \in 0..NBufs /\ l.held \in 0..NBufs
      /\ l.failed \in {"none", "no_buffer", "ssl", "endless"}
      /\ NBufs \in Nat /\ NBufs >= 4
  BY StreamsAssumption DEF Links, Causes
<1>2. Taken(l) \in Nat
  BY <1>1 DEF Taken
<1> QED
  BY <1>1, <1>2

\* A send takes one buffer more, or is missing one.
LEMMA SendIs ==
  ASSUME NEW l \in Links
  PROVE  /\ Send(l) \in Links
         /\ Send(l).ssl = l.ssl /\ Send(l).pool = l.pool
         /\ Send(l).shutting = l.shutting /\ Send(l).cause = l.cause
         /\ Taken(l) < NBufs => Taken(Send(l)) = Taken(l) + 1 /\ Send(l).failed = l.failed
         /\ Taken(l) >= NBufs => Taken(Send(l)) = Taken(l) /\ Send(l).failed = "no_buffer"
<1>0. l.writes \in 0..NBufs /\ l.held \in 0..NBufs /\ NBufs \in Nat
  BY LinkFields
<1>1. CASE Taken(l) >= NBufs
  <2>1. PICK m : m = [l EXCEPT !.failed = "no_buffer"]
    OBVIOUS
  <2>2. /\ m \in Links /\ m.ssl = l.ssl /\ m.pool = l.pool /\ m.shutting = l.shutting
        /\ m.cause = l.cause /\ m.writes = l.writes /\ m.held = l.held /\ m.failed = "no_buffer"
    BY <2>1 DEF Links
  <2>3. l.writes + l.held >= NBufs /\ ~(l.writes + l.held < NBufs)
    BY <1>0, <1>1 DEF Taken
  <2>4. Send(l) = m
    BY <2>1, <2>3 DEF Send
  <2> QED
    BY <1>0, <1>1, <2>2, <2>4 DEF Taken
<1>2. CASE ~(Taken(l) >= NBufs)
  <2>0. l.writes + l.held < NBufs /\ Taken(l) < NBufs
    BY <1>0, <1>2 DEF Taken
  <2>1. CASE Writable(l)
    <3>1. PICK w \in 0..NBufs : w = l.writes + 1
      <4>1. l.writes + 1 \in 0..NBufs
        BY <1>0, <2>0
      <4> QED
        BY <4>1
    <3>2. PICK m : m = [l EXCEPT !.writes = w]
      OBVIOUS
    <3>3. /\ m \in Links /\ m.ssl = l.ssl /\ m.pool = l.pool /\ m.shutting = l.shutting
          /\ m.cause = l.cause /\ m.writes = w /\ m.held = l.held /\ m.failed = l.failed
      BY <3>2 DEF Links
    <3>4. Send(l) = m
      BY <1>2, <2>0, <2>1, <3>1, <3>2 DEF Send, Taken
    <3> QED
      BY <1>0, <1>2, <3>1, <3>3, <3>4 DEF Taken
  <2>2. CASE ~Writable(l)
    <3>1. PICK h \in 0..NBufs : h = l.held + 1
      <4>1. l.held + 1 \in 0..NBufs
        BY <1>0, <2>0
      <4> QED
        BY <4>1
    <3>2. PICK m : m = [l EXCEPT !.held = h]
      OBVIOUS
    <3>3. /\ m \in Links /\ m.ssl = l.ssl /\ m.pool = l.pool /\ m.shutting = l.shutting
          /\ m.cause = l.cause /\ m.writes = l.writes /\ m.held = h /\ m.failed = l.failed
      BY <3>2 DEF Links
    <3>4. Send(l) = m
      BY <1>2, <2>0, <2>2, <3>1, <3>2 DEF Send, Taken
    <3> QED
      BY <1>0, <1>2, <3>1, <3>3, <3>4 DEF Taken
  <2> QED
    BY <2>1, <2>2
<1> QED
  BY <1>1, <1>2

LEMMA DoShutdownIs ==
  ASSUME NEW l, LinkOK(l), NEW cause \in Causes
  PROVE  GivenUp(l, DoShutdown(l, cause), cause)
<1> USE DEF LinkOK
<1>1. CASE l.shutting
  BY <1>1 DEF DoShutdown, GivenUp
<1>2. CASE ~l.shutting /\ l.ssl = "up"
  <2>1. PICK s : s = Send(l)
    OBVIOUS
  <2>2. s \in Links /\ s.ssl = "up" /\ s.pool = l.pool /\ s.failed \in {l.failed, "no_buffer"}
    BY <1>2, <2>1, SendIs, LinkFields
  <2>3. PICK m : m = [s EXCEPT !.ssl = "shut", !.shutting = TRUE, !.cause = cause]
    OBVIOUS
  <2>4. /\ m \in Links /\ m.ssl = "shut" /\ m.shutting /\ m.cause = cause
        /\ m.failed = s.failed /\ m.pool = l.pool
    BY <2>2, <2>3 DEF Links, Causes
  <2>5. DoShutdown(l, cause) = m
    BY <1>2, <2>1, <2>2, <2>3 DEF DoShutdown, CloseNotify, Links
  <2> QED
    BY <1>2, <2>2, <2>4, <2>5 DEF GivenUp
<1>3. CASE ~l.shutting /\ l.ssl # "up"
  <2>1. PICK m : m = [l EXCEPT !.shutting = TRUE, !.cause = cause]
    OBVIOUS
  <2>2. /\ m \in Links /\ m.ssl = l.ssl /\ m.shutting /\ m.cause = cause
        /\ m.failed = l.failed /\ m.pool = l.pool /\ m.writes = l.writes /\ m.held = l.held
    BY <2>1 DEF Links, Causes
  <2>3. DoShutdown(l, cause) = m
    BY <1>3, <2>1 DEF DoShutdown, CloseNotify
  <2> QED
    BY <1>3, <2>2, <2>3 DEF GivenUp, Taken
<1> QED
  BY <1>1, <1>2, <1>3

LEMMA NotifyErrorIs ==
  ASSUME NEW l, LinkOK(l), NEW cause \in Causes
  PROVE  GivenUp(l, NotifyError(l, cause), cause)
<1>1. PICK d : d = DoShutdown(l, cause)
  OBVIOUS
<1>2. GivenUp(l, d, cause)
  BY <1>1, DoShutdownIs
<1>3. PICK m : m = [d EXCEPT !.pool = "idle"]
  OBVIOUS
<1>4. /\ d \in Links /\ m \in Links /\ m.ssl = d.ssl /\ m.shutting = d.shutting
      /\ m.cause = d.cause /\ m.failed = d.failed /\ m.pool = "idle"
      /\ m.writes = d.writes /\ m.held = d.held
  BY <1>2, <1>3 DEF GivenUp, LinkOK, Links
<1>5. NotifyError(l, cause) = m
  BY <1>1, <1>3 DEF NotifyError
<1> QED
  BY <1>2, <1>4, <1>5 DEF GivenUp, LinkOK, Taken

\* A send on a link in order.
LEMMA SendKeeps ==
  ASSUME NEW l, LinkOK(l)
  PROVE  /\ LinkOK(Send(l)) /\ Send(l).ssl = l.ssl /\ Send(l).shutting = l.shutting
         /\ Send(l).cause = l.cause
<1>1. PICK m : m = Send(l)
  OBVIOUS
<1>2. /\ m \in Links /\ m.ssl = l.ssl /\ m.pool = l.pool /\ m.shutting = l.shutting
      /\ m.cause = l.cause /\ m.failed \in {l.failed, "no_buffer"}
  BY <1>1, SendIs, LinkFields DEF LinkOK
<1> QED
  BY <1>1, <1>2 DEF LinkOK

LEMMA LogInIs ==
  ASSUME NEW l, LinkOK(l), l.ssl \in {"none", "up"}
  PROVE  /\ LinkOK(LogIn(l)) /\ LogIn(l).ssl = l.ssl /\ LogIn(l).shutting = l.shutting
         /\ LogIn(l).cause = l.cause
<1>1. PICK m : m = [l EXCEPT !.pool = "connected"]
  OBVIOUS
<1>2. /\ m \in Links /\ m.ssl = l.ssl /\ m.pool = "connected"
      /\ m.shutting = l.shutting /\ m.cause = l.cause /\ m.failed = l.failed
  BY <1>1 DEF LinkOK, Links
<1>3. LinkOK(m)
  BY <1>2 DEF LinkOK
<1>4. LogIn(l) = Send(m)
  BY <1>1, <1>2 DEF LogIn, Write
<1> QED
  BY <1>2, <1>3, <1>4, SendKeeps

\* How do_ssl_handshake leaves the link.
LEMMA HandshakesAre ==
  ASSUME LinkOK(link), link.ssl = "handshake", NEW m \in Handshakes
  PROVE  /\ LinkOK(m) /\ m.ssl # "none"
         /\ m.cause \in {link.cause, "handshake"}
         /\ ~m.shutting => ~link.shutting
         /\ m.cause = "handshake" \/ m.cause = link.cause
<1>1. PICK l \in {link, Send(link)} :
        \/ m = LogIn([l EXCEPT !.ssl = "up"]) \/ m = NotifyError(l, "handshake")
        \/ m = NotifyError([l EXCEPT !.ssl = "up"], "handshake")
  BY DEF Handshakes
<1>2. LinkOK(l) /\ l.ssl = "handshake" /\ l.shutting = link.shutting /\ l.cause = link.cause
  BY SendKeeps
<1>3. PICK u : u = [l EXCEPT !.ssl = "up"]
  OBVIOUS
<1>4. /\ u \in Links /\ u.ssl = "up" /\ u.pool = l.pool
      /\ u.shutting = l.shutting /\ u.cause = l.cause /\ u.failed = l.failed
  BY <1>2, <1>3 DEF LinkOK, Links
<1>5. LinkOK(u)
  BY <1>2, <1>4 DEF LinkOK
<1>6. "handshake" \in Causes
  BY DEF Causes
<1>7. CASE m = LogIn(u)
  BY <1>2, <1>4, <1>5, <1>7, LogInIs
<1>8. CASE m = NotifyError(l, "handshake")
  <2>1. GivenUp(l, m, "handshake")
    BY <1>2, <1>6, <1>8, NotifyErrorIs
  <2> QED
    BY <1>2, <2>1 DEF GivenUp
<1>9. CASE m = NotifyError(u, "handshake")
  <2>1. GivenUp(u, m, "handshake")
    BY <1>5, <1>6, <1>9, NotifyErrorIs
  <2> QED
    BY <1>2, <1>4, <2>1 DEF GivenUp
<1> QED
  BY <1>1, <1>3, <1>7, <1>8, <1>9

\* What a line leaves: it is given up over garbage and refusals only.
LEMMA AfterLineIs ==
  ASSUME NEW l, LinkOK(l), l.ssl # "handshake",
         NEW verdict \in {"none", "garbage", "handled", "refused"}, NEW answer
  PROVE  /\ LinkOK(AfterLine(l, verdict, answer))
         /\ verdict \in {"garbage", "refused"} => GivenUp(l, AfterLine(l, verdict, answer), verdict)
         /\ verdict \in {"none", "handled"} =>
              /\ AfterLine(l, verdict, answer).ssl = l.ssl
              /\ AfterLine(l, verdict, answer).shutting = l.shutting
              /\ AfterLine(l, verdict, answer).cause = l.cause
<1>1. "garbage" \in Causes /\ "refused" \in Causes
  BY DEF Causes
<1>2. CASE verdict = "garbage"
  BY <1>1, <1>2, NotifyErrorIs DEF AfterLine, GivenUp
<1>3. CASE verdict = "refused"
  BY <1>1, <1>3, DoShutdownIs DEF AfterLine, GivenUp
<1>4. CASE verdict = "handled" /\ answer = "job"
  <2>1. PICK m : m = [l EXCEPT !.pool = "has_job"]
    OBVIOUS
  <2>2. AfterLine(l, verdict, answer) = m
    BY <1>4, <2>1 DEF AfterLine
  <2>3. /\ m \in Links /\ m.writes = l.writes /\ m.ssl = l.ssl /\ m.shutting = l.shutting
        /\ m.cause = l.cause /\ m.failed = l.failed
    BY <2>1 DEF LinkOK, Links
  <2> QED
    BY <1>4, <2>2, <2>3 DEF LinkOK
<1>5. CASE verdict = "none"
  <2>1. AfterLine(l, verdict, answer) = l
    BY <1>5 DEF AfterLine
  <2> QED
    BY <1>5, <2>1
<1>6. CASE verdict = "handled" /\ answer # "job"
  <2>1. AfterLine(l, verdict, answer) = l
    BY <1>6 DEF AfterLine
  <2> QED
    BY <1>6, <2>1
<1>7. verdict \in {"garbage", "refused", "none", "handled"}
  OBVIOUS
<1> QED
  BY <1>2, <1>3, <1>4, <1>5, <1>6, <1>7
------------------------------------------------------------------------------
(* What is under way on a connection, and how the loop goes through it.      *)

\* What consume_loop has before it; what it will have, past what the SSL object takes.
Unread == SubSeq(recv, consumed + 1, Len(recv))
Left   == SubSeq(recv, consumed + Takes + 1, Len(recv))

\* Everything of a connection that is not handled, outside and in the order of pt_buf.
Coming == bio \o (Unread \o wire)
Stream == pt \o Coming

\* The loop runs over TLS records that are there; nothing is kept of a closed connection.
Shape ==
  /\ tls \in BOOLEAN /\ looping \in BOOLEAN
  /\ sock \in {"none", "reading", "deaf", "closing"}
  /\ wire \in Seq(Units) /\ recv \in Seq(Units) /\ bio \in Seq(Units) /\ pt \in Seq(Units)
  /\ Len(recv) <= Cap /\ Len(pt) <= Cap /\ Len(bio) <= BioCap
  /\ consumed \in 0..Len(recv)
  /\ looping => tls /\ sock = "reading" /\ consumed < Len(recv)
  /\ ~looping => consumed = 0
  /\ sock = "none" => link = NewLink /\ wire = <<>> /\ recv = <<>> /\ bio = <<>> /\ pt = <<>>
  /\ ~tls => pt = <<>> /\ bio = <<>>

\* The parts are sequences of units, and what is to be consumed is all of recv_buf
\* between two callbacks.
LEMMA PartsAre ==
  ASSUME Shape
  PROVE  /\ Unread \in Seq(Units) /\ Len(Unread) = Len(recv) - consumed
         /\ Unread \o wire \in Seq(Units)
         /\ Coming \in Seq(Units) /\ Stream \in Seq(Units)
         /\ Len(Coming) = Len(bio) + (Len(recv) - consumed) + Len(wire)
<1>1. wire \in Seq(Units) /\ recv \in Seq(Units) /\ bio \in Seq(Units) /\ pt \in Seq(Units)
      /\ consumed \in 0..Len(recv)
  BY DEF Shape
<1>2. Unread \in Seq(Units) /\ Len(Unread) = Len(recv) - consumed
  BY <1>1, BackIs DEF Unread
<1>3. PICK u : u = Unread
  OBVIOUS
<1>4. u \o wire \in Seq(Units) /\ Len(u \o wire) = Len(u) + Len(wire)
  <2>1. u \in Seq(Units)
    BY <1>2, <1>3
  <2> QED
    BY <1>1, <2>1, JoinIs
<1>5. PICK v : v = u \o wire
  OBVIOUS
<1>6. bio \o v \in Seq(Units) /\ Len(bio \o v) = Len(bio) + Len(v)
  <2>1. v \in Seq(Units)
    BY <1>4, <1>5
  <2> QED
    BY <1>1, <2>1, JoinIs
<1>7. Coming = bio \o v
  BY <1>3, <1>5 DEF Coming
<1>8. Stream \in Seq(Units)
  <2>1. PICK c \in Seq(Units) : c = Coming
    BY <1>6, <1>7
  <2>2. pt \o c \in Seq(Units)
    BY <1>1, JoinIs
  <2> QED
    BY <2>1, <2>2 DEF Stream
<1>9. Len(Coming) = Len(bio) + (Len(recv) - consumed) + Len(wire)
  <2>1. Len(bio) \in Nat /\ Len(wire) \in Nat /\ Len(recv) \in Nat /\ consumed \in Nat
    BY <1>1
  <2>2. Len(Coming) = Len(bio) + Len(v) /\ Len(v) = Len(u) + Len(wire)
        /\ Len(u) = Len(recv) - consumed
    BY <1>2, <1>3, <1>4, <1>5, <1>6, <1>7
  <2> QED
    BY <2>1, <2>2
<1> QED
  BY <1>2, <1>3, <1>4, <1>6, <1>7, <1>8, <1>9

\* Membership in Seq(Units) under a name: a fact that names it says of which sequences it is
\* about, and of no other.
IsData(s) == s \in Seq(Units)

Regroups(x, y, z) == (x \o y) \o z = x \o (y \o z)
RegroupsIn(S) == \A x, y, z \in Seq(S) : Regroups(x, y, z)

LEMMA Regroup ==
  ASSUME NEW x, NEW y, NEW z, IsData(x), IsData(y), IsData(z)
  PROVE  Regroups(x, y, z)
<1>1. \A S : RegroupsIn(S)
  BY ConcatAssociative, Zenon DEF RegroupsIn, Regroups
<1>2. RegroupsIn(Units)
  BY <1>1, Zenon
<1> QED
  BY <1>2, Zenon DEF RegroupsIn, IsData

\* BIO_write keeps within what the SSL object takes, and what it is given is what came.
LEMMA GivenIs ==
  ASSUME Shape, looping
  PROVE  /\ Takes \in 0..(Len(recv) - consumed)
         /\ Given \in Seq(Units) /\ Len(Given) = Len(bio) + Takes /\ Len(Given) <= BioCap
         /\ Left \in Seq(Units) /\ Len(Left) = Len(recv) - consumed - Takes
         /\ Coming = Given \o (Left \o wire)
         /\ Takes = 0 => Len(bio) = BioCap
<1>1. /\ wire \in Seq(Units) /\ recv \in Seq(Units) /\ bio \in Seq(Units)
      /\ consumed \in 0..Len(recv) /\ consumed < Len(recv) /\ Len(bio) <= BioCap
      /\ BioCap \in Nat
  BY StreamsAssumption DEF Shape
<1>2. PICK a \in Nat : a = Len(recv) - consumed
  <2>1. Len(recv) - consumed \in Nat
    BY <1>1
  <2> QED
    BY <2>1
<1>3. PICK b \in Nat : b = BioCap - Len(bio)
  <2>1. BioCap - Len(bio) \in Nat
    BY <1>1
  <2> QED
    BY <2>1
<1>4. PICK n : n = Takes
  OBVIOUS
<1>5. n \in {a, b} /\ n <= a /\ n <= b
  <2>1. {a, b} \in SUBSET Nat /\ {a, b} # {}
    OBVIOUS
  <2>2. Min({a, b}) \in {a, b} /\ \A y \in {a, b} : Min({a, b}) <= y
    BY <2>1, MinIs
  <2>3. n = Min({a, b})
    BY <1>2, <1>3, <1>4 DEF Takes
  <2> QED
    BY <2>2, <2>3
<1>6. n \in 0..(Len(recv) - consumed)
  BY <1>2, <1>5
<1>7. PICK t : t = SubSeq(recv, consumed + 1, consumed + n)
  OBVIOUS
<1>8. PICK u : u = SubSeq(recv, consumed + n + 1, Len(recv))
  OBVIOUS
<1>9. /\ t \in Seq(Units) /\ Len(t) = n /\ u \in Seq(Units) /\ Len(u) = Len(recv) - consumed - n
      /\ t \o u = SubSeq(recv, consumed + 1, Len(recv))
  <2>1. PICK k : k = consumed + n
    OBVIOUS
  <2>2. recv \in Seq(Units) /\ consumed \in 0..Len(recv) /\ k \in 0..Len(recv) /\ consumed <= k
    BY <1>1, <1>6, <2>1
  <2>3. SubSeq(recv, consumed + 1, k) \in Seq(Units)
    BY <2>2, TakenIs
  <2>4. Len(SubSeq(recv, consumed + 1, k)) = k - consumed
    BY <2>2, TakenIs
  <2>5. SubSeq(recv, k + 1, Len(recv)) \in Seq(Units)
    BY <2>2, TakenIs
  <2>6. Len(SubSeq(recv, k + 1, Len(recv))) = Len(recv) - k
    BY <2>2, TakenIs
  <2>7. SubSeq(recv, consumed + 1, k) \o SubSeq(recv, k + 1, Len(recv))
          = SubSeq(recv, consumed + 1, Len(recv))
    BY <2>2, TakenIs
  <2>8. k - consumed = n /\ Len(recv) - k = Len(recv) - consumed - n
    BY <1>1, <1>6, <2>1
  <2> QED
    BY <1>7, <1>8, <2>1, <2>3, <2>4, <2>5, <2>6, <2>7, <2>8
<1>10. /\ t \in Seq(Units) /\ Len(t) = n /\ u \in Seq(Units)
       /\ Len(u) = Len(recv) - consumed - n /\ Unread = t \o u /\ Given = bio \o t
  <2>1. Given = bio \o t
    BY <1>4, <1>7 DEF Given
  <2> QED
    BY <1>9, <2>1 DEF Unread
<1>11. bio \o t \in Seq(Units) /\ Len(bio \o t) = Len(bio) + n
  <2>1. t \in Seq(Units) /\ Len(t) = n
    BY <1>10
  <2> QED
    BY <1>1, <2>1, JoinIs
<1>12. Coming = Given \o (u \o wire)
  <2>1. PICK v : v = u \o wire
    OBVIOUS
  <2>2. u \in Seq(Units) /\ t \in Seq(Units) /\ v \in Seq(Units)
    BY <1>1, <1>10, <2>1
  <2>3. t \o (u \o wire) = (t \o u) \o wire
    <3>1. IsData(t) /\ IsData(u) /\ IsData(wire)
      BY <1>1, <2>2 DEF IsData
    <3>2. Regroups(t, u, wire)
      BY <3>1, Regroup, Zenon
    <3> QED
      BY <3>2, Zenon DEF Regroups
  <2>4. bio \o (t \o v) = (bio \o t) \o v
    <3>1. IsData(bio) /\ IsData(t) /\ IsData(v)
      BY <1>1, <2>2 DEF IsData
    <3>2. Regroups(bio, t, v)
      BY <3>1, Regroup, Zenon
    <3> QED
      BY <3>2, Zenon DEF Regroups
  <2> QED
    BY <1>10, <2>1, <2>3, <2>4 DEF Coming
<1>13. Len(bio) + n <= BioCap /\ (n = 0 => Len(bio) = BioCap)
  BY <1>1, <1>2, <1>3, <1>5
<1>14. u = Left
  BY <1>4, <1>8 DEF Left
<1> QED
  BY <1>4, <1>6, <1>10, <1>11, <1>12, <1>13, <1>14

\* The loop goes on: what it has before it is what the SSL object did not take.
LEMMA LoopOnIs ==
  ASSUME Shape, looping, Takes > 0, LoopOn(Takes)
  PROVE  /\ recv' \in Seq(Units) /\ Len(recv') <= Cap /\ consumed' \in 0..Len(recv')
         /\ looping' \in BOOLEAN /\ (looping' => consumed' < Len(recv'))
         /\ ~looping' => consumed' = 0 /\ recv' = <<>>
         /\ Unread' = Left
<1>1. recv \in Seq(Units) /\ consumed \in 0..Len(recv) /\ Len(recv) <= Cap /\ Cap \in Nat
  BY StreamsAssumption DEF Shape
<1>2. Takes \in 0..(Len(recv) - consumed) /\ Left \in Seq(Units)
      /\ Len(Left) = Len(recv) - consumed - Takes
  BY GivenIs
<1>3. PICK n : n = Takes
  OBVIOUS
<1>4. n \in Nat /\ n > 0 /\ consumed + n <= Len(recv) /\ Len(Left) = Len(recv) - consumed - n
  BY <1>1, <1>2, <1>3
<1>5. CASE consumed + n = Len(recv)
  <2>1. recv' = <<>> /\ consumed' = 0 /\ looping' = FALSE
    BY <1>3, <1>5 DEF LoopOn
  <2>2. Len(Left) = 0
    BY <1>1, <1>4, <1>5
  <2>3. Left = <<>>
    BY <1>2, <2>2
  <2>4. SubSeq(<<>>, 1, 0) = <<>> /\ recv' \in Seq(Units) /\ Len(recv') = 0
    BY <2>1
  <2>5. Unread' = SubSeq(<<>>, 1, 0)
    BY <2>1 DEF Unread
  <2>6. looping' \in BOOLEAN /\ ~looping'
    BY <2>1
  <2> QED
    BY <1>1, <2>1, <2>3, <2>4, <2>5, <2>6
<1>6. CASE consumed + n # Len(recv)
  <2>1. consumed' = consumed + n /\ recv' = recv /\ looping' = looping
    BY <1>3, <1>6 DEF LoopOn
  <2>2. Unread' = Left
    BY <1>3, <2>1 DEF Unread, Left
  <2>3. consumed' \in 0..Len(recv) /\ consumed' < Len(recv)
    BY <1>1, <1>4, <1>6, <2>1
  <2>4. looping' \in BOOLEAN /\ looping'
    BY <2>1 DEF Shape
  <2> QED
    BY <1>1, <2>1, <2>2, <2>3, <2>4
<1> QED
  BY <1>5, <1>6

\* The loop fails: what recv_buf holds is no record any more.
LEMMA LoopFailsIs ==
  ASSUME Shape, looping, LoopFails
  PROVE  /\ recv' \in Seq(Units) /\ Len(recv') <= Cap /\ recv' # <<>>
         /\ looping' = FALSE /\ consumed' = 0 /\ Unread' = recv'
         /\ \A i \in 1..Len(recv') : recv'[i].msg = Junk
<1>1. recv \in Seq(Units) /\ Len(recv) <= Cap /\ recv # <<>>
  BY DEF Shape
<1>2. PICK j : j = recv'
  OBVIOUS
<1>3. j = [i \in DOMAIN recv |-> [recv[i] EXCEPT !.msg = Junk]]
      /\ consumed' = 0 /\ looping' = FALSE
  BY <1>2 DEF LoopFails
<1>4. /\ j \in Seq(Units) /\ Len(j) = Len(recv) /\ j # <<>>
      /\ \A i \in 1..Len(j) : j[i].msg = Junk
  BY <1>1, <1>3, JunkIs
<1>5. Unread' = SubSeq(j, 1, Len(j))
  BY <1>2, <1>3 DEF Unread
<1>6. SubSeq(j, 1, Len(j)) = j
  <2>1. j \in Seq(Units)
    BY <1>4
  <2> QED
    BY <2>1
<1> QED
  BY <1>1, <1>2, <1>3, <1>4, <1>5, <1>6
------------------------------------------------------------------------------
(* The inductive invariant. *)

\* The link is in order, and has its ssl from on_connect to on_socket_closed.
LinkInv == LinkOK(link) /\ (link.ssl = "none" <=> ~tls \/ sock = "none")

\* What is under way, with what is handled, is what the pool has sent.
OrderInv ==
  /\ sent \in 0..MaxMsgs /\ first \in 0..sent
  /\ handled \in Seq(1..MaxMsgs) /\ HandledInOrder /\ first + Len(handled) <= sent
  /\ sock # "none" /\ link.ssl # "handshake" => Flow(Stream, first + Len(handled), sent)

\* During a handshake the server's part of it is under way, and nothing else.
HelloInv ==
  link.ssl = "handshake" =>
    /\ pt = <<>> /\ handled = <<>> /\ sent = first
    /\ Coming \in {<<>>, Hello}
    /\ Coming # <<>> => Taken(link) <= 1

\* No line is left in a link in use.
LineInv ==
  sock # "none" /\ ~link.shutting =>
    /\ Newlines(pt) = {}
    /\ tls /\ ~looping => recv = <<>>
    /\ ~tls => Newlines(recv) = {}

\* A link in use has nothing spoilt under way, and one message at most of a pool that
\* waits for each to be handled.
PoliteInv ==
  /\ rude \subseteq {"haste", "length"} /\ PoliteIsUnderstood
  /\ "haste" \notin rude => sent <= first + Len(handled) + 1
  /\ sock # "none" /\ ~link.shutting /\ link.ssl # "handshake" =>
       \A i \in 1..Len(Stream) :
         Stream[i].msg # Junk /\ ("length" \notin rude => Stream[i].size <= Cap)

StreamsInv == Shape /\ LinkInv /\ OrderInv /\ HelloInv /\ LineInv /\ PoliteInv
------------------------------------------------------------------------------
(* Steps after which the same is under way. *)

LEMMA StreamStays ==
  ASSUME OrderInv, HelloInv, PoliteInv,
         Coming' = Coming, UNCHANGED <<pt, sent, first, rude, handled>>,
         sock' # "none" => sock # "none",
         link'.ssl = "handshake" <=> link.ssl = "handshake",
         link'.ssl = "handshake" => Taken(link') <= Taken(link),
         Taken(link') \in Nat, Taken(link) \in Nat,
         ~link'.shutting => ~link.shutting,
         PoliteIsUnderstood'
  PROVE  OrderInv' /\ HelloInv' /\ PoliteInv'
<1>1. PICK s : s = Stream
  OBVIOUS
<1>2. Stream' = s
  BY <1>1 DEF Stream
<1>3. OrderInv'
  <2>1. HandledInOrder'
    BY DEF OrderInv, HandledInOrder
  <2>2. (sock' # "none" /\ link'.ssl # "handshake") => Flow(s, first + Len(handled), sent)
    BY <1>1 DEF OrderInv
  <2>3. (sock # "none" /\ link.ssl # "handshake" => Flow(Stream, first + Len(handled), sent))'
    BY <1>2, <2>2
  <2> QED
    BY <2>1, <2>3 DEF OrderInv
<1>4. HelloInv'
  <2>1. SUFFICES ASSUME link'.ssl = "handshake"
                 PROVE  /\ pt' = <<>> /\ handled' = <<>> /\ sent' = first'
                        /\ Coming' \in {<<>>, Hello}
                        /\ Coming' # <<>> => Taken(link') <= 1
    BY DEF HelloInv, Hello
  <2>2. /\ pt = <<>> /\ handled = <<>> /\ sent = first /\ Coming \in {<<>>, Hello}
        /\ Coming # <<>> => Taken(link) <= 1
    BY <2>1 DEF HelloInv
  <2>3. Coming # <<>> => Taken(link') <= 1
    BY <2>1, <2>2
  <2> QED
    BY <2>2, <2>3
<1>5. PoliteInv'
  <2>1. ASSUME sock' # "none", ~link'.shutting, link'.ssl # "handshake"
        PROVE  \A i \in 1..Len(s) : s[i].msg # Junk /\ ("length" \notin rude => s[i].size <= Cap)
    BY <1>1, <2>1 DEF PoliteInv
  <2>2. (sock # "none" /\ ~link.shutting /\ link.ssl # "handshake" =>
           \A i \in 1..Len(Stream) :
             Stream[i].msg # Junk /\ ("length" \notin rude => Stream[i].size <= Cap))'
    BY <1>2, <2>1
  <2> QED
    BY <2>2 DEF PoliteInv
<1> QED
  BY <1>3, <1>4, <1>5

\* What is given up for a reason that a polite pool does not give.
LEMMA GivenUpIsUnderstood ==
  ASSUME LinkInv, PoliteInv, NEW cause \in Causes, GivenUp(link, link', cause), rude' = rude,
         ~link.shutting /\ cause \in {"garbage", "tls"} => "haste" \in rude,
         ~link.shutting /\ cause = "full" => rude # {}
  PROVE  PoliteIsUnderstood'
<1>1. link'.cause = (IF link.shutting THEN link.cause ELSE cause) /\ link.shutting \in BOOLEAN
  BY LinkFields DEF GivenUp, LinkInv, LinkOK
<1>2. /\ link.cause \in {"garbage", "tls"} => "haste" \in rude
      /\ link.cause = "full" => rude # {}
  BY DEF PoliteInv, PoliteIsUnderstood
<1>3. /\ link'.cause \in {"garbage", "tls"} => "haste" \in rude
      /\ link'.cause = "full" => rude # {}
  BY <1>1, <1>2
<1> QED
  BY <1>3 DEF PoliteIsUnderstood

\* One message, when the pool waits for each to be handled.
LEMMA SingleMessage ==
  ASSUME NEW s \in Seq(Units), NEW lo \in Nat, NEW hi \in Nat, Flow(s, lo, hi), hi <= lo + 1,
         \A i \in 1..Len(s) : s[i].msg # Junk
  PROVE  \A i \in 1..Len(s) : s[i].msg = lo + 1 /\ s[i].at = i /\ s[i].size = Len(s)
<1>1. SUFFICES ASSUME Len(s) \in Nat, Len(s) >= 1, s # <<>>
               PROVE  \A i \in 1..Len(s) : s[i].msg = lo + 1 /\ s[i].at = i /\ s[i].size = Len(s)
  OBVIOUS
<1>2. PICK z : z = s[1].size
  OBVIOUS
<1> DEFINE S == {n \in Nat : n + 1 \in 1..Len(s) =>
                     s[n + 1].msg = lo + 1 /\ s[n + 1].at = n + 1 /\ s[n + 1].size = z}
<1>3. 0 \in S
  <2>1. 1 \in 1..Len(s)
    BY <1>1
  <2>2. s[1].msg = lo + 1 /\ s[1].at = 1
    BY <1>1, <2>1 DEF Flow
  <2> QED
    BY <1>2, <2>2
<1>4. ASSUME NEW n \in Nat, n \in S PROVE n + 1 \in S
  <2>1. SUFFICES ASSUME n + 2 \in 1..Len(s)
                 PROVE  s[n + 2].msg = lo + 1 /\ s[n + 2].at = n + 2 /\ s[n + 2].size = z
    OBVIOUS
  <2>2. PICK i \in 1..Len(s) : i = n + 1
    <3>1. n + 1 \in 1..Len(s)
      BY <1>1, <2>1
    <3> QED
      BY <3>1
  <2>3. PICK k \in 1..Len(s) : k = n + 2
    BY <2>1
  <2>4. s[i].msg = lo + 1 /\ s[i].at = i /\ s[i].size = z
    BY <1>4, <2>2
  <2>5. Linked(s[i], s[k]) /\ k = i + 1
    <3>1. i + 1 = k /\ i + 1 <= Len(s)
      BY <1>1, <2>2, <2>3
    <3> QED
      BY <3>1 DEF Flow
  <2>6. s[i].msg # Junk /\ s[k].msg # Junk /\ s[k].msg <= hi
    BY DEF Flow
  <2>7. s[i].at # s[i].size
    <3>1. SUFFICES ASSUME s[i].at = s[i].size PROVE FALSE
      OBVIOUS
    <3>2. s[k].msg = s[i].msg + 1
      BY <2>5, <2>6, <3>1 DEF Linked
    <3> QED
      BY <2>4, <2>6, <3>2
  <2>8. s[k].msg = s[i].msg /\ s[k].at = s[i].at + 1 /\ s[k].size = s[i].size
    BY <2>5, <2>6, <2>7 DEF Linked
  <2> QED
    BY <2>2, <2>3, <2>4, <2>8
<1>5. \A n \in Nat : n \in S
  <2> HIDE DEF S
  <2> QED
    BY <1>3, <1>4, InductionOver
<1>6. ASSUME NEW i \in 1..Len(s) PROVE s[i].msg = lo + 1 /\ s[i].at = i /\ s[i].size = z
  <2>1. PICK n \in Nat : i = n + 1
    <3>1. i - 1 \in Nat /\ i = (i - 1) + 1
      OBVIOUS
    <3> QED
      BY <3>1
  <2> QED
    BY <1>5, <2>1
<1>7. z = Len(s)
  <2>1. Len(s) \in 1..Len(s)
    BY <1>1
  <2>2. s[Len(s)].at = s[Len(s)].size
    BY <1>1, <2>1 DEF Flow
  <2>3. s[Len(s)].at = Len(s) /\ s[Len(s)].size = z
    BY <1>6, <2>1
  <2> QED
    BY <2>2, <2>3
<1> QED
  BY <1>6, <1>7

\* ... fits in the SSL object and, when it is not too long, in a buffer.
LEMMA PoliteMessage ==
  ASSUME Shape, OrderInv, PoliteInv, sock # "none", ~link.shutting, link.ssl # "handshake",
         "haste" \notin rude
  PROVE  /\ \A i \in 1..Len(Stream) : /\ Stream[i].msg = first + Len(handled) + 1
                                      /\ Stream[i].at = i /\ Stream[i].size = Len(Stream)
                                      /\ Stream[i].msg # Junk
         /\ HelloSize <= BioCap /\ Len(Stream) <= BioCap
         /\ "length" \notin rude => Len(Stream) <= Cap
<1>1. PICK s : s = Stream
  OBVIOUS
<1>2. s \in Seq(Units) /\ Len(s) \in Nat
  BY <1>1, PartsAre
<1>3. PICK lo \in Nat : lo = first + Len(handled)
  <2>1. first \in Nat /\ Len(handled) \in Nat
    BY StreamsAssumption DEF OrderInv
  <2> QED
    BY <2>1
<1>4. PICK hi \in Nat : hi = sent
  BY StreamsAssumption DEF OrderInv
<1>5. Flow(s, lo, hi) /\ hi <= lo + 1
  BY <1>1, <1>3, <1>4 DEF OrderInv, PoliteInv
<1>6. \A i \in 1..Len(s) : s[i].msg # Junk /\ ("length" \notin rude => s[i].size <= Cap)
  BY <1>1 DEF PoliteInv
<1>7. \A i \in 1..Len(s) : s[i].msg = lo + 1 /\ s[i].at = i /\ s[i].size = Len(s)
  BY <1>2, <1>5, <1>6, SingleMessage
<1>8. HelloSize <= BioCap /\ \A x \in Sizes \cup {HelloSize} : x <= BioCap
  BY StreamsAssumption
<1>9. CASE Len(s) = 0
  <2>1. Cap \in Nat /\ BioCap \in Nat
    BY StreamsAssumption
  <2> QED
    BY <1>1, <1>8, <1>9, <2>1
<1>10. CASE Len(s) # 0
  <2>1. 1 \in 1..Len(s)
    BY <1>2, <1>10
  <2>2. s[1] \in Units
    BY <1>2, <2>1
  <2>3. s[1].size \in Sizes \cup {HelloSize} /\ s[1].size = Len(s)
    BY <1>7, <2>1, <2>2 DEF Units
  <2>4. Len(s) <= BioCap
    BY <1>8, <2>3
  <2>5. "length" \notin rude => Len(s) <= Cap
    BY <1>6, <2>1, <2>3
  <2> QED
    BY <1>1, <1>3, <1>6, <1>7, <1>8, <2>4, <2>5
<1> QED
  BY <1>9, <1>10
------------------------------------------------------------------------------
(* The steps that read nothing. *)

LEMMA LinkSteps ==
  ASSUME StreamsInv, ~looping, UNCHANGED <<tls, sent, first, rude, wire, readSide>>,
         sock' \in {"none", "reading", "deaf", "closing"}, sock' = "none" <=> sock = "none",
         sock = "none" => link' = link,
         LinkOK(link'),
         link'.ssl = "none" <=> link.ssl = "none",
         link'.ssl = "handshake" <=> link.ssl = "handshake",
         link'.ssl = "handshake" => Taken(link') <= Taken(link),
         ~link'.shutting => ~link.shutting,
         PoliteIsUnderstood'
  PROVE  StreamsInv'
<1>1. /\ UNCHANGED <<tls, wire, sent, first, rude, recv, consumed, looping, bio, pt, handled>>
      /\ Shape /\ LinkInv /\ OrderInv /\ HelloInv /\ LineInv /\ PoliteInv
  BY DEF StreamsInv, readSide
<1>2. Shape'
  <2>1. sock' = "none" => link' = NewLink /\ wire' = <<>> /\ recv' = <<>> /\ bio' = <<>> /\ pt' = <<>>
    BY <1>1 DEF Shape
  <2>2. ~looping'
    BY <1>1
  <2> QED
    BY <1>1, <2>1, <2>2 DEF Shape, NewLink
<1>3. LinkInv'
  <2>1. link'.ssl = "none" <=> ~tls' \/ sock' = "none"
    BY <1>1 DEF LinkInv
  <2>2. LinkOK(link)'
    BY DEF LinkOK, Links
  <2> QED
    BY <2>1, <2>2 DEF LinkInv
<1>4. OrderInv' /\ HelloInv' /\ PoliteInv'
  <2>1. Unread' = Unread
    BY <1>1 DEF Unread
  <2>2. Coming' = Coming
    BY <1>1, <2>1 DEF Coming
  <2>3. Taken(link') \in Nat /\ Taken(link) \in Nat
    <3>1. link \in Links /\ link' \in Links
      BY <1>1 DEF LinkInv, LinkOK
    <3>2. \A l \in Links : Taken(l) \in Nat
      BY LinkFields
    <3> QED
      BY <3>1, <3>2
  <2> QED
    BY <1>1, <2>2, <2>3, StreamStays
<1>5. LineInv'
  <2>1. SUFFICES ASSUME sock' # "none", ~link'.shutting
                 PROVE  /\ Newlines(pt)' = {} /\ (tls /\ ~looping => recv = <<>>)'
                        /\ (~tls => Newlines(recv) = {})'
    BY DEF LineInv
  <2>2. /\ Newlines(pt) = {} /\ (tls /\ ~looping => recv = <<>>)
        /\ (~tls => Newlines(recv) = {})
    BY <1>1, <2>1 DEF LineInv
  <2> QED
    BY <1>1, <2>2 DEF Newlines
<1> QED
  BY <1>2, <1>3, <1>4, <1>5 DEF StreamsInv

\* A link is given up, for what the pool does or does not send.
LEMMA GivenUpStep ==
  ASSUME StreamsInv, ~looping, UNCHANGED <<farSide, wire, readSide>>, sock # "none",
         sock' \in {"none", "reading", "deaf", "closing"}, sock' # "none",
         NEW cause \in Causes, GivenUp(link, link', cause),
         ~link.shutting /\ cause \in {"garbage", "tls"} => "haste" \in rude,
         ~link.shutting /\ cause = "full" => rude # {}
  PROVE  StreamsInv'
<1>1. LinkInv /\ PoliteInv /\ rude' = rude
  BY DEF StreamsInv, farSide
<1>2. PoliteIsUnderstood'
  BY <1>1, GivenUpIsUnderstood
<1>3. /\ LinkOK(link') /\ link'.shutting
      /\ link'.ssl = "none" <=> link.ssl = "none"
      /\ link'.ssl = "handshake" <=> link.ssl = "handshake"
      /\ link'.ssl = "handshake" => Taken(link') = Taken(link)
  BY DEF GivenUp
<1>4. link'.ssl = "handshake" => Taken(link') <= Taken(link)
  <2>1. link \in Links
    BY <1>1 DEF LinkInv, LinkOK
  <2>2. Taken(link) \in Nat
    BY <2>1, LinkFields
  <2> QED
    BY <1>3, <2>2
<1>5. /\ sock' = "none" <=> sock = "none"
      /\ sock = "none" => link' = link
      /\ ~link'.shutting => ~link.shutting
  BY <1>3
<1> QED
  BY <1>2, <1>3, <1>4, <1>5, LinkSteps DEF farSide

LEMMA EndOfStreamKeeps ==
  ASSUME StreamsInv, OnEndOfStream
  PROVE  StreamsInv'
<1>1. LinkOK(link) /\ "peer" \in Causes /\ link.shutting \in BOOLEAN
  BY LinkFields DEF StreamsInv, LinkInv, LinkOK, Causes
<1>2. GivenUp(link, link', "peer")
  <2>1. link' = NotifyError(link, "peer") \/ link' = DoShutdown(link, "peer")
    BY DEF OnEndOfStream
  <2> QED
    BY <1>1, <2>1, NotifyErrorIs, DoShutdownIs
<1>3. ~looping /\ UNCHANGED <<farSide, wire, readSide>> /\ sock = "reading" /\ sock' = "deaf"
  BY DEF OnEndOfStream
<1> QED
  BY <1>1, <1>2, <1>3, GivenUpStep

LEMMA TimeoutKeeps ==
  ASSUME StreamsInv, OnTimeout
  PROVE  StreamsInv'
<1>1. LinkOK(link) /\ "timeout" \in Causes
  BY DEF StreamsInv, LinkInv, Causes
<1>2. GivenUp(link, link', "timeout")
  BY <1>1, NotifyErrorIs DEF OnTimeout
<1>3. /\ ~looping /\ UNCHANGED <<farSide, wire, readSide>> /\ sock' = sock
      /\ link.pool = "connected"
  BY DEF OnTimeout
<1>4. sock # "none" /\ sock' \in {"none", "reading", "deaf", "closing"}
  BY <1>3 DEF StreamsInv, Shape, NewLink
<1> QED
  BY <1>1, <1>2, <1>3, <1>4, GivenUpStep

\* A full recv_buf is met when the pool has sent too much, or more than is handled.
LEMMA FullBufferKeeps ==
  ASSUME StreamsInv, OnFullBuffer
  PROVE  StreamsInv'
<1>1. /\ LinkOK(link) /\ "full" \in Causes /\ Shape /\ OrderInv /\ PoliteInv /\ LineInv
      /\ LinkInv
  BY DEF StreamsInv, LinkInv, Causes
<1>2. GivenUp(link, link', "full")
  BY <1>1, NotifyErrorIs DEF OnFullBuffer
<1>3. /\ ~looping /\ UNCHANGED <<farSide, wire, readSide>> /\ sock' = sock
      /\ sock = "reading" /\ Len(recv) = Cap /\ wire # <<>>
  BY DEF OnFullBuffer
<1>4. ASSUME ~link.shutting PROVE rude # {}
  <2>1. SUFFICES ASSUME rude = {} PROVE FALSE
    OBVIOUS
  <2>2. Cap \in Nat \ {0} /\ recv # <<>>
    BY <1>1, <1>3, StreamsAssumption DEF Shape
  <2>3. ~tls
    BY <1>1, <1>3, <1>4, <2>2 DEF LineInv
  <2>4. link.ssl # "handshake"
    BY <1>1, <2>3 DEF LinkInv
  <2>5. Len(Stream) <= Cap
    BY <1>1, <1>3, <1>4, <2>1, <2>4, PoliteMessage
  <2>6. consumed = 0 /\ bio = <<>> /\ pt = <<>> /\ wire \in Seq(Units)
    BY <1>1, <1>3, <2>3 DEF Shape
  <2>7. Coming \in Seq(Units) /\ Len(Coming) = Len(bio) + (Len(recv) - consumed) + Len(wire)
    BY <1>1, PartsAre
  <2>8. Stream = Coming
    BY <2>6, <2>7 DEF Stream
  <2>9. Len(wire) > 0 /\ Len(wire) \in Nat /\ Len(bio) = 0
    BY <1>3, <2>6
  <2> QED
    BY <1>3, <2>2, <2>5, <2>6, <2>7, <2>8, <2>9
<1> QED
  BY <1>1, <1>2, <1>3, <1>4, GivenUpStep

LEMMA FoundResultKeeps ==
  ASSUME StreamsInv, OnFoundResult
  PROVE  StreamsInv'
<1>1. LinkOK(link) /\ LinkInv /\ PoliteInv /\ Shape
  BY DEF StreamsInv, LinkInv
<1>2. /\ ~looping /\ UNCHANGED <<tls, sent, first, rude, wire, readSide>> /\ sock' = sock
      /\ link.pool = "has_job" /\ link' = Write(link)
  BY DEF OnFoundResult
<1>3. link.ssl # "handshake"
  BY <1>1, <1>2 DEF LinkOK
<1>4. /\ LinkOK(link') /\ link'.ssl = link.ssl /\ link'.shutting = link.shutting
      /\ link'.cause = link.cause
  <2>1. CASE link.ssl = "shut"
    <3>1. link.shutting /\ link \in Links
      BY <1>1, <2>1 DEF LinkOK
    <3>2. PICK m : m = [[link EXCEPT !.pool = "idle"] EXCEPT !.failed = "endless"]
      OBVIOUS
    <3>3. /\ m \in Links /\ m.ssl = link.ssl /\ m.pool = "idle" /\ m.shutting = link.shutting
          /\ m.cause = link.cause /\ m.failed = "endless"
      BY <3>1, <3>2 DEF Links
    <3>4. link' = m
      BY <1>2, <2>1, <3>1, <3>2 DEF Write, NotifyError, DoShutdown
    <3>5. LinkOK(m)
      BY <1>1, <3>3 DEF LinkOK
    <3> QED
      BY <3>3, <3>4, <3>5
  <2>2. CASE link.ssl # "shut"
    <3>1. link' = Send(link)
      BY <1>2, <2>2 DEF Write
    <3>2. PICK m : m = Send(link)
      OBVIOUS
    <3>3. LinkOK(m) /\ m.ssl = link.ssl /\ m.shutting = link.shutting /\ m.cause = link.cause
      BY <1>1, <3>2, SendKeeps
    <3> QED
      BY <3>1, <3>2, <3>3
  <2> QED
    BY <2>1, <2>2
<1>5. sock # "none" /\ sock' \in {"none", "reading", "deaf", "closing"}
  BY <1>1, <1>2 DEF Shape, NewLink
<1>6. PoliteIsUnderstood'
  BY <1>1, <1>2, <1>4 DEF PoliteInv, PoliteIsUnderstood
<1>7. link'.ssl # "handshake" /\ link.ssl # "handshake"
  BY <1>3, <1>4
<1> QED
  BY <1>2, <1>4, <1>5, <1>6, <1>7, LinkSteps

LEMMA WriteCompleteKeeps ==
  ASSUME StreamsInv, OnWriteComplete
  PROVE  StreamsInv'
<1>1. LinkOK(link) /\ LinkInv /\ PoliteInv /\ Shape
  BY DEF StreamsInv, LinkInv
<1>2. /\ ~looping /\ UNCHANGED <<tls, sent, first, rude, wire, readSide>> /\ sock' = sock
      /\ link.writes > 0 /\ link' = [link EXCEPT !.writes = @ - 1]
  BY DEF OnWriteComplete, farSide
<1>3. PICK m : m = link'
  OBVIOUS
<1>4. link \in Links /\ link.writes \in 0..NBufs /\ link.held \in 0..NBufs /\ NBufs \in Nat
  BY <1>1, LinkFields DEF LinkOK
<1>5. link.writes - 1 \in 0..NBufs
  BY <1>2, <1>4
<1>6. /\ m \in Links /\ m.writes = link.writes - 1 /\ m.ssl = link.ssl /\ m.pool = link.pool
      /\ m.shutting = link.shutting /\ m.cause = link.cause /\ m.failed = link.failed
      /\ m.held = link.held
  BY <1>2, <1>3, <1>4, <1>5 DEF Links
<1>7. Taken(m) <= Taken(link)
  BY <1>4, <1>6 DEF Taken
<1>8. LinkOK(m)
  BY <1>1, <1>6 DEF LinkOK
<1>9. sock # "none" /\ sock' \in {"none", "reading", "deaf", "closing"}
  <2>1. NewLink.writes = 0
    BY DEF NewLink
  <2> QED
    BY <1>1, <1>2, <2>1 DEF Shape
<1>10. PoliteIsUnderstood'
  BY <1>1, <1>2, <1>3, <1>6 DEF PoliteInv, PoliteIsUnderstood
<1>11. sock' = "none" <=> sock = "none"
  BY <1>2
<1> QED
  BY <1>2, <1>3, <1>6, <1>7, <1>8, <1>9, <1>10, <1>11, LinkSteps

LEMMA ShutdownKeeps ==
  ASSUME StreamsInv, OnShutdown
  PROVE  StreamsInv'
<1>1. LinkOK(link) /\ LinkInv /\ PoliteInv
  BY DEF StreamsInv, LinkInv
<1>2. /\ ~looping /\ UNCHANGED <<farSide, wire, readSide, link>> /\ sock' = "closing"
      /\ sock \in {"reading", "deaf"}
  BY DEF OnShutdown
<1>3. PoliteIsUnderstood'
  <2>1. rude' = rude
    BY <1>2 DEF farSide
  <2> QED
    BY <1>1, <1>2, <2>1 DEF PoliteInv, PoliteIsUnderstood
<1>4. Taken(link) <= Taken(link)
  BY <1>1, LinkFields DEF LinkOK
<1> QED
  BY <1>1, <1>2, <1>3, <1>4, LinkSteps DEF farSide

LEMMA NewLinkIs == LinkOK(NewLink) /\ NewLink.ssl = "none" /\ NewLink.cause = "none"
<1>1. 0 \in 0..NBufs
  BY StreamsAssumption
<1> QED
  BY <1>1 DEF LinkOK, NewLink, Links

LEMMA HelloIs ==
  /\ Hello \in Seq(Units) /\ Hello # <<>> /\ Len(Hello) = HelloSize /\ HelloSize <= BioCap
  /\ HelloSize \in Nat \ {0} /\ BioCap \in Nat
  /\ \A i \in 1..HelloSize : Hello[i].seal <=> i = HelloSize
<1>1. HelloSize \in Nat \ {0} /\ BioCap \in Nat /\ HelloSize <= BioCap /\ MaxMsgs \in Nat
  BY StreamsAssumption
<1>2. \A i \in 1..HelloSize : Unit(0, i, HelloSize, i = HelloSize) \in Units
  BY <1>1 DEF Unit, Units
<1>3. Hello \in [1..HelloSize -> Units]
  BY <1>2 DEF Hello
<1>4. Hello \in Seq(Units) /\ Len(Hello) = HelloSize
  BY <1>1, <1>3
<1>5. \A i \in 1..HelloSize : Hello[i].seal <=> i = HelloSize
  BY DEF Hello, Unit
<1> QED
  BY <1>1, <1>4, <1>5

LEMMA CloseKeeps ==
  ASSUME StreamsInv, OnClose
  PROVE  StreamsInv'
<1>1. /\ UNCHANGED <<tls, sent, first, rude, consumed, looping, handled>> /\ ~looping
      /\ sock = "closing" /\ sock' = "none" /\ link' = NewLink
      /\ wire' = <<>> /\ recv' = <<>> /\ bio' = <<>> /\ pt' = <<>>
  BY DEF OnClose, farSide
<1>2. /\ Shape /\ LinkInv /\ OrderInv /\ PoliteInv
      /\ Cap \in Nat /\ BioCap \in Nat
  BY StreamsAssumption DEF StreamsInv
<1>3. Shape'
  <2>1. consumed' = 0 /\ looping' \in BOOLEAN /\ ~looping' /\ tls' \in BOOLEAN
    BY <1>1, <1>2 DEF Shape
  <2>2. <<>> \in Seq(Units) /\ Len(<<>>) = 0
    OBVIOUS
  <2> QED
    BY <1>1, <1>2, <2>1, <2>2 DEF Shape, NewLink
<1>4. LinkInv'
  <2>1. LinkOK(link)' /\ link'.ssl = "none"
    BY <1>1, NewLinkIs DEF LinkOK, Links
  <2> QED
    BY <1>1, <2>1 DEF LinkInv
<1>5. OrderInv'
  <2>1. HandledInOrder'
    BY <1>1, <1>2 DEF OrderInv, HandledInOrder
  <2> QED
    BY <1>1, <1>2, <2>1 DEF OrderInv
<1>6. HelloInv' /\ LineInv'
  BY <1>1, NewLinkIs DEF HelloInv, LineInv
<1>7. PoliteInv'
  <2>1. PoliteIsUnderstood'
    BY <1>1, NewLinkIs DEF PoliteIsUnderstood
  <2> QED
    BY <1>1, <1>2, <2>1 DEF PoliteInv
<1> QED
  BY <1>3, <1>4, <1>5, <1>6, <1>7 DEF StreamsInv

\* Of a connection that comes up nothing is under way but the server's handshake.
LEMMA ConnectKeeps ==
  ASSUME StreamsInv, OnConnect
  PROVE  StreamsInv'
<1>1. /\ UNCHANGED <<tls, sent, recv, consumed, looping, bio, pt>>
      /\ sock = "none" /\ sock' = "reading" /\ first' = sent /\ handled' = <<>> /\ rude' = {}
  BY DEF OnConnect
<1>2. /\ Shape /\ LinkInv /\ OrderInv /\ PoliteInv /\ tls \in BOOLEAN
      /\ Cap \in Nat /\ BioCap \in Nat /\ MaxMsgs \in Nat /\ sent \in 0..MaxMsgs
  BY StreamsAssumption DEF StreamsInv, Shape, OrderInv
<1>3. /\ link = NewLink /\ wire = <<>> /\ recv = <<>> /\ bio = <<>> /\ pt = <<>>
      /\ consumed = 0 /\ ~looping
  BY <1>1, <1>2 DEF Shape
<1>4. /\ link' \in Links /\ LinkOK(link)' /\ ~link'.shutting /\ link'.cause = "none"
      /\ IF tls THEN link'.ssl = "handshake" /\ Taken(link') = 1 /\ wire' = Hello
                ELSE link'.ssl = "none" /\ wire' = <<>>
  <2>1. NewLink \in Links /\ NBufs \in Nat /\ NBufs >= 4
    BY NewLinkIs, StreamsAssumption DEF LinkOK
  <2>2. /\ NewLink.ssl = "none" /\ NewLink.pool = "idle" /\ NewLink.shutting = FALSE
        /\ NewLink.cause = "none" /\ NewLink.failed = "none" /\ Taken(NewLink) = 0
    BY DEF NewLink, Taken
  <2>3. CASE tls
    <3>1. PICK m : m = Send(NewLink)
      OBVIOUS
    <3>2. /\ m \in Links /\ Taken(m) = 1 /\ m.shutting = FALSE /\ m.cause = "none"
          /\ m.failed = "none"
      BY <2>1, <2>2, <3>1, SendIs
    <3>3. PICK n : n = [m EXCEPT !.ssl = "handshake", !.pool = "connecting"]
      OBVIOUS
    <3>4. link' = n /\ wire' = Hello
      BY <1>3, <2>2, <2>3, <3>1, <3>3 DEF OnConnect
    <3>5. /\ n \in Links /\ n.writes = m.writes /\ n.held = m.held /\ n.shutting = FALSE /\ n.cause = "none"
          /\ n.failed = "none" /\ n.ssl = "handshake" /\ n.pool = "connecting"
      BY <3>2, <3>3 DEF Links
    <3>6. LinkOK(n)
      BY <3>5 DEF LinkOK
    <3>7. LinkOK(link)'
      BY <3>4, <3>6 DEF LinkOK, Links
    <3>8. Taken(link') = 1
      BY <3>2, <3>4, <3>5 DEF Taken
    <3> QED
      BY <2>3, <3>4, <3>5, <3>7, <3>8
  <2>4. CASE ~tls
    <3>1. link' = LogIn(NewLink) /\ wire' = <<>>
      BY <1>3, <2>4 DEF OnConnect
    <3>2. LinkOK(NewLink) /\ NewLink.ssl \in {"none", "up"}
      BY <2>1, <2>2, NewLinkIs
    <3>3. PICK m : m = LogIn(NewLink)
      OBVIOUS
    <3>4. LinkOK(m) /\ m.ssl = "none" /\ m.shutting = FALSE /\ m.cause = "none"
      BY <2>2, <3>2, <3>3, LogInIs
    <3>5. m \in Links /\ LinkOK(link)'
      BY <3>1, <3>3, <3>4 DEF LinkOK, Links
    <3> QED
      BY <2>4, <3>1, <3>3, <3>4, <3>5
  <2> QED
    BY <1>2, <2>3, <2>4
<1>5. wire' \in Seq(Units) /\ wire' \in {<<>>, Hello}
  <2>1. <<>> \in Seq(Units) /\ Hello \in Seq(Units)
    BY HelloIs
  <2> QED
    BY <1>2, <1>4, <2>1
<1>6. Coming' = wire' /\ Stream' = wire'
  <2>1. PICK w \in Seq(Units) : w = wire'
    BY <1>5
  <2>2. Unread' = <<>>
    BY <1>1, <1>3 DEF Unread
  <2>3. <<>> \o w = w
    OBVIOUS
  <2>4. Coming' = <<>> \o (<<>> \o w)
    BY <1>1, <1>3, <2>1, <2>2 DEF Coming
  <2> QED
    BY <1>1, <1>3, <2>1, <2>3, <2>4 DEF Stream
<1>7. Shape'
  <2>1. <<>> \in Seq(Units) /\ Len(<<>>) = 0
    OBVIOUS
  <2> QED
    BY <1>1, <1>2, <1>3, <1>5, <2>1 DEF Shape
<1>8. LinkInv'
  BY <1>1, <1>2, <1>4 DEF LinkInv
<1>9. OrderInv'
  <2>1. HandledInOrder'
    BY <1>1 DEF HandledInOrder
  <2>2. Len(<<>>) = 0 /\ <<>> \in Seq(1..MaxMsgs) /\ sent \in Nat /\ sent + 0 = sent
    BY <1>2
  <2>3. Flow(<<>>, sent, sent)
    BY DEF Flow
  <2>4. (sock # "none" /\ link.ssl # "handshake" => Flow(Stream, first + Len(handled), sent))'
    <3>1. SUFFICES ASSUME link'.ssl # "handshake"
                   PROVE  Flow(Stream', first' + Len(handled'), sent')
      BY DEF Flow, Linked
    <3>2. Stream' = <<>>
      BY <1>2, <1>4, <1>6, <3>1
    <3> QED
      BY <1>1, <2>2, <2>3, <3>2
  <2>5. sent' \in 0..MaxMsgs /\ first' \in 0..sent' /\ handled' \in Seq(1..MaxMsgs)
        /\ first' + Len(handled') <= sent'
    BY <1>1, <1>2, <2>2
  <2> QED
    BY <2>1, <2>4, <2>5 DEF OrderInv
<1>10. HelloInv'
  <2>1. SUFFICES ASSUME link'.ssl = "handshake"
                 PROVE  /\ pt' = <<>> /\ handled' = <<>> /\ sent' = first'
                        /\ Coming' \in {<<>>, Hello} /\ Taken(link') <= 1
    BY DEF HelloInv, Hello
  <2>2. Taken(link') = 1
    BY <1>2, <1>4, <2>1
  <2> QED
    BY <1>1, <1>3, <1>5, <1>6, <2>2
<1>11. LineInv'
  BY <1>1, <1>3 DEF LineInv, Newlines
<1>12. PoliteInv'
  <2>1. PoliteIsUnderstood'
    BY <1>4 DEF PoliteIsUnderstood
  <2>2. "haste" \notin rude => sent' <= first' + Len(handled') + 1
    BY <1>1, <1>2
  <2>3. (sock # "none" /\ ~link.shutting /\ link.ssl # "handshake" =>
           \A i \in 1..Len(Stream) :
             Stream[i].msg # Junk /\ ("length" \notin rude => Stream[i].size <= Cap))'
    <3>1. SUFFICES ASSUME link'.ssl # "handshake" PROVE Stream' = <<>>
      OBVIOUS
    <3> QED
      BY <1>2, <1>4, <1>6, <3>1
  <2>4. sent' <= first' + Len(handled') + 1 /\ rude' \subseteq {"haste", "length"}
    BY <1>1, <1>2
  <2> QED
    BY <2>1, <2>3, <2>4 DEF PoliteInv
<1> QED
  BY <1>7, <1>8, <1>9, <1>10, <1>11, <1>12 DEF StreamsInv

\* The pool sends the messages after those it has sent.
LEMMA PoolSendsKeeps ==
  ASSUME StreamsInv, PoolSends
  PROVE  StreamsInv'
<1>1. PICK n \in 1..2 : \E sizes \in [1..n -> Sizes] : \E cut \in 0..(sizes[1] - 1) :
        /\ sock = "reading" /\ ~looping
        /\ tls => link.ssl \in {"up", "shut"}
        /\ sent + n <= MaxMsgs
        /\ wire' = wire \o Records(sizes, cut)
        /\ sent' = sent + n
        /\ rude' = rude \cup (IF n = 2 \/ Len(handled) < sent - first THEN {"haste"} ELSE {})
                        \cup (IF \E k \in 1..n : sizes[k] > Cap THEN {"length"} ELSE {})
        /\ UNCHANGED <<tls, sock, first, readSide, link>>
  BY DEF PoolSends
<1>2. PICK sizes \in [1..n -> Sizes] : \E cut \in 0..(sizes[1] - 1) :
        /\ sock = "reading" /\ ~looping
        /\ tls => link.ssl \in {"up", "shut"}
        /\ sent + n <= MaxMsgs
        /\ wire' = wire \o Records(sizes, cut)
        /\ sent' = sent + n
        /\ rude' = rude \cup (IF n = 2 \/ Len(handled) < sent - first THEN {"haste"} ELSE {})
                        \cup (IF \E k \in 1..n : sizes[k] > Cap THEN {"length"} ELSE {})
        /\ UNCHANGED <<tls, sock, first, readSide, link>>
  BY <1>1
<1>3. PICK cut \in 0..(sizes[1] - 1) : wire' = wire \o Records(sizes, cut)
  BY <1>2
<1>4. /\ sock = "reading" /\ ~looping /\ (tls => link.ssl \in {"up", "shut"})
      /\ sent + n <= MaxMsgs /\ sent' = sent + n
      /\ rude' = rude \cup (IF n = 2 \/ Len(handled) < sent - first THEN {"haste"} ELSE {})
                      \cup (IF \E k \in 1..n : sizes[k] > Cap THEN {"length"} ELSE {})
      /\ UNCHANGED <<tls, sock, first, recv, consumed, looping, bio, pt, handled, link>>
  BY <1>2 DEF readSide
<1>5. /\ Shape /\ LinkInv /\ OrderInv /\ HelloInv /\ LineInv /\ PoliteInv
      /\ MaxMsgs \in Nat /\ sent \in Nat /\ first \in 0..sent /\ Len(handled) \in Nat
  BY StreamsAssumption DEF StreamsInv, OrderInv
<1>6. link.ssl # "handshake"
  BY <1>4, <1>5 DEF LinkInv
<1>7. PICK r : r = Records(sizes, cut)
  OBVIOUS
<1>8. /\ r \in Seq(Units) /\ r # <<>> /\ Flow(r, sent, sent + n)
      /\ \A i \in 1..Len(r) : r[i].msg # Junk /\ \E k \in 1..n : r[i].size = sizes[k]
  <2>1. cut \in Nat
    OBVIOUS
  <2> QED
    BY <1>4, <1>5, <1>7, <2>1, RecordsFlow
<1>9. wire \in Seq(Units) /\ wire' = wire \o r
  BY <1>3, <1>5, <1>7 DEF Shape
<1>10. wire' \in Seq(Units)
  BY <1>8, <1>9, JoinIs
<1>11. Unread' = Unread /\ Unread \in Seq(Units) /\ bio \in Seq(Units) /\ pt \in Seq(Units)
       /\ Stream \in Seq(Units) /\ Coming \in Seq(Units)
  BY <1>4, <1>5, PartsAre DEF Unread, Shape
<1>12. Stream' = Stream \o r
  <2>1. PICK u \in Seq(Units) : u = Unread
    BY <1>11
  <2>2. PICK v \in Seq(Units) : v = u \o wire
    <3>1. u \o wire \in Seq(Units)
      BY <1>9, JoinIs
    <3> QED
      BY <3>1
  <2>3. u \o (wire \o r) = v \o r
    <3>1. IsData(u) /\ IsData(wire) /\ IsData(r)
      BY <1>8, <1>9 DEF IsData
    <3>2. Regroups(u, wire, r)
      BY <3>1, Regroup, Zenon
    <3> QED
      BY <2>2, <3>2, Zenon DEF Regroups
  <2>4. bio \o (v \o r) = (bio \o v) \o r
    <3>1. IsData(bio) /\ IsData(v) /\ IsData(r)
      BY <1>8, <1>11 DEF IsData
    <3>2. Regroups(bio, v, r)
      BY <3>1, Regroup, Zenon
    <3> QED
      BY <3>2, Zenon DEF Regroups
  <2>5. PICK c \in Seq(Units) : c = bio \o v
    BY <1>11, <2>1, <2>2 DEF Coming
  <2>6. pt \o (c \o r) = (pt \o c) \o r
    <3>1. IsData(pt) /\ IsData(c) /\ IsData(r)
      BY <1>8, <1>11 DEF IsData
    <3>2. Regroups(pt, c, r)
      BY <3>1, Regroup, Zenon
    <3> QED
      BY <3>2, Zenon DEF Regroups
  <2>7. Coming = c
    BY <2>1, <2>2, <2>5 DEF Coming
  <2>8. Coming' = bio \o (u \o (wire \o r))
    BY <1>4, <1>9, <1>11, <2>1 DEF Coming
  <2> QED
    BY <1>4, <2>3, <2>4, <2>5, <2>6, <2>7, <2>8 DEF Stream
<1>13. Shape'
  BY <1>4, <1>5, <1>10 DEF Shape
<1>14. LinkInv'
  <2>1. LinkOK(link)'
    BY <1>4, <1>5 DEF LinkInv, LinkOK, Links
  <2> QED
    BY <1>4, <1>5, <2>1 DEF LinkInv
<1>15. PICK s \in Seq(Units) : s = Stream
  BY <1>11
<1>16. PICK lo \in Nat : lo = first + Len(handled)
  BY <1>5
<1>17. OrderInv'
  <2>1. HandledInOrder'
    BY <1>4, <1>5 DEF OrderInv, HandledInOrder
  <2>2. Flow(s, lo, sent)
    BY <1>4, <1>5, <1>6, <1>15, <1>16 DEF OrderInv
  <2>3. PICK hi \in Nat : hi = sent + n
    BY <1>5
  <2>4. Flow(s \o r, lo, hi)
    <3>1. sent <= hi /\ Flow(r, sent, hi)
      BY <1>5, <1>8, <2>3
    <3> QED
      BY <1>5, <1>8, <2>2, <3>1, FlowAppend
  <2>5. (sock # "none" /\ link.ssl # "handshake" => Flow(Stream, first + Len(handled), sent))'
    BY <1>4, <1>12, <1>15, <1>16, <2>3, <2>4
  <2>6. sent' \in 0..MaxMsgs /\ first' \in 0..sent' /\ first' + Len(handled') <= sent'
    <3>1. first + Len(handled) <= sent
      BY <1>5 DEF OrderInv
    <3> QED
      BY <1>4, <1>5, <3>1
  <2>7. handled' \in Seq(1..MaxMsgs)
    BY <1>4, <1>5 DEF OrderInv
  <2> QED
    BY <2>1, <2>5, <2>6, <2>7 DEF OrderInv
<1>18. HelloInv'
  BY <1>4, <1>6 DEF HelloInv
<1>19. LineInv'
  BY <1>4, <1>5 DEF LineInv, Newlines
<1>20. PoliteInv'
  <2>1. rude \subseteq rude' /\ rude' \subseteq {"haste", "length"}
    BY <1>4, <1>5 DEF PoliteInv
  <2>2. PoliteIsUnderstood'
    BY <1>4, <1>5, <2>1 DEF PoliteInv, PoliteIsUnderstood
  <2>3. "haste" \notin rude' => sent' <= first' + Len(handled') + 1
    <3>1. SUFFICES ASSUME "haste" \notin rude' PROVE sent + n <= first + Len(handled) + 1
      BY <1>4
    <3>2. n # 2 /\ ~(Len(handled) < sent - first)
      BY <1>4, <3>1
    <3> QED
      BY <1>5, <3>2
  <2>4. ASSUME ~link.shutting, NEW i \in 1..Len(s \o r)
        PROVE  (s \o r)[i].msg # Junk /\ ("length" \notin rude' => (s \o r)[i].size <= Cap)
    <3>1. \A j \in 1..Len(s) : s[j].msg # Junk /\ ("length" \notin rude => s[j].size <= Cap)
      BY <1>4, <1>5, <1>6, <1>15, <2>4 DEF PoliteInv
    <3>2. \A j \in 1..Len(r) : r[j].msg # Junk /\ ("length" \notin rude' => r[j].size <= Cap)
      <4>1. SUFFICES ASSUME NEW j \in 1..Len(r), "length" \notin rude' PROVE r[j].size <= Cap
        BY <1>8
      <4>2. PICK k \in 1..n : r[j].size = sizes[k]
        BY <1>8
      <4>3. ~(sizes[k] > Cap)
        BY <1>4, <4>1
      <4>4. sizes[k] \in Nat /\ Cap \in Nat
        <5>1. \A x \in Sizes : x \in Nat
          BY StreamsAssumption
        <5>2. sizes[k] \in Sizes
          OBVIOUS
        <5> QED
          BY <5>1, <5>2, StreamsAssumption
      <4> QED
        BY <4>2, <4>3, <4>4
    <3>3. /\ Len(s \o r) = Len(s) + Len(r) /\ Len(s) \in Nat /\ Len(r) \in Nat
          /\ \A j \in 1..Len(s) : (s \o r)[j] = s[j]
          /\ \A j \in 1..Len(r) : (s \o r)[Len(s) + j] = r[j]
      BY <1>8, JoinIs
    <3>4. CASE i <= Len(s)
      <4>1. i \in 1..Len(s)
        BY <3>3, <3>4
      <4> QED
        BY <2>1, <3>1, <3>3, <4>1
    <3>5. CASE i > Len(s)
      <4>1. PICK j \in 1..Len(r) : i = Len(s) + j
        <5>1. i - Len(s) \in 1..Len(r) /\ i = Len(s) + (i - Len(s))
          BY <3>3, <3>5
        <5> QED
          BY <5>1
      <4>2. (s \o r)[i] = r[j]
        BY <3>3, <4>1
      <4> QED
        BY <3>2, <4>2
    <3>6. i <= Len(s) \/ i > Len(s)
      BY <3>3
    <3> QED
      BY <3>4, <3>5, <3>6
  <2>5. (sock # "none" /\ ~link.shutting /\ link.ssl # "handshake" =>
           \A i \in 1..Len(Stream) :
             Stream[i].msg # Junk /\ ("length" \notin rude => Stream[i].size <= Cap))'
    <3>1. PICK t : t = s \o r
      OBVIOUS
    <3>2. Stream' = t
      BY <1>12, <1>15, <3>1
    <3>3. ASSUME ~link.shutting
          PROVE \A i \in 1..Len(t) : t[i].msg # Junk /\ ("length" \notin rude' => t[i].size <= Cap)
      BY <2>4, <3>1, <3>3
    <3> QED
      BY <1>4, <3>2, <3>3
  <2> QED
    BY <2>1, <2>2, <2>3, <2>5 DEF PoliteInv
<1> QED
  BY <1>13, <1>14, <1>17, <1>18, <1>19, <1>20 DEF StreamsInv
------------------------------------------------------------------------------
(* The steps that read. *)

\* The messages after the first f, in order; one more is the next.
InOrder(h, f) == h = [i \in 1..Len(h) |-> f + i]

LEMMA NextInOrder ==
  ASSUME NEW h \in Seq(1..MaxMsgs), NEW f \in Nat, InOrder(h, f),
         NEW x \in 1..MaxMsgs, x = f + Len(h) + 1
  PROVE  h \o <<x>> \in Seq(1..MaxMsgs) /\ Len(h \o <<x>>) = Len(h) + 1 /\ InOrder(h \o <<x>>, f)
<1>1. PICK g : g = h \o <<x>>
  OBVIOUS
<1>2. <<x>> \in Seq(1..MaxMsgs) /\ Len(<<x>>) = 1 /\ <<x>>[1] = x
  OBVIOUS
<1>3. PICK t : t = <<x>>
  OBVIOUS
<1>4. t \in Seq(1..MaxMsgs) /\ Len(t) = 1 /\ t[1] = x /\ g = h \o t
  BY <1>1, <1>2, <1>3
<1>5. /\ g \in Seq(1..MaxMsgs) /\ Len(g) = Len(h) + 1 /\ Len(h) \in Nat
      /\ \A i \in 1..Len(h) : g[i] = h[i]
      /\ g[Len(h) + 1] = x
  <2>1. t \in Seq(1..MaxMsgs)
    BY <1>4
  <2>2. /\ h \o t \in Seq(1..MaxMsgs) /\ Len(h \o t) = Len(h) + Len(t)
        /\ \A i \in 1..Len(h) : (h \o t)[i] = h[i]
        /\ \A i \in 1..Len(t) : (h \o t)[Len(h) + i] = t[i]
    BY <2>1, JoinIs
  <2>3. (h \o t)[Len(h) + 1] = t[1]
    BY <1>4, <2>2
  <2> QED
    BY <1>4, <2>2, <2>3
<1>6. ASSUME NEW i \in 1..Len(g) PROVE g[i] = f + i
  <2>1. CASE i <= Len(h)
    <3>1. i \in 1..Len(h)
      BY <1>5, <2>1
    <3>2. g[i] = h[i] /\ h[i] = f + i
      BY <1>5, <3>1 DEF InOrder
    <3> QED
      BY <3>2
  <2>2. CASE ~(i <= Len(h))
    <3>1. i = Len(h) + 1
      BY <1>5, <2>2
    <3>2. x = f + i
      BY <1>5, <3>1
    <3> QED
      BY <1>5, <3>1, <3>2
  <2> QED
    BY <2>1, <2>2
<1>7. g = [i \in 1..Len(g) |-> f + i]
  <2>1. DOMAIN g = 1..Len(g)
    BY <1>5
  <2>2. g = [i \in DOMAIN g |-> g[i]]
    BY <1>5
  <2> QED
    BY <1>6, <2>1, <2>2
<1> QED
  BY <1>1, <1>5, <1>7 DEF InOrder

\* Nothing of s is spoilt, nor too long when the pool keeps to what fits.
Sound(s) == \A i \in 1..Len(s) : s[i].msg # Junk /\ ("length" \notin rude => s[i].size <= Cap)

\* A buffer is consumed: the rest of it, with what comes after it, is what is then under
\* way, and only a pool in haste makes garbage of a link in use.
LEMMA AfterConsume ==
  ASSUME StreamsInv, sock # "none", link.ssl # "handshake",
         NEW buf \in Seq(Units), NEW w \in Seq(Units), Stream = buf \o w,
         NEW answer, NEW accepted \in BOOLEAN, NEW c, c = Consume(buf, accepted),
         handled' = handled \o c.message, link' = AfterLine(link, c.verdict, answer),
         UNCHANGED <<sent, first, rude>>
  PROVE  /\ c.rest \in Seq(Units) /\ Len(c.rest) <= Len(buf)
         /\ handled' \in Seq(1..MaxMsgs) /\ HandledInOrder'
         /\ Len(handled) <= Len(handled') /\ first + Len(handled') <= sent
         /\ Flow(c.rest \o w, first + Len(handled'), sent)
         /\ LinkOK(link') /\ link'.ssl # "handshake"
         /\ link'.ssl = "none" <=> link.ssl = "none"
         /\ PoliteIsUnderstood'
         /\ c.verdict \in {"garbage", "refused"} => link'.shutting
         /\ ~link'.shutting =>
              /\ Newlines(c.rest) = {} /\ c.verdict \notin {"garbage", "refused"}
              /\ ~link.shutting /\ Sound(c.rest \o w)
<1>1. Shape /\ LinkInv /\ OrderInv /\ PoliteInv /\ LinkOK(link)
  BY DEF StreamsInv, LinkInv
<1>2. PICK s \in Seq(Units) : s = buf \o w
  BY JoinIs
<1>3. PICK lo \in Nat : lo = first + Len(handled)
  <2>1. first \in Nat /\ Len(handled) \in Nat
    BY <1>1, StreamsAssumption DEF OrderInv
  <2> QED
    BY <2>1
<1>4. PICK hi \in Nat : hi = sent
  BY <1>1, StreamsAssumption DEF OrderInv
<1>5. Flow(buf \o w, lo, hi) /\ lo <= hi /\ hi <= MaxMsgs /\ MaxMsgs \in Nat
  BY <1>1, <1>3, <1>4, StreamsAssumption DEF OrderInv
<1>6. Consumed(buf, w, lo, hi, accepted, c)
  BY <1>5, ConsumeKeepsFlow
<1>7. handled \in Seq(1..MaxMsgs) /\ HandledInOrder /\ Len(handled) \in Nat /\ first \in Nat
  BY <1>1, StreamsAssumption DEF OrderInv
<1>8. c.rest \in Seq(Units) /\ Len(c.rest) <= Len(buf) /\ Len(c.rest) \in Nat
  BY <1>6 DEF Consumed
<1>9. PICK v : v = c.verdict
  OBVIOUS
<1>10. v \in {"none", "garbage", "handled", "refused"}
  BY <1>6, <1>9 DEF Consumed
<1>11. /\ handled' \in Seq(1..MaxMsgs) /\ HandledInOrder'
       /\ Len(handled) <= Len(handled') /\ first + Len(handled') <= sent
       /\ Flow(c.rest \o w, first + Len(handled'), sent)
  <2>1. CASE c.message = <<>> /\ Flow(c.rest \o w, lo, hi)
    <3>1. handled' = handled
      BY <1>7, <2>1
    <3> QED
      BY <1>1, <1>3, <1>4, <1>5, <1>7, <2>1, <3>1 DEF HandledInOrder
  <2>2. CASE c.message = <<lo + 1>> /\ lo + 1 <= hi /\ Flow(c.rest \o w, lo + 1, hi)
    <3>1. PICK g : g = handled'
      OBVIOUS
    <3>2. PICK h : h = handled
      OBVIOUS
    <3>3. h \in Seq(1..MaxMsgs) /\ Len(h) \in Nat /\ first + Len(h) + 1 = lo + 1
          /\ first + Len(h) + 1 <= MaxMsgs
      BY <1>3, <1>5, <1>7, <2>2, <3>2
    <3>4. InOrder(h, first)
      BY <1>7, <3>2 DEF HandledInOrder, InOrder
    <3>5. PICK x \in 1..MaxMsgs : x = first + Len(h) + 1 /\ g = h \o <<x>>
      <4>1. first + Len(h) + 1 \in 1..MaxMsgs
        BY <1>5, <1>7, <3>3
      <4>2. g = h \o <<first + Len(h) + 1>>
        BY <2>2, <3>1, <3>2, <3>3
      <4> QED
        BY <4>1, <4>2
    <3>6. g \in Seq(1..MaxMsgs) /\ Len(g) = Len(h) + 1 /\ InOrder(g, first)
      BY <1>7, <3>3, <3>4, <3>5, NextInOrder
    <3>7. HandledInOrder'
      BY <3>1, <3>6 DEF HandledInOrder, InOrder
    <3>8. first + Len(g) = lo + 1 /\ Len(h) <= Len(g)
      BY <1>7, <3>3, <3>6
    <3>9. first + Len(g) <= sent /\ Flow(c.rest \o w, first + Len(g), sent)
      BY <1>4, <2>2, <3>8
    <3> QED
      BY <3>1, <3>2, <3>6, <3>7, <3>8, <3>9
  <2> QED
    BY <1>5, <1>6, <2>1, <2>2 DEF Consumed
<1>12. /\ LinkOK(link')
       /\ v \in {"garbage", "refused"} => GivenUp(link, link', v)
       /\ v \in {"none", "handled"} => /\ link'.ssl = link.ssl /\ link'.shutting = link.shutting
                                       /\ link'.cause = link.cause
  <2>1. PICK m : m = AfterLine(link, v, answer)
    OBVIOUS
  <2>2. /\ LinkOK(m)
        /\ v \in {"garbage", "refused"} => GivenUp(link, m, v)
        /\ v \in {"none", "handled"} => /\ m.ssl = link.ssl /\ m.shutting = link.shutting
                                        /\ m.cause = link.cause
    BY <1>1, <1>10, <2>1, AfterLineIs
  <2>3. link' = m
    BY <1>9, <2>1
  <2> QED
    BY <2>2, <2>3
<1>13. /\ link'.ssl # "handshake"
       /\ link'.ssl = "none" <=> link.ssl = "none"
       /\ v \in {"garbage", "refused"} => link'.shutting
       /\ v \in {"none", "handled"} => link'.shutting = link.shutting
  BY <1>10, <1>12 DEF GivenUp
<1>14. ASSUME v = "garbage", ~link.shutting PROVE "haste" \in rude
  <2>1. SUFFICES ASSUME "haste" \notin rude PROVE FALSE
    OBVIOUS
  <2>2. \A i \in 1..Len(s) : /\ s[i].msg = lo + 1 /\ s[i].at = i /\ s[i].size = Len(s)
                             /\ s[i].msg # Junk
    BY <1>1, <1>2, <1>3, <1>14, <2>1, PoliteMessage
  <2>3. Newlines(buf) # {} /\ ~IsMessage(SubSeq(buf, 1, Max(Newlines(buf))))
    BY <1>6, <1>9, <1>14 DEF Consumed
  <2>4. PICK end : end = Max(Newlines(buf))
    OBVIOUS
  <2>5. end \in 1..Len(buf) /\ buf[end].at = buf[end].size
    BY <2>3, <2>4, LastNewline
  <2>6. /\ Len(s) = Len(buf) + Len(w) /\ Len(buf) \in Nat /\ Len(w) \in Nat
        /\ \A i \in 1..Len(buf) : s[i] = buf[i]
    BY <1>2, JoinIs
  <2>7. end = Len(s)
    <3>1. end \in 1..Len(s)
      BY <2>5, <2>6
    <3>2. s[end].at = end /\ s[end].size = Len(s) /\ s[end] = buf[end]
      BY <2>2, <2>5, <2>6, <3>1
    <3> QED
      BY <2>5, <3>2
  <2>8. PICK line : line = SubSeq(buf, 1, end)
    OBVIOUS
  <2>9. line \in Seq(Units) /\ Len(line) = end /\ \A i \in 1..end : line[i] = buf[i]
    <3>1. end \in 0..Len(buf)
      BY <2>5
    <3> QED
      BY <2>8, <3>1, FrontIs
  <2>10. DOMAIN line = 1..end
    BY <2>9
  <2>11. ASSUME NEW i \in 1..end
         PROVE  line[i].msg = lo + 1 /\ line[i].at = i /\ line[i].size = end /\ line[i].msg # Junk
    <3>1. i \in 1..Len(s) /\ i \in 1..Len(buf)
      BY <2>5, <2>6
    <3>2. line[i] = s[i]
      BY <2>6, <2>9, <3>1
    <3> QED
      BY <2>2, <2>7, <3>1, <3>2
  <2>12. 1 \in 1..end
    BY <2>5
  <2>13. IsMessage(line)
    BY <2>9, <2>10, <2>11, <2>12 DEF IsMessage
  <2> QED
    BY <2>3, <2>4, <2>8, <2>13
<1>15. PoliteIsUnderstood'
  <2>1. CASE v \in {"garbage", "refused"}
    <3>1. v \in Causes
      BY <2>1 DEF Causes
    <3>2. GivenUp(link, link', v) /\ rude' = rude
      BY <1>12, <2>1
    <3>3. /\ ~link.shutting /\ v \in {"garbage", "tls"} => "haste" \in rude
          /\ ~link.shutting /\ v = "full" => rude # {}
      BY <1>14, <2>1
    <3> QED
      BY <1>1, <3>1, <3>2, <3>3, GivenUpIsUnderstood
  <2>2. CASE v \in {"none", "handled"}
    BY <1>1, <1>12, <2>2 DEF PoliteInv, PoliteIsUnderstood
  <2> QED
    BY <1>10, <2>1, <2>2
<1>16. ASSUME ~link'.shutting
       PROVE  /\ Newlines(c.rest) = {} /\ v \notin {"garbage", "refused"} /\ ~link.shutting
              /\ Sound(c.rest \o w)
  <2>1. v \in {"none", "handled"} /\ ~link.shutting
    BY <1>10, <1>13, <1>16
  <2>2. /\ Newlines(c.rest) = {}
        /\ c.rest \o w = s \/ \E n \in 1..Len(buf) : c.rest \o w = SubSeq(s, n + 1, Len(s))
    BY <1>2, <1>6, <1>9, <2>1 DEF Consumed
  <2>3. \A i \in 1..Len(s) : s[i].msg # Junk /\ ("length" \notin rude => s[i].size <= Cap)
    BY <1>1, <1>2, <2>1 DEF PoliteInv
  <2>4. PICK t : t = c.rest \o w
    OBVIOUS
  <2>5. \A i \in 1..Len(t) : t[i].msg # Junk /\ ("length" \notin rude => t[i].size <= Cap)
    <3>1. CASE t = s
      BY <2>3, <3>1
    <3>2. CASE \E n \in 1..Len(buf) : t = SubSeq(s, n + 1, Len(s))
      <4>1. PICK n \in 1..Len(buf) : t = SubSeq(s, n + 1, Len(s))
        BY <3>2
      <4>2. Len(s) = Len(buf) + Len(w) /\ Len(buf) \in Nat /\ Len(w) \in Nat
        BY <1>2, JoinIs
      <4>3. n \in 0..Len(s)
        BY <4>2
      <4>4. Len(t) = Len(s) - n /\ \A i \in 1..(Len(s) - n) : t[i] = s[n + i]
        BY <4>1, <4>3, BackIs
      <4>5. ASSUME NEW i \in 1..Len(t)
            PROVE  t[i].msg # Junk /\ ("length" \notin rude => t[i].size <= Cap)
        <5>1. n + i \in 1..Len(s) /\ i \in 1..(Len(s) - n)
          BY <4>2, <4>3, <4>4
        <5>2. PICK k \in 1..Len(s) : k = n + i
          BY <5>1
        <5>3. t[i] = s[k]
          BY <4>4, <5>1, <5>2
        <5> QED
          BY <2>3, <5>3
      <4> QED
        BY <4>5
    <3> QED
      BY <2>2, <2>4, <3>1, <3>2
  <2>6. Sound(t)
    BY <2>5 DEF Sound
  <2> QED
    BY <2>1, <2>2, <2>4, <2>6
<1> QED
  BY <1>8, <1>9, <1>11, <1>12, <1>13, <1>15, <1>16

LEMMA HandledMore ==
  ASSUME OrderInv, PoliteInv, "haste" \notin rude,
         handled' \in Seq(1..MaxMsgs), Len(handled) <= Len(handled')
  PROVE  sent <= first + Len(handled') + 1
<1>1. handled \in Seq(1..MaxMsgs) /\ sent \in Nat /\ first \in Nat
  BY StreamsAssumption DEF OrderInv
<1>2. sent <= first + Len(handled) + 1
  BY DEF PoliteInv
<1>3. PICK k \in Nat : k = Len(handled)
  BY <1>1
<1>4. PICK l \in Nat : l = Len(handled')
  <2>1. handled' \in Seq(1..MaxMsgs)
    OBVIOUS
  <2>2. Len(handled') \in Nat
    BY <2>1
  <2> QED
    BY <2>2
<1> QED
  BY <1>1, <1>2, <1>3, <1>4

LEMMA PlainReadKeeps ==
  ASSUME StreamsInv, ~tls, sock = "reading", ~looping,
         NEW n \in 1..Len(wire), NEW answer \in Answers,
         NEW buf, buf = recv \o SubSeq(wire, 1, n), Len(buf) <= Cap,
         NEW c, c = Consume(buf, answer # "refuse"),
         wire' = SubSeq(wire, n + 1, Len(wire)), recv' = c.rest,
         handled' = handled \o c.message, link' = AfterLine(link, c.verdict, answer),
         UNCHANGED <<consumed, looping, farSide, sock, bio, pt>>
  PROVE  StreamsInv'
<1>1. /\ Shape /\ LinkInv /\ OrderInv /\ PoliteInv /\ Cap \in Nat
      /\ UNCHANGED <<tls, sent, first, rude, consumed, looping, sock, bio, pt>>
  BY StreamsAssumption DEF StreamsInv, farSide
<1>2. recv \in Seq(Units) /\ wire \in Seq(Units) /\ bio = <<>> /\ pt = <<>> /\ consumed = 0
      /\ link.ssl = "none"
  BY <1>1 DEF Shape, LinkInv
<1>3. n \in 0..Len(wire)
  OBVIOUS
<1>4. PICK a : a = SubSeq(wire, 1, n)
  OBVIOUS
<1>5. PICK w : w = SubSeq(wire, n + 1, Len(wire))
  OBVIOUS
<1>6. a \in Seq(Units) /\ w \in Seq(Units) /\ a \o w = wire
  <2>1. a \in Seq(Units)
    BY <1>2, <1>3, <1>4, FrontIs
  <2>2. w \in Seq(Units)
    BY <1>2, <1>3, <1>5, BackIs
  <2>3. a \o w = wire
    BY <1>2, <1>3, <1>4, <1>5, CutIn
  <2> QED
    BY <2>1, <2>2, <2>3
<1>7. buf \in Seq(Units) /\ buf = recv \o a /\ wire' = w
  <2>1. a \in Seq(Units)
    BY <1>6
  <2>2. recv \o a \in Seq(Units)
    BY <1>2, <2>1, JoinIs
  <2> QED
    BY <1>4, <1>5, <2>2
<1>8. Stream = buf \o w
  <2>1. recv \o (a \o w) = (recv \o a) \o w
    <3>1. IsData(recv) /\ IsData(a) /\ IsData(w)
      BY <1>2, <1>6 DEF IsData
    <3>2. Regroups(recv, a, w)
      BY <3>1, Regroup, Zenon
    <3> QED
      BY <3>2, Zenon DEF Regroups
  <2>2. Unread = recv
    BY <1>2 DEF Unread
  <2>3. PICK t : t = recv \o wire
    OBVIOUS
  <2>4. t \in Seq(Units)
    BY <1>2, <2>3, JoinIs
  <2>5. <<>> \o t = t
    BY <2>4
  <2>6. Stream = <<>> \o (<<>> \o t)
    BY <1>2, <2>2, <2>3 DEF Stream, Coming
  <2> QED
    BY <1>6, <1>7, <2>1, <2>3, <2>5, <2>6
<1>9. /\ c.rest \in Seq(Units) /\ Len(c.rest) <= Len(buf)
      /\ handled' \in Seq(1..MaxMsgs) /\ HandledInOrder'
      /\ Len(handled) <= Len(handled') /\ first + Len(handled') <= sent
      /\ Flow(c.rest \o w, first + Len(handled'), sent)
      /\ LinkOK(link') /\ link'.ssl # "handshake"
      /\ link'.ssl = "none" <=> link.ssl = "none"
      /\ PoliteIsUnderstood'
      /\ ~link'.shutting =>
           Newlines(c.rest) = {} /\ ~link.shutting /\ Sound(c.rest \o w)
  <2>1. PICK b \in BOOLEAN : b = (answer # "refuse")
    OBVIOUS
  <2>2. c = Consume(buf, b) /\ sock # "none" /\ link.ssl # "handshake"
    BY <1>2, <2>1
  <2> QED
    BY <1>1, <1>6, <1>7, <1>8, <2>2, AfterConsume
<1>10. PICK r \in Seq(Units) : r = c.rest
  BY <1>9
<1>11. PICK s \in Seq(Units) : s = r \o w
  <2>1. r \o w \in Seq(Units)
    BY <1>6, JoinIs
  <2> QED
    BY <2>1
<1>12. Stream' = s
  <2>1. Unread' = r
    BY <1>1, <1>2, <1>10 DEF Unread
  <2>2. <<>> \o s = s
    OBVIOUS
  <2>3. Coming' = <<>> \o s
    BY <1>1, <1>2, <1>7, <1>11, <2>1 DEF Coming
  <2> QED
    BY <1>1, <1>2, <2>2, <2>3 DEF Stream
<1>13. Shape'
  <2>1. recv' \in Seq(Units) /\ Len(recv') <= Cap /\ Len(recv') \in Nat
    <3>1. Len(buf) \in Nat /\ Len(r) \in Nat /\ Len(r) <= Len(buf)
      BY <1>7, <1>9, <1>10
    <3> QED
      BY <1>1, <1>10, <3>1
  <2>2. consumed' \in 0..Len(recv') /\ wire' \in Seq(Units)
    BY <1>1, <1>2, <1>6, <1>7, <2>1
  <2>3. looping' = FALSE /\ consumed' = 0 /\ tls' = FALSE /\ sock' = "reading"
    BY <1>1, <1>2 DEF Shape
  <2>4. /\ bio' \in Seq(Units) /\ pt' \in Seq(Units) /\ Len(pt') <= Cap /\ Len(bio') <= BioCap
        /\ pt' = <<>> /\ bio' = <<>>
    BY <1>1, <1>2 DEF Shape
  <2> QED
    BY <2>1, <2>2, <2>3, <2>4 DEF Shape
<1>14. LinkInv'
  <2>1. LinkOK(link)'
    BY <1>9 DEF LinkOK, Links
  <2> QED
    BY <1>1, <1>2, <1>9, <2>1 DEF LinkInv
<1>15. OrderInv'
  <2>1. (sock # "none" /\ link.ssl # "handshake" => Flow(Stream, first + Len(handled), sent))'
    BY <1>1, <1>9, <1>10, <1>11, <1>12
  <2> QED
    BY <1>1, <1>9, <2>1 DEF OrderInv
<1>16. HelloInv'
  BY <1>9 DEF HelloInv
<1>17. LineInv'
  <2>1. SUFFICES ASSUME ~link'.shutting
                 PROVE  Newlines(pt)' = {} /\ (tls /\ ~looping => recv = <<>>)'
                        /\ Newlines(recv)' = {}
    BY DEF LineInv
  <2>2. Newlines(r) = {}
    BY <1>9, <1>10, <2>1
  <2> QED
    BY <1>1, <1>2, <1>10, <2>2 DEF Newlines
<1>18. PoliteInv'
  <2>1. ASSUME ~link'.shutting
        PROVE  \A i \in 1..Len(s) : s[i].msg # Junk /\ ("length" \notin rude => s[i].size <= Cap)
    BY <1>9, <1>10, <1>11, <2>1 DEF Sound
  <2>2. (sock # "none" /\ ~link.shutting /\ link.ssl # "handshake" =>
           \A i \in 1..Len(Stream) :
             Stream[i].msg # Junk /\ ("length" \notin rude => Stream[i].size <= Cap))'
    BY <1>1, <1>12, <2>1
  <2>3. "haste" \notin rude => sent <= first + Len(handled') + 1
    <3>1. handled' \in Seq(1..MaxMsgs) /\ Len(handled) <= Len(handled')
      BY <1>9
    <3> QED
      BY <1>1, <3>1, HandledMore
  <2> QED
    BY <1>1, <1>9, <2>2, <2>3 DEF PoliteInv
<1> QED
  BY <1>13, <1>14, <1>15, <1>16, <1>17, <1>18 DEF StreamsInv

LEMMA TlsReadKeeps ==
  ASSUME StreamsInv, tls, sock = "reading", ~looping,
         NEW n \in 1..Len(wire), NEW buf, buf = recv \o SubSeq(wire, 1, n), Len(buf) <= Cap,
         wire' = SubSeq(wire, n + 1, Len(wire)), recv' = buf, consumed' = 0, looping' = TRUE,
         UNCHANGED <<handled, link, farSide, sock, bio, pt>>
  PROVE  StreamsInv'
<1>1. /\ Shape /\ LinkInv /\ OrderInv /\ HelloInv /\ LineInv /\ PoliteInv /\ Cap \in Nat
      /\ UNCHANGED <<tls, sent, first, rude, handled, link, sock, bio, pt>>
  BY StreamsAssumption DEF StreamsInv, farSide
<1>2. recv \in Seq(Units) /\ wire \in Seq(Units) /\ consumed = 0 /\ bio \in Seq(Units)
  BY <1>1 DEF Shape
<1>3. n \in 0..Len(wire)
  OBVIOUS
<1>4. PICK a : a = SubSeq(wire, 1, n)
  OBVIOUS
<1>5. PICK w : w = SubSeq(wire, n + 1, Len(wire))
  OBVIOUS
<1>6. a \in Seq(Units) /\ Len(a) = n /\ w \in Seq(Units) /\ a \o w = wire
  <2>1. a \in Seq(Units) /\ Len(a) = n
    BY <1>2, <1>3, <1>4, FrontIs
  <2>2. w \in Seq(Units)
    BY <1>2, <1>3, <1>5, BackIs
  <2>3. a \o w = wire
    BY <1>2, <1>3, <1>4, <1>5, CutIn
  <2> QED
    BY <2>1, <2>2, <2>3
<1>7. buf \in Seq(Units) /\ buf = recv \o a /\ wire' = w /\ Len(buf) > 0
  <2>1. a \in Seq(Units)
    BY <1>6
  <2>2. recv \o a \in Seq(Units) /\ Len(recv \o a) = Len(recv) + Len(a) /\ Len(recv) \in Nat
    BY <1>2, <2>1, JoinIs
  <2> QED
    BY <1>4, <1>5, <1>6, <2>2
<1>8. Unread = recv /\ Unread' = buf
  BY <1>2, <1>7 DEF Unread
<1>9. Coming' = Coming
  <2>1. recv \o (a \o w) = (recv \o a) \o w
    <3>1. IsData(recv) /\ IsData(a) /\ IsData(w)
      BY <1>2, <1>6 DEF IsData
    <3>2. Regroups(recv, a, w)
      BY <3>1, Regroup, Zenon
    <3> QED
      BY <3>2, Zenon DEF Regroups
  <2>2. Coming = bio \o (recv \o (a \o w))
    BY <1>6, <1>8 DEF Coming
  <2>3. Coming' = bio \o ((recv \o a) \o w)
    BY <1>1, <1>7, <1>8 DEF Coming
  <2> QED
    BY <2>1, <2>2, <2>3
<1>10. Shape'
  <2>1. consumed' \in 0..Len(recv') /\ consumed' < Len(recv') /\ recv' \in Seq(Units)
    BY <1>7
  <2> QED
    BY <1>1, <1>6, <1>7, <2>1 DEF Shape
<1>11. LinkInv'
  BY <1>1 DEF LinkInv, LinkOK, Links
<1>12. OrderInv' /\ HelloInv' /\ PoliteInv'
  <2>1. Taken(link) \in Nat
    <3>1. link \in Links
      BY <1>1 DEF LinkInv, LinkOK
    <3> QED
      BY <3>1, LinkFields
  <2>2. PoliteIsUnderstood'
    BY <1>1 DEF PoliteInv, PoliteIsUnderstood
  <2>3. Taken(link) <= Taken(link)
    BY <2>1
  <2> QED
    BY <1>1, <1>9, <2>1, <2>2, <2>3, StreamStays
<1>13. LineInv'
  BY <1>1 DEF LineInv, Newlines
<1> QED
  BY <1>10, <1>11, <1>12, <1>13 DEF StreamsInv

LEMMA ReadKeeps ==
  ASSUME StreamsInv, ReadSome
  PROVE  StreamsInv'
<1>1. PICK n \in 1..Len(wire), answer \in Answers :
        \E buf \in {recv \o SubSeq(wire, 1, n)} : \E c \in {Consume(buf, answer # "refuse")} :
           /\ sock = "reading" /\ ~looping
           /\ Len(buf) <= Cap
           /\ wire' = SubSeq(wire, n + 1, Len(wire))
           /\ IF tls
                THEN /\ recv' = buf /\ consumed' = 0 /\ looping' = TRUE
                     /\ UNCHANGED <<handled, link>>
                ELSE /\ recv' = c.rest
                     /\ handled' = handled \o c.message
                     /\ link' = AfterLine(link, c.verdict, answer)
                     /\ UNCHANGED <<consumed, looping>>
           /\ UNCHANGED <<farSide, sock, bio, pt>>
  BY DEF ReadSome
<1>2. PICK buf : buf = recv \o SubSeq(wire, 1, n)
  OBVIOUS
<1>3. PICK c : c = Consume(buf, answer # "refuse")
  OBVIOUS
<1>4. /\ sock = "reading" /\ ~looping /\ Len(buf) <= Cap
      /\ wire' = SubSeq(wire, n + 1, Len(wire))
      /\ tls => recv' = buf /\ consumed' = 0 /\ looping' = TRUE /\ UNCHANGED <<handled, link>>
      /\ ~tls => /\ recv' = c.rest /\ handled' = handled \o c.message
                 /\ link' = AfterLine(link, c.verdict, answer)
                 /\ UNCHANGED <<consumed, looping>>
      /\ UNCHANGED <<farSide, sock, bio, pt>>
  BY <1>1, <1>2, <1>3
<1>5. tls \in BOOLEAN
  BY DEF StreamsInv, Shape
<1>6. CASE tls
  BY <1>2, <1>4, <1>6, TlsReadKeeps
<1>7. CASE ~tls
  BY <1>2, <1>3, <1>4, <1>7, PlainReadKeeps
<1> QED
  BY <1>5, <1>6, <1>7
------------------------------------------------------------------------------
(* The steps of the loop. *)

\* A step of the loop leaves s under way, and the link as it should be.
Carried(s) ==
  /\ pt' \in Seq(Units) /\ Len(pt') <= Cap /\ bio' \in Seq(Units) /\ Len(bio') <= BioCap
  /\ handled' \in Seq(1..MaxMsgs) /\ HandledInOrder' /\ Len(handled) <= Len(handled')
  /\ first + Len(handled') <= sent /\ Flow(s, first + Len(handled'), sent)
  /\ LinkOK(link') /\ link'.ssl # "handshake" /\ PoliteIsUnderstood'
  /\ link'.ssl = "none" <=> link.ssl = "none"
  /\ ~link'.shutting => Newlines(pt') = {} /\ Sound(s)

\* ... before b of recv_buf is spoilt or passed.
Before(b) == (pt' \o bio') \o (b \o wire)

Parts ==
  pt \in Seq(Units) /\ bio \in Seq(Units) /\ Unread \in Seq(Units) /\ wire \in Seq(Units)

\* What is then under way, in the parts that SSL_read and the loop have left.
LEMMA StreamThen ==
  ASSUME Parts'
  PROVE  Stream' = (pt' \o bio') \o (Unread' \o wire')
<1>1. PICK p, o, t : p = pt' /\ o = bio' /\ t = Unread' \o wire'
  OBVIOUS
<1>2. t \in Seq(Units)
  BY <1>1, JoinIs DEF Parts
<1>3. IsData(p) /\ IsData(o) /\ IsData(t)
  BY <1>1, <1>2 DEF Parts, IsData
<1>4. Regroups(p, o, t)
  BY <1>3, Regroup, Zenon
<1>5. p \o (o \o t) = (p \o o) \o t
  BY <1>4, Zenon DEF Regroups
<1> QED
  BY <1>1, <1>5 DEF Stream, Coming

\* The link is given up in the middle of the loop, and recv_buf is spoilt.
LEMMA SpoiltStep ==
  ASSUME StreamsInv, looping, LoopFails, UNCHANGED <<farSide, sock, wire>>,
         NEW b \in Seq(Units), Carried(Before(b)), link'.shutting
  PROVE  StreamsInv'
<1>1. /\ Shape /\ LinkInv /\ OrderInv /\ PoliteInv
      /\ UNCHANGED <<tls, sent, first, rude, sock, wire>>
  BY DEF StreamsInv, farSide
<1>2. tls /\ sock = "reading" /\ wire \in Seq(Units)
  BY <1>1 DEF Shape
<1>3. /\ recv' \in Seq(Units) /\ Len(recv') <= Cap /\ recv' # <<>>
      /\ looping' = FALSE /\ consumed' = 0 /\ Unread' = recv'
      /\ \A i \in 1..Len(recv') : recv'[i].msg = Junk
  BY <1>1, LoopFailsIs
<1>4. PICK p \in Seq(Units) : p = pt'
  BY DEF Carried
<1>5. PICK o \in Seq(Units) : o = bio'
  BY DEF Carried
<1>6. PICK j \in Seq(Units) : j = recv'
  BY <1>3
<1>7. PICK a \in Seq(Units) : a = p \o o
  <2>1. p \o o \in Seq(Units)
    BY JoinIs
  <2> QED
    BY <2>1
<1>8. PICK lo \in Nat : lo = first + Len(handled')
  <2>1. PICK k \in Nat : k = Len(handled')
    <3>1. handled' \in Seq(1..MaxMsgs)
      BY DEF Carried
    <3>2. Len(handled') \in Nat
      BY <3>1
    <3> QED
      BY <3>2
  <2>2. first \in Nat
    BY <1>1, StreamsAssumption DEF OrderInv
  <2> QED
    BY <2>1, <2>2
<1>9. sent \in Nat
  BY <1>1, StreamsAssumption DEF OrderInv
<1>10. Flow(a \o (j \o wire), lo, sent)
  <2>1. Flow(a \o (b \o wire), lo, sent)
    BY <1>4, <1>5, <1>7, <1>8 DEF Carried, Before
  <2>2. j # <<>> /\ \A i \in 1..Len(j) : j[i].msg = Junk
    BY <1>3, <1>6
  <2> QED
    BY <1>2, <1>9, <2>1, <2>2, FlowFails
<1>11. Stream' = a \o (j \o wire)
  <2>1. Parts'
    BY <1>1, <1>2, <1>3 DEF Carried, Parts
  <2>2. Stream' = (pt' \o bio') \o (Unread' \o wire')
    BY <2>1, StreamThen
  <2> QED
    BY <1>1, <1>3, <1>4, <1>5, <1>6, <1>7, <2>2
<1>12. Shape'
  <2>1. consumed' \in 0..Len(recv')
    BY <1>3
  <2> QED
    BY <1>1, <1>2, <1>3, <2>1 DEF Shape, Carried
<1>13. LinkInv'
  <2>1. LinkOK(link)'
    BY DEF Carried, LinkOK, Links
  <2>2. link'.ssl # "none"
    BY <1>1, <1>2 DEF LinkInv, Carried
  <2> QED
    BY <1>1, <1>2, <2>1, <2>2 DEF LinkInv
<1>14. OrderInv'
  <2>1. (sock # "none" /\ link.ssl # "handshake" => Flow(Stream, first + Len(handled), sent))'
    BY <1>1, <1>8, <1>10, <1>11
  <2> QED
    BY <1>1, <2>1 DEF OrderInv, Carried
<1>15. HelloInv' /\ LineInv'
  BY DEF HelloInv, LineInv, Carried
<1>16. PoliteInv'
  <2>1. "haste" \notin rude => sent <= first + Len(handled') + 1
    BY <1>1, HandledMore DEF Carried
  <2> QED
    BY <1>1, <2>1 DEF PoliteInv, Carried
<1> QED
  BY <1>12, <1>13, <1>14, <1>15, <1>16 DEF StreamsInv

\* The loop goes on with what the SSL object did not take.
LEMMA OnwardStep ==
  ASSUME StreamsInv, looping, Takes > 0, LoopOn(Takes), UNCHANGED <<farSide, sock, wire>>,
         Carried(Before(Left))
  PROVE  StreamsInv'
<1>1. /\ Shape /\ LinkInv /\ OrderInv /\ PoliteInv
      /\ UNCHANGED <<tls, sent, first, rude, sock, wire>>
  BY DEF StreamsInv, farSide
<1>2. tls /\ sock = "reading" /\ wire \in Seq(Units)
  BY <1>1 DEF Shape
<1>3. /\ recv' \in Seq(Units) /\ Len(recv') <= Cap /\ consumed' \in 0..Len(recv')
      /\ looping' \in BOOLEAN /\ (looping' => consumed' < Len(recv'))
      /\ ~looping' => consumed' = 0 /\ recv' = <<>>
      /\ Unread' = Left
  BY <1>1, LoopOnIs
<1>4. PICK s : s = Before(Left)
  OBVIOUS
<1>5. Stream' = s
  <2>1. Unread' = Left /\ wire' = wire /\ Left \in Seq(Units)
    BY <1>1, <1>3, GivenIs
  <2>2. Parts'
    BY <1>2, <2>1 DEF Carried, Parts
  <2>3. Stream' = (pt' \o bio') \o (Unread' \o wire')
    BY <2>2, StreamThen
  <2> QED
    BY <1>4, <2>1, <2>3 DEF Before
<1>6. Shape'
  <2>1. tls' /\ sock' = "reading" /\ wire' = wire
    BY <1>1, <1>2
  <2>2. tls' \in BOOLEAN
    BY <1>1 DEF Shape
  <2>3. sock' \in {"none", "reading", "deaf", "closing"} /\ wire' \in Seq(Units)
    BY <1>2, <2>1
  <2>4. /\ looping' => tls' /\ sock' = "reading" /\ consumed' < Len(recv')
        /\ ~looping' => consumed' = 0
        /\ sock' = "none" => /\ link' = NewLink' /\ wire' = <<>> /\ recv' = <<>>
                             /\ bio' = <<>> /\ pt' = <<>>
        /\ ~tls' => pt' = <<>> /\ bio' = <<>>
    BY <1>3, <2>1
  <2>5. /\ recv' \in Seq(Units) /\ bio' \in Seq(Units) /\ pt' \in Seq(Units)
        /\ Len(recv') <= Cap /\ Len(pt') <= Cap /\ Len(bio') <= BioCap
        /\ consumed' \in 0..Len(recv') /\ looping' \in BOOLEAN
    BY <1>3 DEF Carried
  <2> QED
    BY <2>2, <2>3, <2>4, <2>5 DEF Shape
<1>7. LinkInv'
  <2>1. LinkOK(link)'
    BY DEF Carried, LinkOK, Links
  <2>2. link'.ssl # "none"
    BY <1>1, <1>2 DEF LinkInv, Carried
  <2> QED
    BY <1>1, <1>2, <2>1, <2>2 DEF LinkInv
<1>8. OrderInv'
  <2>1. (sock # "none" /\ link.ssl # "handshake" => Flow(Stream, first + Len(handled), sent))'
    BY <1>1, <1>4, <1>5 DEF Carried
  <2> QED
    BY <1>1, <2>1 DEF OrderInv, Carried
<1>9. HelloInv'
  BY DEF HelloInv, Carried
<1>10. LineInv'
  <2>1. SUFFICES ASSUME ~link'.shutting
                 PROVE  Newlines(pt)' = {} /\ (tls /\ ~looping => recv = <<>>)'
                        /\ (~tls => Newlines(recv) = {})'
    BY DEF LineInv
  <2>2. Newlines(pt') = {}
    BY <2>1 DEF Carried
  <2> QED
    BY <1>1, <1>2, <1>3, <2>2 DEF Newlines
<1>11. PoliteInv'
  <2>1. "haste" \notin rude => sent <= first + Len(handled') + 1
    BY <1>1, HandledMore DEF Carried
  <2>2. (sock # "none" /\ ~link.shutting /\ link.ssl # "handshake" =>
           \A i \in 1..Len(Stream) :
             Stream[i].msg # Junk /\ ("length" \notin rude => Stream[i].size <= Cap))'
    <3>1. ASSUME ~link'.shutting
          PROVE  \A i \in 1..Len(s) : s[i].msg # Junk /\ ("length" \notin rude => s[i].size <= Cap)
      BY <1>4, <3>1 DEF Carried, Sound
    <3> QED
      BY <1>1, <1>5, <3>1 DEF Carried
  <2> QED
    BY <1>1, <2>1, <2>2 DEF PoliteInv, Carried
<1> QED
  BY <1>6, <1>7, <1>8, <1>9, <1>10, <1>11 DEF StreamsInv

\* What the SSL object holds then, and its first record, in what is under way.
LEMMA RecordIs ==
  ASSUME Shape, looping
  PROVE  /\ Stream = (pt \o Given) \o (Left \o wire)
         /\ Len(Record) \in 0..Len(Given) /\ Record = SubSeq(Given, 1, Len(Record))
         /\ Record # <<>> => Len(Record) > 0
         /\ Len(Stream) >= Len(pt) + Len(Given)
         /\ \A i \in 1..Len(Record) : /\ Len(pt) + i \in 1..Len(Stream)
                                      /\ Record[i] = Stream[Len(pt) + i]
<1>1. /\ Given \in Seq(Units) /\ Left \in Seq(Units) /\ wire \in Seq(Units) /\ pt \in Seq(Units)
      /\ Coming = Given \o (Left \o wire)
  BY GivenIs DEF Shape
<1>2. PICK g \in Seq(Units) : g = Given
  BY <1>1
<1>3. PICK v \in Seq(Units) : v = Left \o wire
  <2>1. Left \o wire \in Seq(Units)
    BY <1>1, JoinIs
  <2> QED
    BY <2>1
<1>4. PICK a \in Seq(Units) : a = pt \o g
  <2>1. pt \o g \in Seq(Units)
    BY <1>1, JoinIs
  <2> QED
    BY <2>1
<1>5. PICK s : s = Stream
  OBVIOUS
<1>6. s = a \o v
  <2>1. pt \in Seq(Units)
    BY <1>1
  <2>2. pt \o (g \o v) = (pt \o g) \o v
    <3>1. IsData(pt) /\ IsData(g) /\ IsData(v)
      BY <2>1 DEF IsData
    <3>2. Regroups(pt, g, v)
      BY <3>1, Regroup, Zenon
    <3> QED
      BY <3>2, Zenon DEF Regroups
  <2> QED
    BY <1>1, <1>2, <1>3, <1>4, <1>5, <2>2 DEF Stream
<1>7. /\ Len(s) = Len(a) + Len(v) /\ Len(a) \in Nat /\ Len(v) \in Nat
      /\ \A i \in 1..Len(a) : s[i] = a[i]
  BY <1>6, JoinIs
<1>8. /\ Len(a) = Len(pt) + Len(g) /\ Len(pt) \in Nat /\ Len(g) \in Nat
      /\ \A i \in 1..Len(g) : a[Len(pt) + i] = g[i]
  BY <1>1, <1>4, JoinIs
<1>9. PICK m : m = Len(Record)
  OBVIOUS
<1>10. m \in 0..Len(g) /\ Record = SubSeq(g, 1, m) /\ (Record # <<>> => m > 0)
  BY <1>2, <1>9, FirstRecordIs DEF Record
<1>11. \A i \in 1..m : Record[i] = g[i]
  BY <1>10, FrontIs
<1>12. ASSUME NEW i \in 1..m
       PROVE  Len(pt) + i \in 1..Len(s) /\ Record[i] = s[Len(pt) + i]
  <2>1. PICK k : k = Len(pt) + i
    OBVIOUS
  <2>2. i \in 1..Len(g) /\ k \in 1..Len(a) /\ k \in 1..Len(s)
    BY <1>7, <1>8, <1>10, <2>1
  <2>3. s[k] = a[k] /\ a[k] = g[i]
    BY <1>7, <1>8, <2>1, <2>2
  <2> QED
    BY <1>11, <2>1, <2>2, <2>3
<1>13. Len(s) >= Len(pt) + Len(g)
  BY <1>7, <1>8
<1> QED
  BY <1>2, <1>3, <1>4, <1>5, <1>6, <1>9, <1>10, <1>12, <1>13

\* The link is given up over what is read, and nothing is handled.
LEMMA StopStep ==
  ASSUME StreamsInv, looping, LoopFails, UNCHANGED <<farSide, sock, wire, pt, handled>>,
         link.ssl # "handshake", NEW cause \in Causes, GivenUp(link, link', cause),
         ~link.shutting /\ cause \in {"garbage", "tls"} => "haste" \in rude,
         ~link.shutting /\ cause = "full" => rude # {},
         bio' \in Seq(Units), Len(bio') <= BioCap,
         NEW b \in Seq(Units), Before(b) = Stream
  PROVE  StreamsInv'
<1>1. /\ Shape /\ LinkInv /\ OrderInv /\ PoliteInv
      /\ UNCHANGED <<tls, sent, first, rude, sock, wire, pt, handled>>
  BY DEF StreamsInv, farSide
<1>2. /\ LinkOK(link') /\ link'.shutting
      /\ link'.ssl = "none" <=> link.ssl = "none"
      /\ link'.ssl # "handshake"
  BY DEF GivenUp
<1>3. PoliteIsUnderstood'
  BY <1>1, GivenUpIsUnderstood
<1>4. HandledInOrder'
  BY <1>1 DEF OrderInv, HandledInOrder
<1>5. /\ handled' \in Seq(1..MaxMsgs) /\ Len(handled) <= Len(handled')
      /\ first + Len(handled') <= sent /\ Flow(Before(b), first + Len(handled'), sent)
  <2>1. handled \in Seq(1..MaxMsgs) /\ first + Len(handled) <= sent /\ sock # "none"
    BY <1>1 DEF OrderInv, Shape
  <2>2. Len(handled) \in Nat
    BY <2>1
  <2>3. Flow(Stream, first + Len(handled), sent)
    BY <1>1, <2>1 DEF OrderInv
  <2> QED
    BY <1>1, <2>1, <2>2, <2>3
<1>6. pt' \in Seq(Units) /\ Len(pt') <= Cap
  BY <1>1 DEF Shape
<1>7. Carried(Before(b))
  BY <1>2, <1>3, <1>4, <1>5, <1>6 DEF Carried
<1>8. UNCHANGED <<farSide, sock, wire>>
  OBVIOUS
<1> QED
  BY <1>2, <1>7, <1>8, SpoiltStep

\* The SSL object is full when the pool has sent more than one message.
LEMMA SslFullKeeps ==
  ASSUME StreamsInv, SslIsFull
  PROVE  StreamsInv'
<1>1. /\ Shape /\ LinkInv /\ OrderInv /\ HelloInv /\ PoliteInv /\ LinkOK(link) /\ "tls" \in Causes
      /\ looping /\ Takes = 0 /\ LoopFails /\ link' = NotifyError(link, "tls")
      /\ UNCHANGED <<farSide, sock, wire, bio, pt, handled>>
  BY DEF StreamsInv, LinkInv, SslIsFull, Causes
<1>2. /\ Len(bio) = BioCap /\ consumed \in 0..Len(recv) /\ consumed < Len(recv) /\ sock # "none"
      /\ wire \in Seq(Units) /\ bio \in Seq(Units) /\ recv \in Seq(Units) /\ pt \in Seq(Units)
  BY <1>1, GivenIs DEF Shape
<1>3. /\ Unread \in Seq(Units) /\ Coming \in Seq(Units)
      /\ Len(Coming) = Len(bio) + (Len(recv) - consumed) + Len(wire)
  BY <1>1, PartsAre
<1>4. Len(Coming) > BioCap
  BY <1>2, <1>3
<1>5. link.ssl # "handshake"
  <2>1. Len(<<>>) = 0 /\ Len(Hello) <= BioCap /\ BioCap \in Nat
    BY HelloIs
  <2>2. Coming \notin {<<>>, Hello}
    BY <1>3, <1>4, <2>1
  <2> QED
    BY <1>1, <2>2 DEF HelloInv
<1>6. ASSUME ~link.shutting PROVE "haste" \in rude
  <2>1. SUFFICES ASSUME "haste" \notin rude PROVE FALSE
    OBVIOUS
  <2>2. Len(Stream) <= BioCap
    BY <1>1, <1>2, <1>5, <1>6, <2>1, PoliteMessage
  <2>3. Len(pt \o Coming) = Len(pt) + Len(Coming) /\ Len(pt) \in Nat /\ Len(Coming) \in Nat
    BY <1>2, <1>3, JoinIs
  <2> QED
    BY <1>4, <2>2, <2>3, StreamsAssumption DEF Stream
<1>7. Before(Unread) = Stream
  <2>1. PICK v \in Seq(Units) : v = Unread \o wire
    <3>1. Unread \o wire \in Seq(Units)
      BY <1>2, <1>3, JoinIs
    <3> QED
      BY <3>1
  <2>2. pt \o (bio \o v) = (pt \o bio) \o v
    <3>1. IsData(pt) /\ IsData(bio) /\ IsData(v)
      BY <1>2 DEF IsData
    <3>2. Regroups(pt, bio, v)
      BY <3>1, Regroup, Zenon
    <3> QED
      BY <3>2, Zenon DEF Regroups
  <2>3. pt' = pt /\ bio' = bio
    BY <1>1
  <2> QED
    BY <2>1, <2>2, <2>3 DEF Before, Stream, Coming
<1>8. GivenUp(link, link', "tls")
  BY <1>1, NotifyErrorIs
<1>9. bio' \in Seq(Units) /\ Len(bio') <= BioCap
  BY <1>1 DEF Shape
<1>10. UNCHANGED <<farSide, sock, wire, pt, handled>>
  BY <1>1
<1> QED
  BY <1>1, <1>3, <1>5, <1>6, <1>7, <1>8, <1>9, <1>10, StopStep

\* What follows a record that is no record is given up already.
LEMMA BadRecordKeeps ==
  ASSUME StreamsInv, OnBadRecord
  PROVE  StreamsInv'
<1>1. /\ Shape /\ LinkInv /\ OrderInv /\ PoliteInv /\ LinkOK(link) /\ "tls" \in Causes
      /\ looping /\ link.ssl # "handshake" /\ ~Intact /\ bio' = Given
      /\ LoopFails /\ link' = NotifyError(link, "tls")
      /\ UNCHANGED <<farSide, sock, wire, pt, handled>>
  BY DEF StreamsInv, LinkInv, OnBadRecord, Causes
<1>2. /\ Given \in Seq(Units) /\ Len(Given) <= BioCap /\ Left \in Seq(Units)
  BY <1>1, GivenIs
<1>3. /\ Stream = (pt \o Given) \o (Left \o wire)
      /\ Len(Record) \in 0..Len(Given) /\ Record = SubSeq(Given, 1, Len(Record))
      /\ \A i \in 1..Len(Record) : /\ Len(pt) + i \in 1..Len(Stream)
                                   /\ Record[i] = Stream[Len(pt) + i]
  BY <1>1, RecordIs
<1>4. link.shutting
  <2>1. SUFFICES ASSUME ~link.shutting PROVE FALSE
    OBVIOUS
  <2>2. PICK i \in DOMAIN Record : Record[i].msg = Junk
    BY <1>1 DEF Intact
  <2>3. i \in 1..Len(Record)
    <3>1. PICK m \in 0..Len(Given) : m = Len(Record)
      BY <1>3
    <3>2. SubSeq(Given, 1, m) \in Seq(Units)
      BY <1>2, <3>1, FrontIs
    <3>3. Record \in Seq(Units)
      BY <1>3, <3>1, <3>2
    <3> QED
      BY <3>3
  <2>4. sock # "none"
    BY <1>1 DEF Shape
  <2>5. \A k \in 1..Len(Stream) : Stream[k].msg # Junk
    BY <1>1, <2>1, <2>4 DEF PoliteInv
  <2> QED
    BY <1>3, <2>2, <2>3, <2>5
<1>5. Before(Left) = Stream
  <2>1. pt' = pt /\ bio' = Given
    BY <1>1
  <2> QED
    BY <1>3, <2>1 DEF Before
<1>6. GivenUp(link, link', "tls")
  BY <1>1, NotifyErrorIs
<1>7. bio' \in Seq(Units) /\ Len(bio') <= BioCap
  BY <1>1, <1>2
<1>8. UNCHANGED <<farSide, sock, wire, pt, handled>>
  BY <1>1
<1> QED
  BY <1>1, <1>2, <1>4, <1>5, <1>6, <1>7, <1>8, StopStep

\* The room there is in pt_buf for the record.
LEMMA RoomIs ==
  ASSUME Shape, looping
  PROVE  /\ Room \in 0..Len(Record) /\ Len(pt) + Room <= Cap
         /\ Room = 0 /\ Record # <<>> => Len(pt) = Cap
<1>1. Len(pt) \in Nat /\ Len(pt) <= Cap /\ Cap \in Nat
  BY StreamsAssumption DEF Shape
<1>2. PICK a \in Nat : a = Len(Record)
  <2>1. Len(Record) \in 0..Len(Given) /\ Given \in Seq(Units)
    BY RecordIs, GivenIs
  <2>2. Len(Given) \in Nat
    BY <2>1
  <2> QED
    BY <2>1, <2>2
<1>3. PICK b \in Nat : b = Cap - Len(pt)
  <2>1. Cap - Len(pt) \in Nat
    BY <1>1
  <2> QED
    BY <2>1
<1>4. PICK r : r = Room
  OBVIOUS
<1>5. r \in {a, b} /\ r <= a /\ r <= b
  <2>1. {a, b} \in SUBSET Nat /\ {a, b} # {}
    OBVIOUS
  <2>2. Min({a, b}) \in {a, b} /\ \A y \in {a, b} : Min({a, b}) <= y
    BY <2>1, MinIs
  <2>3. r = Min({a, b})
    BY <1>2, <1>3, <1>4 DEF Room
  <2> QED
    BY <2>2, <2>3
<1>6. r \in 0..a /\ Len(pt) + r <= Cap
  BY <1>1, <1>3, <1>5
<1>7. ASSUME r = 0, Record # <<>> PROVE Len(pt) = Cap
  <2>1. a > 0
    BY <1>2, <1>7, RecordIs
  <2> QED
    BY <1>1, <1>3, <1>5, <1>7, <2>1
<1> QED
  BY <1>2, <1>4, <1>6, <1>7

\* pt_buf is full when a message is too long for it.
LEMMA FullTextKeeps ==
  ASSUME StreamsInv, OnFullText
  PROVE  StreamsInv'
<1>1. /\ Shape /\ LinkInv /\ OrderInv /\ PoliteInv /\ LinkOK(link) /\ "full" \in Causes
      /\ looping /\ link.ssl # "handshake" /\ Record # <<>> /\ Room = 0 /\ bio' = Given
      /\ LoopFails /\ link' = DoShutdown(link, "full")
      /\ UNCHANGED <<farSide, sock, wire, pt, handled>>
  BY DEF StreamsInv, LinkInv, OnFullText, Causes
<1>2. /\ Given \in Seq(Units) /\ Len(Given) <= BioCap /\ Left \in Seq(Units)
  BY <1>1, GivenIs
<1>3. Stream = (pt \o Given) \o (Left \o wire) /\ Len(Stream) >= Len(pt) + Len(Given)
  BY <1>1, RecordIs
<1>4. ASSUME ~link.shutting PROVE rude # {}
  <2>1. SUFFICES ASSUME rude = {} PROVE FALSE
    OBVIOUS
  <2>2. sock # "none" /\ Cap \in Nat
    BY <1>1, StreamsAssumption DEF Shape
  <2>3. Len(Stream) <= Cap
    BY <1>1, <1>4, <2>1, <2>2, PoliteMessage
  <2>4. Len(pt) = Cap
    BY <1>1, RoomIs
  <2>5. Len(Record) > 0 /\ Len(Record) \in 0..Len(Given) /\ Len(Given) \in Nat
    BY <1>1, <1>2, RecordIs
  <2>6. Len(Stream) \in Nat
    <3>1. Stream \in Seq(Units)
      BY <1>1, PartsAre
    <3> QED
      BY <3>1
  <2> QED
    BY <1>3, <2>2, <2>3, <2>4, <2>5, <2>6
<1>5. Before(Left) = Stream
  <2>1. pt' = pt /\ bio' = Given
    BY <1>1
  <2> QED
    BY <1>3, <2>1 DEF Before
<1>6. GivenUp(link, link', "full")
  BY <1>1, DoShutdownIs
<1>7. bio' \in Seq(Units) /\ Len(bio') <= BioCap
  BY <1>1, <1>2
<1>8. UNCHANGED <<farSide, sock, wire, pt, handled>>
  BY <1>1
<1> QED
  BY <1>1, <1>2, <1>4, <1>5, <1>6, <1>7, <1>8, StopStep

\* No record is complete, and the loop goes on.
LEMMA PartOfRecordKeeps ==
  ASSUME StreamsInv, OnPartOfRecord
  PROVE  StreamsInv'
<1>1. /\ Shape /\ LinkInv /\ OrderInv /\ LineInv /\ PoliteInv
      /\ looping /\ Takes > 0 /\ LoopOn(Takes) /\ link.ssl # "handshake" /\ bio' = Given
      /\ UNCHANGED <<farSide, sock, wire, pt, handled, link>>
  BY DEF StreamsInv, OnPartOfRecord
<1>2. Given \in Seq(Units) /\ Len(Given) <= BioCap /\ sock # "none"
  BY <1>1, GivenIs DEF Shape
<1>3. Before(Left) = Stream
  <2>1. Stream = (pt \o Given) \o (Left \o wire)
    BY <1>1, RecordIs
  <2>2. pt' = pt /\ bio' = Given
    BY <1>1
  <2> QED
    BY <2>1, <2>2 DEF Before
<1>4. PICK s : s = Stream
  OBVIOUS
<1>5. pt' \in Seq(Units) /\ Len(pt') <= Cap /\ bio' \in Seq(Units) /\ Len(bio') <= BioCap
  BY <1>1, <1>2 DEF Shape
<1>6. /\ handled' \in Seq(1..MaxMsgs) /\ Len(handled) <= Len(handled')
      /\ first + Len(handled') <= sent /\ Flow(s, first + Len(handled'), sent)
  <2>1. handled \in Seq(1..MaxMsgs) /\ handled' = handled /\ first + Len(handled) <= sent
        /\ Flow(s, first + Len(handled), sent)
    BY <1>1, <1>2, <1>4 DEF OrderInv
  <2>2. Len(handled) \in Nat
    BY <2>1
  <2> QED
    BY <2>1, <2>2
<1>7. HandledInOrder' /\ PoliteIsUnderstood'
  BY <1>1 DEF OrderInv, PoliteInv, HandledInOrder, PoliteIsUnderstood, farSide
<1>8. /\ LinkOK(link') /\ link'.ssl # "handshake"
      /\ link'.ssl = "none" <=> link.ssl = "none"
  BY <1>1 DEF LinkInv
<1>9. ASSUME ~link'.shutting
      PROVE  Newlines(pt') = {} /\ Sound(s)
  BY <1>1, <1>2, <1>4, <1>9 DEF LineInv, PoliteInv, Sound
<1>10. Carried(s)
  BY <1>5, <1>6, <1>7, <1>8, <1>9 DEF Carried
<1> QED
  BY <1>1, <1>3, <1>4, <1>10, OnwardStep

\* A record, or what fits of it, is read and consumed.
LEMMA RecordKeeps ==
  ASSUME StreamsInv, OnRecord
  PROVE  StreamsInv'
<1>1. PICK answer \in Answers :
        \E c \in {Consume(pt \o SubSeq(Record, 1, Room), answer # "refuse")} :
          /\ pt' = c.rest
          /\ handled' = handled \o c.message
          /\ link' = AfterLine(link, c.verdict, answer)
          /\ IF c.verdict \in {"garbage", "refused"} THEN LoopFails ELSE LoopOn(Takes)
  BY DEF OnRecord
<1>2. PICK buf : buf = pt \o SubSeq(Record, 1, Room)
  OBVIOUS
<1>3. PICK accepted \in BOOLEAN : accepted = (answer # "refuse")
  OBVIOUS
<1>4. PICK c : c = Consume(buf, accepted)
  OBVIOUS
<1>5. /\ pt' = c.rest /\ handled' = handled \o c.message
      /\ link' = AfterLine(link, c.verdict, answer)
      /\ c.verdict \in {"garbage", "refused"} => LoopFails
      /\ c.verdict \notin {"garbage", "refused"} => LoopOn(Takes)
  BY <1>1, <1>2, <1>3, <1>4
<1>6. /\ Shape /\ looping /\ Takes > 0 /\ link.ssl # "handshake"
      /\ bio' = SubSeq(Given, Room + 1, Len(Given))
      /\ UNCHANGED <<farSide, sock, wire>>
  BY DEF StreamsInv, OnRecord
<1>7. /\ Given \in Seq(Units) /\ Len(Given) <= BioCap /\ Left \in Seq(Units) /\ Len(Given) \in Nat
      /\ wire \in Seq(Units) /\ pt \in Seq(Units) /\ sock # "none" /\ Len(pt) \in Nat
  <2>1. Given \in Seq(Units) /\ Len(Given) <= BioCap /\ Left \in Seq(Units)
    BY <1>6, GivenIs
  <2>2. wire \in Seq(Units) /\ pt \in Seq(Units) /\ sock # "none"
    BY <1>6 DEF Shape
  <2> QED
    BY <2>1, <2>2
<1>8. /\ Stream = (pt \o Given) \o (Left \o wire)
      /\ Len(Record) \in 0..Len(Given) /\ Record = SubSeq(Given, 1, Len(Record))
  BY <1>6, RecordIs
<1>9. Room \in 0..Len(Record) /\ Len(pt) + Room <= Cap
  BY <1>6, RoomIs
<1>10. PICK n \in 0..Len(Given) : n = Room
  BY <1>7, <1>8, <1>9
<1>11. PICK g \in Seq(Units) : g = Given
  BY <1>7
<1>12. PICK a : a = SubSeq(g, 1, n)
  OBVIOUS
<1>13. PICK o : o = SubSeq(g, n + 1, Len(g))
  OBVIOUS
<1>14. a \in Seq(Units) /\ Len(a) = n /\ o \in Seq(Units) /\ Len(o) = Len(g) - n /\ a \o o = g
  <2>1. n \in 0..Len(g)
    BY <1>11
  <2>2. a \in Seq(Units) /\ Len(a) = n
    BY <1>12, <2>1, FrontIs
  <2>3. o \in Seq(Units) /\ Len(o) = Len(g) - n
    BY <1>13, <2>1, BackIs
  <2>4. a \o o = g
    BY <1>12, <1>13, <2>1, CutIn
  <2> QED
    BY <2>2, <2>3, <2>4
<1>15. SubSeq(Record, 1, n) = a
  <2>1. PICK m \in 0..Len(g) : m = Len(Record) /\ n <= m
    <3>1. Len(Record) \in 0..Len(g)
      BY <1>8, <1>11
    <3>2. n <= Len(Record)
      BY <1>9, <1>10, <3>1
    <3> QED
      BY <3>1, <3>2
  <2>2. PICK r : r = SubSeq(g, 1, m)
    OBVIOUS
  <2>3. r \in Seq(Units) /\ Len(r) = m /\ \A i \in 1..m : r[i] = g[i]
    BY <2>2, FrontIs
  <2>4. PICK b : b = SubSeq(r, 1, n)
    OBVIOUS
  <2>5. b \in Seq(Units) /\ Len(b) = n /\ \A i \in 1..n : b[i] = r[i]
    <3>1. n \in 0..Len(r)
      BY <2>1, <2>3
    <3> QED
      BY <2>3, <2>4, <3>1, FrontIs
  <2>6. \A i \in 1..n : a[i] = g[i]
    BY <1>11, <1>12, FrontIs
  <2>7. \A i \in 1..n : b[i] = a[i]
    BY <2>1, <2>3, <2>5, <2>6
  <2>8. a = b
    BY <1>14, <2>5, <2>7, SeqEqual
  <2>9. Record = r
    BY <1>8, <1>11, <2>1, <2>2
  <2> QED
    BY <2>4, <2>8, <2>9
<1>16. buf \in Seq(Units) /\ buf = pt \o a /\ Len(buf) = Len(pt) + n /\ Len(buf) <= Cap
  <2>1. buf = pt \o a
    BY <1>2, <1>10, <1>15
  <2>2. a \in Seq(Units) /\ Len(a) = n
    BY <1>14
  <2>3. pt \o a \in Seq(Units) /\ Len(pt \o a) = Len(pt) + Len(a)
    BY <1>7, <2>2, JoinIs
  <2> QED
    BY <1>9, <1>10, <2>1, <2>2, <2>3
<1>17. PICK v \in Seq(Units) : v = Left \o wire
  <2>1. Left \o wire \in Seq(Units)
    BY <1>7, JoinIs
  <2> QED
    BY <2>1
<1>18. PICK w \in Seq(Units) : w = o \o v
  <2>1. o \in Seq(Units)
    BY <1>14
  <2>2. o \o v \in Seq(Units)
    BY <2>1, JoinIs
  <2> QED
    BY <2>2
<1>19. Stream = buf \o w
  <2>1. PICK p \in Seq(Units) : p = pt
    BY <1>7
  <2>2. PICK q \in Seq(Units) : q = a
    BY <1>14
  <2>3. PICK r \in Seq(Units) : r = o
    BY <1>14
  <2>4. p \o (q \o r) = (p \o q) \o r
    <3>1. IsData(p) /\ IsData(q) /\ IsData(r)
      BY DEF IsData
    <3>2. Regroups(p, q, r)
      BY <3>1, Regroup, Zenon
    <3> QED
      BY <3>2, Zenon DEF Regroups
  <2>5. PICK b \in Seq(Units) : b = p \o q
    BY <1>16, <2>1, <2>2
  <2>6. b \o (r \o v) = (b \o r) \o v
    <3>1. IsData(b) /\ IsData(r) /\ IsData(v)
      BY DEF IsData
    <3>2. Regroups(b, r, v)
      BY <3>1, Regroup, Zenon
    <3> QED
      BY <3>2, Zenon DEF Regroups
  <2> QED
    BY <1>8, <1>11, <1>14, <1>16, <1>17, <1>18, <2>1, <2>2, <2>3, <2>4, <2>5, <2>6
<1>20. bio' = o
  BY <1>6, <1>10, <1>11, <1>13
<1>21. /\ c.rest \in Seq(Units) /\ Len(c.rest) <= Len(buf)
       /\ handled' \in Seq(1..MaxMsgs) /\ HandledInOrder'
       /\ Len(handled) <= Len(handled') /\ first + Len(handled') <= sent
       /\ Flow(c.rest \o w, first + Len(handled'), sent)
       /\ LinkOK(link') /\ link'.ssl # "handshake"
       /\ link'.ssl = "none" <=> link.ssl = "none"
       /\ PoliteIsUnderstood'
       /\ c.verdict \in {"garbage", "refused"} => link'.shutting
       /\ ~link'.shutting => Newlines(c.rest) = {} /\ Sound(c.rest \o w)
  <2>1. buf \in Seq(Units)
    BY <1>16
  <2>2. UNCHANGED <<sent, first, rude>>
    BY <1>6 DEF farSide
  <2>3. handled' = handled \o c.message /\ link' = AfterLine(link, c.verdict, answer)
    BY <1>5
  <2>4. sock # "none" /\ link.ssl # "handshake"
    BY <1>6, <1>7
  <2>5. c.rest \in Seq(Units) /\ Len(c.rest) <= Len(buf)
    BY <1>4, <1>19, <2>1, <2>2, <2>3, <2>4, AfterConsume
  <2>6. /\ handled' \in Seq(1..MaxMsgs) /\ HandledInOrder'
        /\ Len(handled) <= Len(handled') /\ first + Len(handled') <= sent
        /\ Flow(c.rest \o w, first + Len(handled'), sent)
    BY <1>4, <1>19, <2>1, <2>2, <2>3, <2>4, AfterConsume
  <2>7. /\ LinkOK(link') /\ link'.ssl # "handshake"
        /\ link'.ssl = "none" <=> link.ssl = "none"
    BY <1>4, <1>19, <2>1, <2>2, <2>3, <2>4, AfterConsume
  <2>8. PoliteIsUnderstood'
    BY <1>4, <1>19, <2>1, <2>2, <2>3, <2>4, AfterConsume
  <2>9. c.verdict \in {"garbage", "refused"} => link'.shutting
    BY <1>4, <1>19, <2>1, <2>2, <2>3, <2>4, AfterConsume
  <2>10. ~link'.shutting => Newlines(c.rest) = {} /\ Sound(c.rest \o w)
    BY <1>4, <1>19, <2>1, <2>2, <2>3, <2>4, AfterConsume
  <2> QED
    BY <2>5, <2>6, <2>7, <2>8, <2>9, <2>10
<1>22. PICK r \in Seq(Units) : r = c.rest
  BY <1>21
<1>23. PICK s : s = r \o w
  OBVIOUS
<1>24. Before(Left) = s
  <2>1. PICK q \in Seq(Units) : q = o
    BY <1>14
  <2>2. r \o (q \o v) = (r \o q) \o v
    <3>1. IsData(r) /\ IsData(q) /\ IsData(v)
      BY DEF IsData
    <3>2. Regroups(r, q, v)
      BY <3>1, Regroup, Zenon
    <3> QED
      BY <3>2, Zenon DEF Regroups
  <2>3. pt' = r /\ bio' = q
    BY <1>5, <1>20, <1>22, <2>1
  <2> QED
    BY <1>17, <1>18, <1>23, <2>1, <2>2, <2>3 DEF Before
<1>25. Carried(s)
  <2>1. pt' \in Seq(Units) /\ Len(pt') <= Cap
    <3>1. Len(r) \in Nat /\ Len(buf) \in Nat /\ Len(r) <= Len(buf) /\ Cap \in Nat
      BY <1>16, <1>21, <1>22, StreamsAssumption
    <3> QED
      BY <1>5, <1>16, <1>22, <3>1
  <2>2. bio' \in Seq(Units) /\ Len(bio') <= BioCap
    <3>1. Len(o) <= Len(g) /\ Len(g) <= BioCap /\ Len(g) \in Nat /\ BioCap \in Nat
      BY <1>7, <1>11, <1>14, StreamsAssumption
    <3>2. Len(o) \in Nat
      BY <1>14
    <3> QED
      BY <1>14, <1>20, <3>1, <3>2
  <2> QED
    BY <1>5, <1>21, <1>22, <1>23, <2>1, <2>2 DEF Carried
<1>26. CASE c.verdict \in {"garbage", "refused"}
  <2>1. LoopFails /\ link'.shutting
    BY <1>5, <1>21, <1>26
  <2> QED
    BY <1>6, <1>7, <1>24, <1>25, <2>1, SpoiltStep
<1>27. CASE c.verdict \notin {"garbage", "refused"}
  <2>1. LoopOn(Takes)
    BY <1>5, <1>27
  <2> QED
    BY <1>6, <1>24, <1>25, <2>1, OnwardStep
<1> QED
  BY <1>26, <1>27

\* A part of the handshake, or the last of it, after which nothing is under way.
LEMMA HandshakeDataKeeps ==
  ASSUME StreamsInv, OnHandshakeData
  PROVE  StreamsInv'
<1>1. /\ Shape /\ LinkInv /\ OrderInv /\ HelloInv /\ LineInv /\ PoliteInv /\ LinkOK(link)
      /\ looping /\ Takes > 0 /\ link.ssl = "handshake" /\ LoopOn(Takes)
      /\ bio' = SubSeq(Given, Len(Record) + 1, Len(Given))
      /\ link' \in (IF Record = <<>> THEN {link} ELSE Handshakes)
      /\ UNCHANGED <<farSide, sock, wire, pt, handled>>
  BY DEF StreamsInv, LinkInv, OnHandshakeData
<1>2. UNCHANGED <<tls, sent, first, rude>>
  BY <1>1 DEF farSide
<1>3. /\ Given \in Seq(Units) /\ Len(Given) \in Nat /\ Len(Given) <= BioCap
      /\ Left \in Seq(Units) /\ wire \in Seq(Units) /\ Coming = Given \o (Left \o wire)
      /\ Len(Given) = Len(bio) + Takes /\ Takes \in Nat /\ Len(bio) \in Nat
  <2>1. bio \in Seq(Units) /\ Len(recv) \in Nat /\ consumed \in 0..Len(recv)
    BY <1>1 DEF Shape
  <2>2. Takes \in 0..(Len(recv) - consumed)
    BY <1>1, GivenIs
  <2>3. Takes \in Nat
    BY <2>1, <2>2
  <2>4. /\ Given \in Seq(Units) /\ Len(Given) = Len(bio) + Takes /\ Len(Given) <= BioCap
        /\ Left \in Seq(Units) /\ Coming = Given \o (Left \o wire)
    BY <1>1, GivenIs
  <2>5. wire \in Seq(Units) /\ Len(bio) \in Nat
    BY <1>1, <2>1 DEF Shape
  <2>6. Len(Given) \in Nat
    BY <2>3, <2>4, <2>5
  <2> QED
    BY <2>3, <2>4, <2>5, <2>6
<1>4. /\ recv' \in Seq(Units) /\ Len(recv') <= Cap /\ consumed' \in 0..Len(recv')
      /\ looping' \in BOOLEAN /\ (looping' => consumed' < Len(recv'))
      /\ ~looping' => consumed' = 0 /\ recv' = <<>>
      /\ Unread' = Left
  BY <1>1, LoopOnIs
<1>5. tls /\ sock = "reading" /\ pt = <<>> /\ handled = <<>> /\ sent = first
  BY <1>1 DEF Shape, HelloInv
<1>6. PICK g \in Seq(Units) : g = Given
  BY <1>3
<1>7. PICK v \in Seq(Units) : v = Left \o wire
  <2>1. Left \o wire \in Seq(Units)
    BY <1>3, JoinIs
  <2> QED
    BY <2>1
<1>8. /\ Coming = g \o v /\ Coming \in Seq(Units) /\ Len(Coming) = Len(g) + Len(v)
      /\ Len(g) \in Nat /\ Len(g) > 0 /\ Len(v) \in Nat
      /\ \A i \in 1..Len(g) : Coming[i] = g[i]
  <2>1. g \o v \in Seq(Units) /\ Len(g \o v) = Len(g) + Len(v) /\ Len(g) \in Nat /\ Len(v) \in Nat
        /\ \A i \in 1..Len(g) : (g \o v)[i] = g[i]
    BY JoinIs
  <2>2. Coming = g \o v
    BY <1>3, <1>6, <1>7
  <2>3. Len(g) > 0
    BY <1>1, <1>3, <1>6
  <2> QED
    BY <2>1, <2>2, <2>3
<1>9. Coming = Hello /\ Taken(link) <= 1
  <2>1. Coming # <<>>
    <3>1. Len(<<>>) = 0
      OBVIOUS
    <3> QED
      BY <1>8, <3>1
  <2> QED
    BY <1>1, <2>1 DEF HelloInv
<1>10. PICK m : m = Len(Record)
  OBVIOUS
<1>11. m \in 0..Len(g) /\ (Record = <<>> => m = 0) /\ (Record # <<>> => m > 0 /\ g[m].seal)
  <2>1. Record = FirstRecord(g)
    BY <1>6 DEF Record
  <2>2. LET k == Len(FirstRecord(g))
        IN k \in 0..Len(g) /\ (FirstRecord(g) # <<>> <=> k > 0) /\ (k > 0 => g[k].seal)
    BY FirstRecordIs
  <2> QED
    BY <1>8, <1>10, <2>1, <2>2
<1>12. CASE Record = <<>>
  <2>1. m = 0 /\ link' = link
    BY <1>1, <1>11, <1>12
  <2>2. bio' = g
    <3>1. bio' = SubSeq(g, 1, Len(g))
      BY <1>1, <1>6, <1>10, <2>1
    <3> QED
      BY <3>1
  <2>3. Coming' = Coming
    BY <1>1, <1>4, <1>7, <1>8, <2>2 DEF Coming
  <2>4. link \in Links /\ Taken(link) \in Nat
    <3>1. link \in Links
      BY <1>1 DEF LinkOK
    <3> QED
      BY <3>1, LinkFields
  <2>5. PoliteIsUnderstood'
    BY <1>1, <1>2, <2>1 DEF PoliteInv, PoliteIsUnderstood
  <2>6. OrderInv' /\ HelloInv' /\ PoliteInv'
    <3>1. Taken(link') <= Taken(link) /\ Taken(link') \in Nat /\ Taken(link) \in Nat
      BY <2>1, <2>4
    <3>2. UNCHANGED <<pt, sent, first, rude, handled>> /\ sock' = sock
      BY <1>1, <1>2
    <3>3. link'.ssl = link.ssl /\ link'.shutting = link.shutting
      BY <2>1
    <3> QED
      BY <1>1, <2>3, <2>5, <3>1, <3>2, <3>3, StreamStays
  <2>7. Shape'
    <3>1. bio' \in Seq(Units) /\ Len(bio') <= BioCap
      BY <1>3, <1>6, <2>2
    <3> QED
      BY <1>1, <1>2, <1>4, <1>5, <3>1 DEF Shape
  <2>8. LinkInv'
    BY <1>1, <1>2, <2>1 DEF LinkInv, LinkOK, Links
  <2>9. LineInv'
    BY <1>1, <1>2, <1>4, <1>5, <2>1 DEF LineInv, Newlines
  <2> QED
    BY <2>6, <2>7, <2>8, <2>9 DEF StreamsInv
<1>13. CASE Record # <<>>
  <2>1. m = HelloSize /\ Len(g) = HelloSize /\ Len(v) = 0
    <3>1. Len(Hello) = HelloSize /\ HelloSize \in Nat \ {0}
          /\ \A i \in 1..HelloSize : Hello[i].seal <=> i = HelloSize
      BY HelloIs
    <3>2. Len(g) + Len(v) = HelloSize /\ m \in 1..HelloSize /\ g[m] = Hello[m]
      BY <1>8, <1>9, <1>11, <1>13, <3>1
    <3>3. m = HelloSize
      BY <1>11, <1>13, <3>1, <3>2
    <3> QED
      BY <1>8, <1>11, <3>2, <3>3
  <2>2. v = <<>> /\ Left \o wire = <<>>
    BY <1>7, <2>1
  <2>3. bio' = <<>>
    <3>1. bio' = SubSeq(g, Len(g) + 1, Len(g))
      BY <1>1, <1>6, <1>10, <2>1
    <3>2. Len(g) \in 0..Len(g)
      BY <1>8
    <3>3. SubSeq(g, Len(g) + 1, Len(g)) \in Seq(Units) /\ Len(SubSeq(g, Len(g) + 1, Len(g))) = 0
      BY <1>8, <3>2, BackIs
    <3> QED
      BY <3>1, <3>3
  <2>4. Coming' = <<>> /\ Stream' = <<>>
    <3>1. <<>> \o <<>> = <<>>
      OBVIOUS
    <3>2. Coming' = <<>> \o <<>>
      BY <1>1, <1>4, <2>2, <2>3 DEF Coming
    <3> QED
      BY <1>1, <1>5, <3>1, <3>2 DEF Stream
  <2>5. /\ LinkOK(link') /\ link'.ssl # "none" /\ link'.cause \in {link.cause, "handshake"}
        /\ ~link'.shutting => ~link.shutting
    <3>1. link' \in Handshakes
      BY <1>1, <1>13
    <3>2. PICK l \in Handshakes : l = link'
      BY <3>1
    <3>3. /\ LinkOK(l) /\ l.ssl # "none" /\ l.cause \in {link.cause, "handshake"}
          /\ ~l.shutting => ~link.shutting
      BY <1>1, <1>9, HandshakesAre
    <3> QED
      BY <3>2, <3>3
  <2>6. Shape'
    <3>1. bio' \in Seq(Units) /\ Len(bio') <= BioCap
      BY <2>3, StreamsAssumption
    <3> QED
      BY <1>1, <1>2, <1>4, <1>5, <3>1 DEF Shape
  <2>7. LinkInv'
    <3>1. LinkOK(link)'
      BY <2>5 DEF LinkOK, Links
    <3> QED
      BY <1>1, <1>2, <1>5, <2>5, <3>1 DEF LinkInv
  <2>8. OrderInv'
    <3>1. first \in Nat /\ Len(<<>>) = 0 /\ handled' = <<>>
      BY <1>1, <1>5, StreamsAssumption DEF OrderInv
    <3>2. Flow(<<>>, first, first)
      BY DEF Flow
    <3>3. (sock # "none" /\ link.ssl # "handshake" => Flow(Stream, first + Len(handled), sent))'
      BY <1>2, <1>5, <2>4, <3>1, <3>2
    <3>4. HandledInOrder'
      BY <1>1, <1>2 DEF OrderInv, HandledInOrder
    <3> QED
      BY <1>1, <1>2, <3>3, <3>4 DEF OrderInv
  <2>9. HelloInv'
    BY <1>1, <1>2, <1>5, <2>4 DEF HelloInv
  <2>10. LineInv'
    BY <1>1, <1>2, <1>4, <1>5 DEF LineInv, Newlines
  <2>11. PoliteInv'
    <3>1. PoliteIsUnderstood'
      BY <1>1, <1>2, <2>5 DEF PoliteInv, PoliteIsUnderstood
    <3>2. \A i \in 1..Len(Stream') : FALSE
      BY <2>4
    <3> QED
      BY <1>1, <1>2, <3>1, <3>2 DEF PoliteInv
  <2> QED
    BY <2>6, <2>7, <2>8, <2>9, <2>10, <2>11 DEF StreamsInv
<1> QED
  BY <1>12, <1>13
------------------------------------------------------------------------------
(* The send buffers: what the link may come to grief over.                   *)

\* Results found too late or too fast are what makes a write go on for ever or a buffer
\* be missing; without the latter one buffer is kept for close_notify.
RoomOK(l) ==
  /\ l.failed = "endless" => "late" \in slips
  /\ l.failed = "no_buffer" => "burst" \in slips
  /\ l.ssl = "up" /\ ~l.shutting => "burst" \in slips \/ Taken(l) <= NBufs - 1

RoomInv ==
  strict \in BOOLEAN /\ slips \subseteq {"late", "burst"} /\ RoomOK(link)

\* What changes but the ssl and the buffers of a link does not matter.
LEMMA RoomSame ==
  ASSUME NEW l, NEW m, RoomOK(l), m.failed = l.failed, m.ssl = l.ssl,
         m.shutting = l.shutting, m.writes = l.writes, m.held = l.held
  PROVE  RoomOK(m)
BY DEF RoomOK, Taken

LEMMA DoShutdownRoom ==
  ASSUME NEW l, LinkOK(l), RoomOK(l), NEW cause \in Causes
  PROVE  RoomOK(DoShutdown(l, cause))
<1>0. l \in Links /\ Taken(l) \in Nat /\ NBufs \in Nat /\ NBufs >= 4 /\ l.shutting \in BOOLEAN
  BY LinkFields DEF LinkOK
<1>1. CASE l.shutting
  BY <1>1 DEF DoShutdown
<1>2. CASE ~l.shutting /\ l.ssl = "up"
  <2>1. PICK s : s = Send(l)
    OBVIOUS
  <2>2. s \in Links /\ s.failed \in {l.failed, "no_buffer"}
        /\ (s.failed = "no_buffer" /\ l.failed # "no_buffer" => "burst" \in slips)
    <3>1. CASE Taken(l) < NBufs
      BY <1>0, <2>1, <3>1, SendIs
    <3>2. CASE Taken(l) >= NBufs
      <4>1. "burst" \in slips
        BY <1>0, <1>2, <3>2 DEF RoomOK
      <4> QED
        BY <1>0, <2>1, <3>2, <4>1, SendIs
    <3> QED
      BY <1>0, <3>1, <3>2
  <2>3. PICK m : m = [s EXCEPT !.ssl = "shut", !.shutting = TRUE, !.cause = cause]
    OBVIOUS
  <2>4. m.ssl = "shut" /\ m.failed = s.failed
    BY <2>2, <2>3 DEF Links
  <2>5. DoShutdown(l, cause) = m
    BY <1>0, <1>2, <2>1, <2>2, <2>3 DEF DoShutdown, CloseNotify, Links
  <2> QED
    BY <2>2, <2>4, <2>5 DEF RoomOK
<1>3. CASE ~l.shutting /\ l.ssl # "up"
  <2>1. PICK m : m = [l EXCEPT !.shutting = TRUE, !.cause = cause]
    OBVIOUS
  <2>2. m.failed = l.failed /\ m.ssl = l.ssl
    BY <1>0, <2>1 DEF Links
  <2>3. DoShutdown(l, cause) = m
    BY <1>3, <2>1 DEF DoShutdown, CloseNotify
  <2> QED
    BY <1>3, <2>2, <2>3 DEF RoomOK
<1> QED
  BY <1>0, <1>1, <1>2, <1>3

LEMMA NotifyErrorRoom ==
  ASSUME NEW l, LinkOK(l), RoomOK(l), NEW cause \in Causes
  PROVE  RoomOK(NotifyError(l, cause))
<1>1. PICK d : d = DoShutdown(l, cause)
  OBVIOUS
<1>2. d \in Links /\ RoomOK(d)
  BY <1>1, DoShutdownIs, DoShutdownRoom DEF GivenUp, LinkOK
<1>3. PICK m : m = [d EXCEPT !.pool = "idle"]
  OBVIOUS
<1>4. /\ m.failed = d.failed /\ m.ssl = d.ssl /\ m.shutting = d.shutting
      /\ m.writes = d.writes /\ m.held = d.held
  BY <1>2, <1>3 DEF Links
<1>5. NotifyError(l, cause) = m
  BY <1>1, <1>3 DEF NotifyError
<1> QED
  BY <1>2, <1>4, <1>5, RoomSame

\* A send that leaves a buffer for close_notify.
LEMMA SendRoom ==
  ASSUME NEW l, LinkOK(l), RoomOK(l), Taken(l) < NBufs - 1
  PROVE  RoomOK(Send(l))
<1>1. l \in Links /\ Taken(l) \in Nat /\ NBufs \in Nat
  BY LinkFields DEF LinkOK
<1>2. PICK m : m = Send(l)
  OBVIOUS
<1>3. Taken(m) = Taken(l) + 1 /\ m.failed = l.failed
  BY <1>1, <1>2, SendIs
<1> QED
  BY <1>1, <1>2, <1>3 DEF RoomOK

LEMMA LogInRoom ==
  ASSUME NEW l, LinkOK(l), RoomOK(l), l.ssl \in {"none", "up"}, Taken(l) < NBufs - 1
  PROVE  RoomOK(LogIn(l))
<1>1. PICK m : m = [l EXCEPT !.pool = "connected"]
  OBVIOUS
<1>2. /\ m \in Links /\ m.ssl = l.ssl /\ m.pool = "connected" /\ m.shutting = l.shutting
      /\ m.cause = l.cause /\ m.failed = l.failed /\ m.writes = l.writes /\ m.held = l.held
  BY <1>1 DEF LinkOK, Links
<1>3. LinkOK(m) /\ RoomOK(m) /\ Taken(m) < NBufs - 1
  BY <1>2, RoomSame DEF LinkOK, Taken
<1>4. LogIn(l) = Send(m)
  BY <1>1, <1>2 DEF LogIn, Write
<1> QED
  BY <1>3, <1>4, SendRoom

\* Of a handshake there are two buffers at most when the pool logs in.
LEMMA HandshakesRoom ==
  ASSUME LinkOK(link), RoomOK(link), link.ssl = "handshake", Taken(link) <= 1,
         NEW m \in Handshakes
  PROVE  RoomOK(m)
<1>1. link \in Links /\ Taken(link) \in Nat /\ NBufs \in Nat /\ NBufs >= 4
  BY LinkFields DEF LinkOK
<1>2. PICK l \in {link, Send(link)} :
        \/ m = LogIn([l EXCEPT !.ssl = "up"]) \/ m = NotifyError(l, "handshake")
        \/ m = NotifyError([l EXCEPT !.ssl = "up"], "handshake")
  BY DEF Handshakes
<1>3. LinkOK(l) /\ l.ssl = "handshake" /\ RoomOK(l) /\ Taken(l) \in Nat /\ Taken(l) <= 2
  <2>1. Taken(link) < NBufs /\ Taken(link) < NBufs - 1
    BY <1>1
  <2>2. Taken(Send(link)) = Taken(link) + 1
    BY <1>1, <2>1, SendIs
  <2>3. CASE l = link
    BY <1>1, <2>3
  <2>4. CASE l = Send(link)
    <3>1. LinkOK(l) /\ l.ssl = "handshake"
      BY <2>4, SendKeeps
    <3>2. RoomOK(l)
      BY <2>1, <2>4, SendRoom
    <3>3. Taken(l) = Taken(link) + 1
      BY <2>2, <2>4
    <3> QED
      BY <1>1, <3>1, <3>2, <3>3
  <2> QED
    BY <2>3, <2>4
<1>4. PICK u : u = [l EXCEPT !.ssl = "up"]
  OBVIOUS
<1>5. /\ u \in Links /\ u.ssl = "up" /\ u.pool = l.pool
      /\ u.shutting = l.shutting /\ u.cause = l.cause /\ u.failed = l.failed
      /\ u.writes = l.writes /\ u.held = l.held
  BY <1>3, <1>4 DEF LinkOK, Links
<1>6. LinkOK(u) /\ Taken(u) = Taken(l)
  BY <1>3, <1>5 DEF LinkOK, Taken
<1>7. RoomOK(u) /\ Taken(u) < NBufs - 1
  BY <1>1, <1>3, <1>5, <1>6 DEF RoomOK
<1>8. "handshake" \in Causes
  BY DEF Causes
<1> QED
  BY <1>2, <1>3, <1>4, <1>5, <1>6, <1>7, <1>8, NotifyErrorRoom, LogInRoom

LEMMA AfterLineRoom ==
  ASSUME NEW l, LinkOK(l), RoomOK(l), NEW verdict, NEW answer
  PROVE  RoomOK(AfterLine(l, verdict, answer))
<1>1. "garbage" \in Causes /\ "refused" \in Causes
  BY DEF Causes
<1>2. CASE verdict = "garbage"
  BY <1>1, <1>2, NotifyErrorRoom DEF AfterLine
<1>3. CASE verdict = "refused"
  BY <1>1, <1>3, DoShutdownRoom DEF AfterLine
<1>4. CASE verdict = "handled" /\ answer = "job"
  <2>1. PICK m : m = [l EXCEPT !.pool = "has_job"]
    OBVIOUS
  <2>2. AfterLine(l, verdict, answer) = m
    BY <1>4, <2>1 DEF AfterLine
  <2>3. /\ m.writes = l.writes /\ m.held = l.held /\ m.ssl = l.ssl
        /\ m.shutting = l.shutting /\ m.failed = l.failed
    BY <2>1 DEF LinkOK, Links
  <2> QED
    BY <2>2, <2>3, RoomSame
<1>5. CASE verdict \notin {"garbage", "refused"} /\ ~(verdict = "handled" /\ answer = "job")
  BY <1>5 DEF AfterLine
<1> QED
  BY <1>2, <1>3, <1>4, <1>5

\* A result: on a link that shuts down it is late, and with one buffer left a burst.
LEMMA FoundResultRoom ==
  ASSUME StreamsInv, RoomInv, OnFoundResult
  PROVE  RoomInv'
<1>1. LinkOK(link) /\ RoomOK(link) /\ link \in Links /\ Taken(link) \in Nat /\ NBufs \in Nat
  BY LinkFields DEF StreamsInv, LinkInv, RoomInv, LinkOK
<1>2. /\ slips' = slips \cup (IF link.shutting THEN {"late"} ELSE {})
                        \cup (IF Taken(link) >= NBufs - 1 THEN {"burst"} ELSE {})
      /\ strict' = strict /\ link' = Write(link)
  BY DEF OnFoundResult, Taken
<1>3. strict' \in BOOLEAN /\ slips' \subseteq {"late", "burst"} /\ slips \subseteq slips'
  BY <1>2 DEF RoomInv
<1>4. RoomOK(link)'
  <2>1. CASE link.ssl = "shut"
    <3>1. link.shutting
      BY <1>1, <2>1 DEF LinkOK
    <3>2. PICK m : m = [[link EXCEPT !.pool = "idle"] EXCEPT !.failed = "endless"]
      OBVIOUS
    <3>3. m.ssl = "shut" /\ m.failed = "endless"
      BY <1>1, <2>1, <3>2 DEF Links
    <3>4. link' = m
      BY <1>2, <2>1, <3>1, <3>2 DEF Write, NotifyError, DoShutdown
    <3>5. "late" \in slips'
      BY <1>2, <3>1
    <3> QED
      BY <3>3, <3>4, <3>5 DEF RoomOK
  <2>2. CASE link.ssl # "shut"
    <3>1. link' = Send(link)
      BY <1>2, <2>2 DEF Write
    <3>2. PICK m : m = Send(link)
      OBVIOUS
    <3>3. /\ m.ssl = link.ssl /\ m.shutting = link.shutting
          /\ Taken(link) < NBufs => Taken(m) = Taken(link) + 1 /\ m.failed = link.failed
          /\ Taken(link) >= NBufs => m.failed = "no_buffer"
      BY <1>1, <3>2, SendIs
    <3>4. CASE Taken(link) >= NBufs - 1
      <4>1. "burst" \in slips'
        BY <1>2, <3>4
      <4>2. m.failed \in {link.failed, "no_buffer"}
        BY <1>1, <3>3
      <4> QED
        BY <1>1, <1>3, <3>1, <3>2, <4>1, <4>2 DEF RoomOK
    <3>5. CASE Taken(link) < NBufs - 1
      <4>1. Taken(m) <= NBufs - 1 /\ m.failed = link.failed
        BY <1>1, <3>3, <3>5
      <4>2. Taken(link') <= NBufs - 1 /\ link'.failed = link.failed
        BY <3>1, <3>2, <4>1
      <4>3. Taken(link)' <= NBufs - 1
        BY <4>2 DEF Taken
      <4> QED
        BY <1>1, <1>3, <4>2, <4>3 DEF RoomOK
    <3> QED
      BY <1>1, <3>4, <3>5
  <2> QED
    BY <2>1, <2>2
<1> QED
  BY <1>3, <1>4 DEF RoomInv

LEMMA RoomStep ==
  ASSUME RoomInv, UNCHANGED <<strict, slips>>, RoomOK(link')
  PROVE  RoomInv'
BY DEF RoomInv, RoomOK, Taken

LEMMA NewLinkRoom == RoomOK(NewLink)
BY DEF RoomOK, NewLink

LEMMA RoomNext ==
  ASSUME StreamsInv, RoomInv, [Next]_vars
  PROVE  RoomInv'
<1> USE DEF farSide
<1>0. LinkOK(link) /\ RoomOK(link) /\ link \in Links
  BY DEF StreamsInv, LinkInv, RoomInv, LinkOK
<1>a. {"full", "peer", "timeout", "tls"} \subseteq Causes
  BY DEF Causes
<1>1. CASE UNCHANGED vars
  BY <1>0, <1>1, RoomStep DEF vars
<1>2. CASE PoolSends
  BY <1>0, <1>2, RoomStep DEF PoolSends
<1>3. CASE OnConnect
  <2>1. link = NewLink /\ slips' = {} /\ strict' = strict
    BY <1>3 DEF OnConnect, StreamsInv, Shape
  <2>2. /\ NewLink.ssl = "none" /\ NewLink.failed = "none" /\ NewLink.shutting = FALSE
        /\ Taken(NewLink) = 0 /\ NBufs \in Nat /\ NBufs >= 4
    BY StreamsAssumption DEF NewLink, Taken
  <2>3. link'.failed = "none" /\ link'.ssl \in {"none", "handshake"}
    <3>1. CASE tls
      <4>1. PICK m : m = Send(NewLink)
        OBVIOUS
      <4>2. m \in Links /\ m.failed = "none"
        BY <1>0, <2>1, <2>2, <4>1, SendIs
      <4>3. link' = [m EXCEPT !.ssl = "handshake", !.pool = "connecting"]
        BY <1>3, <2>1, <2>2, <3>1, <4>1 DEF OnConnect
      <4> QED
        BY <4>2, <4>3 DEF Links
    <3>2. CASE ~tls
      <4>1. PICK n : n = [NewLink EXCEPT !.pool = "connected"]
        OBVIOUS
      <4>2. n \in Links /\ n.failed = "none" /\ n.ssl = "none" /\ Taken(n) = 0
        BY <1>0, <2>1, <2>2, <4>1 DEF Links, Taken
      <4>3. link' = Send(n)
        BY <1>3, <2>1, <3>2, <4>1, <4>2 DEF OnConnect, LogIn, Write
      <4>4. PICK m : m = Send(n)
        OBVIOUS
      <4>5. m.failed = "none" /\ m.ssl = "none"
        BY <2>2, <4>2, <4>4, SendIs
      <4> QED
        BY <4>3, <4>4, <4>5
    <3> QED
      BY <3>1, <3>2
  <2> QED
    BY <2>1, <2>3 DEF RoomInv, RoomOK
<1>4. CASE OnFullBuffer
  BY <1>0, <1>a, <1>4, NotifyErrorRoom, RoomStep DEF OnFullBuffer
<1>5. CASE ReadSome
  <2>1. UNCHANGED <<strict, slips>>
    BY <1>5 DEF ReadSome
  <2>2. link' = link \/ \E v, a : link' = AfterLine(link, v, a)
    BY <1>5 DEF ReadSome
  <2> QED
    BY <1>0, <2>1, <2>2, AfterLineRoom, RoomStep
<1>6. CASE SslIsFull \/ OnBadRecord
  <2>1. UNCHANGED <<strict, slips>> /\ link' = NotifyError(link, "tls")
    BY <1>6 DEF SslIsFull, OnBadRecord
  <2> QED
    BY <1>0, <1>a, <2>1, NotifyErrorRoom, RoomStep
<1>7. CASE OnHandshakeData
  <2>1. /\ UNCHANGED <<strict, slips>> /\ link.ssl = "handshake"
        /\ link' \in IF Record = <<>> THEN {link} ELSE Handshakes
        /\ looping /\ Takes > 0
    BY <1>7 DEF OnHandshakeData
  <2>2. Taken(link) <= 1
    <3>1. Coming # <<>>
      <4>1. Shape /\ Coming \in Seq(Units) /\ Len(Unread) = Len(recv) - consumed
            /\ Len(Coming) = Len(bio) + (Len(recv) - consumed) + Len(wire)
        BY PartsAre DEF StreamsInv
      <4>2. consumed < Len(recv) /\ Len(bio) \in Nat /\ Len(wire) \in Nat
            /\ consumed \in Nat /\ Len(recv) \in Nat
        BY <2>1, <4>1 DEF Shape
      <4>3. Len(Coming) > 0
        BY <4>1, <4>2
      <4> QED
        BY <4>3
    <3> QED
      BY <2>1, <3>1 DEF StreamsInv, HelloInv
  <2>3. RoomOK(link')
    <3>1. CASE Record = <<>>
      BY <1>0, <2>1, <3>1
    <3>2. CASE Record # <<>>
      BY <1>0, <2>1, <2>2, <3>2, HandshakesRoom
    <3> QED
      BY <3>1, <3>2
  <2> QED
    BY <2>1, <2>3, RoomStep
<1>8. CASE OnPartOfRecord
  BY <1>0, <1>8, RoomStep DEF OnPartOfRecord
<1>9. CASE OnFullText
  BY <1>0, <1>a, <1>9, DoShutdownRoom, RoomStep DEF OnFullText
<1>10. CASE OnRecord
  <2>1. UNCHANGED <<strict, slips>> /\ \E v, a : link' = AfterLine(link, v, a)
    BY <1>10 DEF OnRecord
  <2> QED
    BY <1>0, <2>1, AfterLineRoom, RoomStep
<1>11. CASE OnEndOfStream
  <2>1. UNCHANGED <<strict, slips>>
        /\ (link' = NotifyError(link, "peer") \/ link' = DoShutdown(link, "peer"))
    BY <1>11 DEF OnEndOfStream
  <2> QED
    BY <1>0, <1>a, <2>1, NotifyErrorRoom, DoShutdownRoom, RoomStep
<1>12. CASE OnFoundResult
  BY <1>12, FoundResultRoom
<1>13. CASE OnWriteComplete
  <2>1. UNCHANGED <<strict, slips>> /\ link' = [link EXCEPT !.writes = @ - 1]
    BY <1>13 DEF OnWriteComplete
  <2>2. PICK m : m = link'
    OBVIOUS
  <2>3. /\ m.ssl = link.ssl /\ m.shutting = link.shutting /\ m.failed = link.failed
        /\ m.writes = link.writes - 1 /\ m.held = link.held
    BY <1>0, <2>1, <2>2 DEF Links
  <2>4. link.writes \in Nat /\ link.held \in Nat /\ NBufs \in Nat
    BY <1>0, LinkFields
  <2>5. Taken(link) <= NBufs - 1 => Taken(m) <= NBufs - 1
    BY <2>3, <2>4 DEF Taken
  <2>6. RoomOK(m)
    BY <1>0, <2>3, <2>5 DEF RoomOK
  <2> QED
    BY <2>1, <2>2, <2>6, RoomStep
<1>14. CASE OnTimeout
  BY <1>0, <1>a, <1>14, NotifyErrorRoom, RoomStep DEF OnTimeout
<1>15. CASE OnShutdown
  BY <1>0, <1>15, RoomStep DEF OnShutdown
<1>16. CASE OnClose
  BY <1>16, NewLinkRoom, RoomStep DEF OnClose
<1> QED
  BY <1>1, <1>2, <1>3, <1>4, <1>5, <1>6, <1>7, <1>8, <1>9, <1>10, <1>11, <1>12, <1>13, <1>14,
     <1>15, <1>16
     DEF Next, Reading, Consuming, Ending
------------------------------------------------------------------------------
(* The invariant, and what it says.                                          *)

LEMMA StreamsInit == Init => StreamsInv
<1> SUFFICES ASSUME Init PROVE StreamsInv
  OBVIOUS
<1>1. /\ tls \in BOOLEAN /\ sock = "none" /\ link = NewLink /\ wire = <<>> /\ sent = 0 /\ first = 0
      /\ rude = {} /\ recv = <<>> /\ consumed = 0 /\ looping = FALSE /\ bio = <<>> /\ pt = <<>>
      /\ handled = <<>>
  BY DEF Init
<1>2. <<>> \in Seq(Units) /\ <<>> \in Seq(1..MaxMsgs) /\ Len(<<>>) = 0
  OBVIOUS
<1>3. Cap \in Nat /\ BioCap \in Nat /\ MaxMsgs \in Nat
  BY StreamsAssumption
<1>4. Shape
  <2>1. tls \in BOOLEAN /\ looping \in BOOLEAN /\ ~looping
    BY <1>1
  <2>2. consumed \in 0..Len(recv) /\ Len(recv) <= Cap /\ Len(pt) <= Cap /\ Len(bio) <= BioCap
    BY <1>1, <1>2, <1>3
  <2>3. /\ sock \in {"none", "reading", "deaf", "closing"}
        /\ wire \in Seq(Units) /\ recv \in Seq(Units) /\ bio \in Seq(Units) /\ pt \in Seq(Units)
    BY <1>1, <1>2
  <2> QED
    BY <1>1, <2>1, <2>2, <2>3 DEF Shape
<1>5. /\ NewLink.ssl = "none" /\ NewLink.shutting = FALSE /\ NewLink.cause = "none"
  BY DEF NewLink
<1>6. LinkInv
  BY <1>1, <1>5, NewLinkIs DEF LinkInv
<1>7. HandledInOrder
  <2>1. PICK e : e = [i \in 1..0 |-> first + i]
    OBVIOUS
  <2>2. e = <<>>
    BY <2>1
  <2> QED
    BY <1>1, <1>2, <2>1, <2>2 DEF HandledInOrder
<1>8. OrderInv
  <2>1. sent \in 0..MaxMsgs /\ first \in 0..sent /\ first + Len(handled) <= sent
    BY <1>1, <1>2, <1>3
  <2> QED
    BY <1>1, <1>2, <1>7, <2>1 DEF OrderInv
<1>9. HelloInv /\ LineInv
  BY <1>1, <1>5 DEF HelloInv, LineInv
<1>10. PoliteInv
  <2>1. sent <= first + Len(handled) + 1
    BY <1>1, <1>2
  <2> QED
    BY <1>1, <1>5, <2>1 DEF PoliteInv, PoliteIsUnderstood
<1> QED
  BY <1>4, <1>6, <1>8, <1>9, <1>10 DEF StreamsInv

LEMMA StreamsNext ==
  ASSUME StreamsInv, [Next]_vars
  PROVE  StreamsInv'
<1>1. CASE UNCHANGED vars
  <2>1. UNCHANGED <<tls, sock, wire, sent, first, rude, recv, consumed, looping, bio, pt,
                    handled, link>>
    BY <1>1 DEF vars
  <2>2. /\ Stream' = Stream /\ Coming' = Coming /\ Hello' = Hello /\ Newlines(pt)' = Newlines(pt)
        /\ Newlines(recv)' = Newlines(recv)
    BY <2>1 DEF Stream, Coming, Unread, Hello, Newlines
  <2>3. Shape' /\ LinkInv'
    BY <2>1 DEF StreamsInv, Shape, NewLink, LinkInv, LinkOK, Links
  <2>4. OrderInv'
    BY <2>1, <2>2 DEF StreamsInv, OrderInv, HandledInOrder, Flow, Linked
  <2>5. HelloInv' /\ LineInv'
    BY <2>1, <2>2 DEF StreamsInv, HelloInv, LineInv
  <2>6. PoliteInv'
    BY <2>1, <2>2 DEF StreamsInv, PoliteInv, PoliteIsUnderstood
  <2> QED
    BY <2>3, <2>4, <2>5, <2>6 DEF StreamsInv
<1>2. CASE PoolSends \/ OnConnect
  BY <1>2, PoolSendsKeeps, ConnectKeeps
<1>3. CASE Reading
  BY <1>3, ReadKeeps, FullBufferKeeps DEF Reading
<1>4. CASE Consuming
  BY <1>4, SslFullKeeps, HandshakeDataKeeps, PartOfRecordKeeps, BadRecordKeeps, FullTextKeeps,
     RecordKeeps DEF Consuming
<1>5. CASE OnEndOfStream \/ OnFoundResult \/ OnWriteComplete \/ OnTimeout
  BY <1>5, EndOfStreamKeeps, FoundResultKeeps, WriteCompleteKeeps, TimeoutKeeps
<1>6. CASE Ending
  BY <1>6, ShutdownKeeps, CloseKeeps DEF Ending
<1> QED
  BY <1>1, <1>2, <1>3, <1>4, <1>5, <1>6 DEF Next

\* Between two callbacks what has come and is not handled ends with a line, and that line
\* is in no buffer of the program.
LEMMA UnhandledIsInSsl ==
  ASSUME StreamsInv, sock = "reading", ~looping, ~link.shutting,
         Newlines(pt) = {}, IF tls THEN recv = <<>> ELSE Newlines(recv) = {},
         wire = <<>>, Len(handled) < sent - first
  PROVE  tls /\ Newlines(bio) # {}
<1>1. Shape /\ OrderInv /\ HelloInv /\ PoliteInv
  BY DEF StreamsInv
<1>2. /\ pt \in Seq(Units) /\ bio \in Seq(Units) /\ recv \in Seq(Units) /\ consumed = 0
      /\ tls \in BOOLEAN
  BY <1>1 DEF Shape
<1>3. /\ sent \in Nat /\ first \in Nat /\ Len(handled) \in Nat /\ first + Len(handled) # sent
      /\ handled \in Seq(1..MaxMsgs)
  <2>1. handled \in Seq(1..MaxMsgs) /\ sent \in 0..MaxMsgs /\ first \in 0..sent
    BY <1>1 DEF OrderInv
  <2>2. sent \in Nat /\ first \in Nat /\ Len(handled) \in Nat
    BY <2>1, StreamsAssumption
  <2> QED
    BY <2>1, <2>2
<1>4. link.ssl # "handshake"
  <2>1. ASSUME link.ssl = "handshake" PROVE FALSE
    <3>1. handled = <<>> /\ sent = first
      BY <1>1, <2>1 DEF HelloInv
    <3> QED
      BY <1>3, <3>1
  <2> QED
    BY <2>1
<1>5. PICK s \in Seq(Units) : s = Stream
  BY <1>1, PartsAre
<1>6. /\ Flow(s, first + Len(handled), sent)
      /\ \A i \in 1..Len(s) : s[i].msg # Junk
  BY <1>1, <1>4, <1>5 DEF OrderInv, PoliteInv
<1>7. s # <<>>
  BY <1>3, <1>6 DEF Flow
<1>8. PICK n \in 1..Len(s) : n = Len(s) /\ s[n].at = s[n].size
  <2>1. Len(s) \in 1..Len(s)
    BY <1>7
  <2> QED
    BY <1>6, <1>7, <2>1 DEF Flow
<1>9. Unread = recv
  <2>1. SubSeq(recv, 1, Len(recv)) = recv
    BY <1>2
  <2> QED
    BY <1>2, <2>1 DEF Unread
<1>10. Coming = bio \o recv
  <2>1. recv \o <<>> = recv
    BY <1>2
  <2> QED
    BY <1>9, <2>1 DEF Coming
<1>11. PICK c \in Seq(Units) : c = bio \o recv
  <2>1. bio \o recv \in Seq(Units)
    BY <1>2, JoinIs
  <2> QED
    BY <2>1
<1>12. /\ s = pt \o c /\ Len(s) = Len(pt) + Len(c) /\ Len(pt) \in Nat /\ Len(c) \in Nat
       /\ \A i \in 1..Len(pt) : s[i] = pt[i]
       /\ \A i \in 1..Len(c) : s[Len(pt) + i] = c[i]
  <2>1. s = pt \o c
    BY <1>5, <1>10, <1>11 DEF Stream
  <2> QED
    BY <1>2, <2>1, JoinIs
<1>13. c # <<>>
  <2>1. ASSUME c = <<>> PROVE FALSE
    <3>1. n \in 1..Len(pt) /\ pt[n].at = pt[n].size
      BY <1>8, <1>12, <2>1
    <3>2. n \in DOMAIN pt
      BY <1>2, <3>1
    <3> QED
      BY <3>1, <3>2 DEF Newlines
  <2> QED
    BY <2>1
<1>14. PICK k \in 1..Len(c) : k = Len(c) /\ c[k].at = c[k].size
  <2>1. Len(c) \in 1..Len(c)
    BY <1>12, <1>13
  <2>2. s[Len(pt) + Len(c)] = c[Len(c)]
    BY <1>12, <2>1
  <2> QED
    BY <1>8, <1>12, <2>1, <2>2
<1>15. CASE ~tls
  <2>1. bio = <<>>
    BY <1>1, <1>15 DEF Shape
  <2>2. c = recv
    BY <1>2, <1>11, <2>1
  <2>3. k \in DOMAIN recv /\ recv[k].at = recv[k].size
    BY <1>2, <1>14, <2>2
  <2> QED
    BY <1>15, <2>3 DEF Newlines
<1>16. CASE tls
  <2>1. c = bio
    BY <1>2, <1>11, <1>16
  <2>2. k \in DOMAIN bio /\ bio[k].at = bio[k].size
    BY <1>2, <1>14, <2>1
  <2> QED
    BY <1>16, <2>2 DEF Newlines
<1> QED
  BY <1>2, <1>15, <1>16

THEOREM StreamsInvariant == Spec => []StreamsInv
<1>1. StreamsInv /\ [Next]_vars => StreamsInv'
  BY StreamsNext
<1> QED
  BY <1>1, StreamsInit, PTL DEF Spec

THEOREM RoomInvariant == Spec => []RoomInv
<1>1. Init => RoomInv
  BY NewLinkRoom DEF Init, RoomInv
<1>2. StreamsInv /\ RoomInv /\ [Next]_vars => RoomInv'
  BY RoomNext
<1> QED
  BY <1>1, <1>2, StreamsInvariant, PTL DEF Spec

\* Whatever the sizes of the buffers and of what is sent, no buffer is overrun by what is
\* read into it, decrypted or given to the SSL object.
THEOREM StreamsTypeCorrect == Spec => []TypeOK
<1>1. StreamsInv /\ RoomInv => TypeOK
  <2> SUFFICES ASSUME StreamsInv, RoomInv PROVE TypeOK
    OBVIOUS
  <2>1. Shape /\ OrderInv /\ PoliteInv /\ link \in Links
    BY DEF StreamsInv, LinkInv, LinkOK
  <2> QED
    BY <2>1 DEF TypeOK, Shape, OrderInv, PoliteInv, RoomInv
<1> QED
  BY <1>1, StreamsInvariant, RoomInvariant, PTL

\* However the stream is cut into reads and records, and whatever was spoilt or left over
\* before, process_json_doc gets the messages of a connection in order and each once.
THEOREM MessagesInOrder == Spec => []HandledInOrder
<1>1. StreamsInv => HandledInOrder
  BY DEF StreamsInv, OrderInv
<1> QED
  BY <1>1, StreamsInvariant, PTL

\* A pool that waits for each message to be handled, and sends none too long, is never
\* given up as if it had sent garbage, a bad record or too much.  That a reply can be left
\* inside the SSL object, until the call is timed out, is not excluded.
THEOREM PoliteAreUnderstood == Spec => []PoliteIsUnderstood
<1>1. StreamsInv => PoliteIsUnderstood
  BY DEF StreamsInv, PoliteInv
<1> QED
  BY <1>1, StreamsInvariant, PTL

\* When the callback that has read returns, no complete line is left in recv_buf or
\* pt_buf of a link in use; what has come and is not handled is inside the SSL object.
THEOREM NoLineIsLeft == Spec => []NoLineWaits
<1>1. StreamsInv => NoLineWaits
  <2> SUFFICES ASSUME StreamsInv, sock = "reading", ~looping, ~link.shutting
               PROVE  /\ Newlines(pt) = {}
                      /\ IF tls THEN recv = <<>> ELSE Newlines(recv) = {}
                      /\ wire = <<>> /\ Len(handled) < sent - first
                           => tls /\ Newlines(bio) # {}
    BY DEF NoLineWaits
  <2>1. LineInv /\ tls \in BOOLEAN
    BY DEF StreamsInv, Shape
  <2>2. Newlines(pt) = {} /\ (IF tls THEN recv = <<>> ELSE Newlines(recv) = {})
    BY <2>1 DEF LineInv
  <2>3. ASSUME wire = <<>>, Len(handled) < sent - first
        PROVE  tls /\ Newlines(bio) # {}
    <3>1. wire = <<>> /\ Len(handled) < sent - first
      BY <2>3
    <3> QED
      BY <2>2, <3>1, UnhandledIsInSsl
  <2> QED
    BY <2>2, <2>3
<1> QED
  BY <1>1, StreamsInvariant, PTL

\* With four send buffers or more, ssl is freed between connections, a write for ever
\* follows a result found during a shutdown, and a missing buffer a result that took the
\* last one or found none: the login, the handshake and close_notify always have theirs.
THEOREM LinkIsHeld == Spec => []LinkHolds
<1>1. StreamsInv /\ RoomInv => LinkHolds
  BY DEF StreamsInv, LinkInv, LinkOK, RoomInv, RoomOK, LinkHolds
<1> QED
  BY <1>1, StreamsInvariant, RoomInvariant, PTL
=============================================================================
