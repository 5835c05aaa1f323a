----------------------------- MODULE LineBuffer -----------------------------
(* How a buffer of received data is turned into messages: consume_loop of   *)
(* net_interface over pool::net_on_data_recv.  Data is a sequence of units  *)
(* of messages; the last unit of a message is the one with its newline.     *)
EXTENDS Naturals, SequencesExt

CONSTANT Junk  \* in place of a message: what parsing has left of one

\* Unit at of size of message msg; seal marks the end of a TLS record.
Unit(msg, at, size, seal) == [msg |-> msg, at |-> at, size |-> size, seal |-> seal]

Newlines(buf) == {i \in DOMAIN buf : buf[i].at = buf[i].size}

\* A line is a JSON object only if it is one whole message.
IsMessage(line) ==
  /\ line[1].msg # Junk
  /\ Len(line) = line[1].size
  /\ \A i \in DOMAIN line : line[i].msg = line[1].msg /\ line[i].at = i

\* The line is parsed in place and its newline is overwritten.
Spoil(buf, end) ==
  [i \in DOMAIN buf |->
     IF i > end THEN buf[i]
     ELSE Unit(Junk, IF i = end THEN 0 ELSE buf[i].at, buf[i].size, buf[i].seal)]

Nothing(buf) == [verdict |-> "none", rest |-> buf, message |-> <<>>]

\* Mutant of Consume: the first newline ends the line, and nothing after it is looked at.
ConsumeFirst(buf, accepted) ==
  LET end  == Min(Newlines(buf))
      line == SubSeq(buf, 1, end)
  IN IF Newlines(buf) = {} THEN Nothing(buf)
     ELSE IF ~IsMessage(line)
       THEN [verdict |-> "garbage", rest |-> Spoil(buf, end), message |-> <<>>]
     ELSE [verdict |-> IF accepted THEN "handled" ELSE "refused",
           rest    |-> IF accepted THEN SubSeq(buf, end + 1, Len(buf)) ELSE Spoil(buf, end),
           message |-> <<line[1].msg>>]

\* Mutant of Consume: the last line alone is looked at, and all is consumed.
ConsumeLast(buf, accepted) ==
  LET end  == Max(Newlines(buf))
      line == SubSeq(buf, Max({0} \cup Newlines(SubSeq(buf, 1, end - 1))) + 1, end)
  IN IF Newlines(buf) = {} THEN Nothing(buf)
     ELSE IF ~IsMessage(line)
       THEN [verdict |-> "garbage", rest |-> Spoil(buf, end), message |-> <<>>]
     ELSE [verdict |-> IF accepted THEN "handled" ELSE "refused",
           rest    |-> IF accepted THEN SubSeq(buf, end + 1, Len(buf)) ELSE Spoil(buf, end),
           message |-> <<line[1].msg>>]

\* consume_loop: everything up to the last newline is one line; what follows it has no
\* newline, so the second round of the loop consumes nothing.  A line that is not
\* accepted stays in the buffer, as parsing has left it.
Consume(buf, accepted) ==
  LET end  == Max(Newlines(buf))
      line == SubSeq(buf, 1, end)
  IN IF Newlines(buf) = {} THEN Nothing(buf)
     ELSE IF ~IsMessage(line)
       THEN [verdict |-> "garbage", rest |-> Spoil(buf, end), message |-> <<>>]
     ELSE [verdict |-> IF accepted THEN "handled" ELSE "refused",
           rest    |-> IF accepted THEN SubSeq(buf, end + 1, Len(buf)) ELSE Spoil(buf, end),
           message |-> <<line[1].msg>>]
=============================================================================
