----------------------------- MODULE StreamFlow -----------------------------
(* Lemmas about the data of Streams: what is under way on a connection, as   *)
(* it is cut, read, parsed, spoilt and consumed, for any sizes of messages.  *)
EXTENDS Streams, NumberFacts, SequenceTheorems

LEMMA UnitFacts ==
  /\ \A u \in Units : /\ u.msg \in (0..MaxMsgs) \cup {Junk} /\ u.at \in Nat
                      /\ u.size \in Nat \ {0} /\ u.seal \in BOOLEAN
                      /\ u.msg # Junk => u.msg \in 0..MaxMsgs
  /\ Junk \notin Nat /\ MaxMsgs \in Nat
<1>1. ASSUME NEW u \in Units
      PROVE  /\ u.msg \in (0..MaxMsgs) \cup {Junk} /\ u.at \in Nat
             /\ u.size \in Sizes \cup {HelloSize} /\ u.seal \in BOOLEAN
  BY DEF Units
<1>2. Sizes \cup {HelloSize} \subseteq Nat \ {0} /\ Junk \notin Nat /\ MaxMsgs \in Nat
  BY StreamsAssumption
<1> QED
  BY <1>1, <1>2

\* Two units one after the other, unless one of them is what parsing has left.
Linked(a, b) ==
  a.msg # Junk /\ b.msg # Junk =>
    IF a.at = a.size THEN b.msg = a.msg + 1 /\ b.at = 1
                     ELSE b.msg = a.msg /\ b.at = a.at + 1 /\ b.size = a.size

\* What is under way when the pool has sent message hi and lo is handled: as far as it
\* has not been spoilt, the messages after lo, from the first unit of the next one to the
\* last unit of hi.
Flow(s, lo, hi) ==
  /\ \A i \in 1..Len(s) : i + 1 <= Len(s) => Linked(s[i], s[i + 1])
  /\ \A i \in 1..Len(s) : s[i].msg # Junk => s[i].msg <= hi
  /\ s # <<>> => /\ s[1].msg # Junk => s[1].msg = lo + 1 /\ s[1].at = 1
                 /\ s[Len(s)].msg # Junk =>
                      s[Len(s)].msg = hi /\ s[Len(s)].at = s[Len(s)].size
  /\ s = <<>> => lo = hi

\* t is s with the m units after the first n replaced by k units of junk.
Spliced(s, t, n, m, k) ==
  /\ Len(t) = Len(s) - m + k
  /\ \A i \in 1..n : t[i] = s[i]
  /\ \A i \in (n + 1)..(n + k) : t[i].msg = Junk
  /\ \A i \in (n + k + 1)..Len(t) : t[i] = s[i - k + m]

\* Where a part of what is under way is spoilt, the rest is as it was.
LEMMA FlowSplice ==
  ASSUME NEW s \in Seq(Units), NEW t \in Seq(Units), NEW lo \in Nat, NEW hi \in Nat,
         Flow(s, lo, hi),
         NEW n \in 0..Len(s), NEW m \in 0..(Len(s) - n), NEW k \in Nat \ {0},
         Spliced(s, t, n, m, k)
  PROVE  Flow(t, lo, hi)
<1> USE DEF Spliced
<1>1. Len(s) \in Nat /\ Len(t) \in Nat /\ Len(t) >= 1 /\ t # <<>>
  OBVIOUS
<1>2. ASSUME NEW i \in 1..Len(t), i + 1 <= Len(t) PROVE Linked(t[i], t[i + 1])
  <2>1. CASE i + 1 <= n
    <3>1. i \in 1..n /\ i + 1 \in 1..n /\ i \in 1..Len(s) /\ i + 1 <= Len(s)
      BY <1>1, <1>2, <2>1
    <3>2. t[i] = s[i]
      BY <3>1
    <3>3. t[i + 1] = s[i + 1]
      BY <3>1
    <3>4. Linked(s[i], s[i + 1])
      BY <3>1 DEF Flow
    <3> QED
      BY <3>2, <3>3, <3>4
  <2>2. CASE i <= n /\ n < i + 1
    <3>1. i + 1 \in (n + 1)..(n + k)
      BY <1>1, <1>2, <2>2
    <3>2. t[i + 1].msg = Junk
      BY <3>1
    <3> QED
      BY <3>2 DEF Linked
  <2>3. CASE i > n /\ i <= n + k
    <3>1. t[i].msg = Junk
      BY <2>3
    <3> QED
      BY <3>1 DEF Linked
  <2>4. CASE i > n + k
    <3>1. i \in (n + k + 1)..Len(t) /\ i + 1 \in (n + k + 1)..Len(t)
      BY <1>1, <1>2, <2>4
    <3>2. t[i] = s[i - k + m] /\ t[i + 1] = s[i + 1 - k + m]
      <4>1. \A x \in (n + k + 1)..Len(t) : t[x] = s[x - k + m]
        OBVIOUS
      <4>2. t[i] = s[i - k + m]
        BY <3>1, <4>1
      <4>3. PICK x \in (n + k + 1)..Len(t) : x = i + 1
        BY <3>1
      <4>4. t[x] = s[x - k + m]
        BY <4>1
      <4>5. x - k + m = i + 1 - k + m
        BY <4>3
      <4> QED
        BY <4>2, <4>3, <4>4, <4>5
    <3>3. i - k + m \in 1..Len(s) /\ i - k + m + 1 <= Len(s) /\ i + 1 - k + m = i - k + m + 1
      BY <1>1, <1>2, <2>4
    <3>4. PICK j \in 1..Len(s) : j = i - k + m
      BY <3>3
    <3>5. t[i] = s[j] /\ t[i + 1] = s[j + 1] /\ j + 1 <= Len(s)
      BY <3>2, <3>3, <3>4
    <3> QED
      BY <3>5 DEF Flow
  <2> QED
    BY <2>1, <2>2, <2>3, <2>4
<1>3. ASSUME NEW i \in 1..Len(t), t[i].msg # Junk PROVE t[i].msg <= hi
  <2>1. CASE i <= n
    <3>1. i \in 1..n /\ i \in 1..Len(s)
      BY <1>1, <2>1
    <3>2. t[i] = s[i]
      BY <3>1
    <3> QED
      BY <1>3, <3>1, <3>2 DEF Flow
  <2>2. CASE i > n + k
    <3>1. i - k + m \in 1..Len(s) /\ i \in (n + k + 1)..Len(t)
      BY <1>1, <2>2
    <3>2. t[i] = s[i - k + m]
      BY <3>1
    <3> QED
      BY <1>3, <3>1, <3>2 DEF Flow
  <2>3. CASE i > n /\ i <= n + k
    <3>1. i \in (n + 1)..(n + k)
      BY <2>3
    <3> QED
      BY <1>3, <3>1
  <2> QED
    BY <2>1, <2>2, <2>3
<1>4. t[1].msg # Junk => t[1].msg = lo + 1 /\ t[1].at = 1
  <2>1. CASE n = 0
    BY <2>1
  <2>2. CASE n # 0
    BY <1>1, <2>2 DEF Flow
  <2> QED
    BY <2>1, <2>2
<1>5. t[Len(t)].msg # Junk => t[Len(t)].msg = hi /\ t[Len(t)].at = t[Len(t)].size
  <2>1. CASE Len(t) <= n + k
    BY <1>1, <2>1
  <2>2. CASE Len(t) > n + k
    <3>1. t[Len(t)] = s[Len(s)]
      BY <1>1, <2>2
    <3> QED
      BY <1>1, <2>2, <3>1 DEF Flow
  <2> QED
    BY <2>1, <2>2
<1> QED
  BY <1>1, <1>2, <1>3, <1>4, <1>5 DEF Flow

\* What is sent joins what is under way.
LEMMA FlowAppend ==
  ASSUME NEW s \in Seq(Units), NEW t \in Seq(Units),
         NEW lo \in Nat, NEW mid \in Nat, NEW hi \in Nat, mid <= hi,
         Flow(s, lo, mid), Flow(t, mid, hi)
  PROVE  Flow(s \o t, lo, hi)
<1> DEFINE u == s \o t
<1>1. /\ Len(s) \in Nat /\ Len(t) \in Nat /\ u \in Seq(Units) /\ Len(u) = Len(s) + Len(t)
      /\ \A i \in 1..Len(s) : u[i] = s[i]
      /\ \A i \in 1..Len(t) : u[Len(s) + i] = t[i]
  <2>1. /\ u \in Seq(Units) /\ Len(u) = Len(s) + Len(t)
        /\ \A i \in 1..(Len(s) + Len(t)) : u[i] = IF i <= Len(s) THEN s[i] ELSE t[i - Len(s)]
    BY ConcatProperties
  <2> HIDE DEF u
  <2> QED
    BY <2>1
<1> HIDE DEF u
<1>2. \A i \in 1..Len(u) : i \in 1..Len(s) \/ \E j \in 1..Len(t) : i = Len(s) + j
  <2> SUFFICES ASSUME NEW i \in 1..Len(u), ~(i \in 1..Len(s))
               PROVE  \E j \in 1..Len(t) : i = Len(s) + j
    OBVIOUS
  <2>1. i - Len(s) \in 1..Len(t) /\ i = Len(s) + (i - Len(s))
    BY <1>1
  <2> QED
    BY <2>1
<1>3. ASSUME NEW i \in 1..Len(u), i + 1 <= Len(u) PROVE Linked(u[i], u[i + 1])
  <2>1. CASE i + 1 <= Len(s)
    <3>1. i \in 1..Len(s) /\ i + 1 \in 1..Len(s)
      BY <1>1, <2>1
    <3>2. u[i] = s[i] /\ u[i + 1] = s[i + 1]
      BY <1>1, <3>1
    <3> QED
      BY <2>1, <3>1, <3>2 DEF Flow
  <2>2. CASE i = Len(s)
    <3>1. u[i] = s[Len(s)] /\ u[i + 1] = t[1] /\ s # <<>> /\ t # <<>>
      BY <1>1, <1>3, <2>2
    <3>2. s[Len(s)].msg # Junk => s[Len(s)].msg = mid /\ s[Len(s)].at = s[Len(s)].size
      BY <3>1 DEF Flow
    <3>3. t[1].msg # Junk => t[1].msg = mid + 1 /\ t[1].at = 1
      BY <3>1 DEF Flow
    <3> QED
      BY <3>1, <3>2, <3>3 DEF Linked
  <2>3. CASE i > Len(s)
    <3>0. ~(i \in 1..Len(s))
      BY <1>1, <2>3
    <3>1. PICK j \in 1..Len(t) : i = Len(s) + j
      BY <1>2, <3>0
    <3>3. j + 1 \in 1..Len(t) /\ i + 1 = Len(s) + (j + 1)
      BY <1>1, <1>3, <3>1
    <3>2. u[i] = t[j] /\ u[i + 1] = t[j + 1] /\ j + 1 <= Len(t)
      BY <1>1, <3>1, <3>3
    <3> QED
      BY <3>2 DEF Flow
  <2> QED
    BY <1>1, <2>1, <2>2, <2>3
<1>4. ASSUME NEW i \in 1..Len(u), u[i].msg # Junk PROVE u[i].msg <= hi
  <2>1. CASE i \in 1..Len(s)
    <3>1. u[i] = s[i] /\ s[i].msg <= mid
      BY <1>1, <1>4, <2>1 DEF Flow
    <3>2. s[i].msg \in Nat
      BY <1>4, <2>1, <3>1, UnitFacts
    <3> QED
      BY <3>1, <3>2
  <2>2. CASE \E j \in 1..Len(t) : i = Len(s) + j
    BY <1>1, <1>4, <2>2 DEF Flow
  <2> QED
    BY <1>2, <2>1, <2>2
<1>5. ASSUME u # <<>>
      PROVE  /\ u[1].msg # Junk => u[1].msg = lo + 1 /\ u[1].at = 1
             /\ u[Len(u)].msg # Junk => u[Len(u)].msg = hi /\ u[Len(u)].at = u[Len(u)].size
  <2>1. CASE s = <<>>
    <3>1. lo = mid /\ t # <<>> /\ Len(s) = 0 /\ u[1] = t[1] /\ u[Len(u)] = t[Len(t)]
      BY <1>1, <1>5, <2>1 DEF Flow
    <3> QED
      BY <3>1 DEF Flow
  <2>2. CASE s # <<>> /\ t = <<>>
    <3>1. mid = hi /\ Len(t) = 0 /\ u[1] = s[1] /\ u[Len(u)] = s[Len(s)]
      BY <1>1, <2>2 DEF Flow
    <3> QED
      BY <2>2, <3>1 DEF Flow
  <2>3. CASE s # <<>> /\ t # <<>>
    <3>1. u[1] = s[1] /\ u[Len(u)] = t[Len(t)]
      BY <1>1, <2>3
    <3> QED
      BY <2>3, <3>1 DEF Flow
  <2> QED
    BY <2>1, <2>2, <2>3
<1>6. u = <<>> => lo = hi
  <2> SUFFICES ASSUME u = <<>> PROVE lo = hi
    OBVIOUS
  <2>1. s = <<>> /\ t = <<>>
    BY <1>1
  <2> QED
    BY <2>1 DEF Flow
<1>7. Flow(u, lo, hi)
  BY <1>3, <1>4, <1>5, <1>6 DEF Flow
<1> QED
  BY <1>7 DEF u

\* When the next message has been handled, what follows it is under way.
LEMMA FlowDrop ==
  ASSUME NEW s \in Seq(Units), NEW lo \in Nat, NEW hi \in Nat, Flow(s, lo, hi),
         NEW n \in 1..Len(s), s[n].msg # Junk, s[n].msg = lo + 1, s[n].at = s[n].size
  PROVE  lo + 1 <= hi /\ Flow(SubSeq(s, n + 1, Len(s)), lo + 1, hi)
<1> DEFINE t == SubSeq(s, n + 1, Len(s))
<1>1. /\ Len(s) \in Nat /\ t \in Seq(Units) /\ Len(t) = Len(s) - n
      /\ \A i \in 1..Len(t) : t[i] = s[n + i]
  <2>1. \A i \in (n + 1)..Len(s) : s[i] \in Units
    OBVIOUS
  <2>2. /\ t \in Seq(Units) /\ Len(t) = IF n + 1 <= Len(s) THEN Len(s) - (n + 1) + 1 ELSE 0
        /\ \A i \in 1..(Len(s) - (n + 1) + 1) : t[i] = s[n + 1 + i - 1]
    <3>1. n + 1 \in Int /\ Len(s) \in Int
      OBVIOUS
    <3> QED
      BY <2>1, <3>1, SubSeqProperties
  <2> HIDE DEF t
  <2> QED
    BY <2>2
<1> HIDE DEF t
<1>2. lo + 1 <= hi
  BY DEF Flow
<1>3. ASSUME NEW i \in 1..Len(t), i + 1 <= Len(t) PROVE Linked(t[i], t[i + 1])
  <2>1. PICK j \in 1..Len(s) : j = n + i
    <3>1. n + i \in 1..Len(s)
      BY <1>1, <1>3
    <3> QED
      BY <3>1
  <2>2. i + 1 \in 1..Len(t) /\ j + 1 <= Len(s) /\ j + 1 = n + (i + 1)
    BY <1>1, <1>3, <2>1
  <2>3. t[i] = s[j] /\ t[i + 1] = s[j + 1]
    BY <1>1, <2>1, <2>2
  <2> QED
    BY <2>1, <2>2, <2>3 DEF Flow
<1>4. ASSUME NEW i \in 1..Len(t), t[i].msg # Junk PROVE t[i].msg <= hi
  <2>1. n + i \in 1..Len(s) /\ t[i] = s[n + i]
    BY <1>1
  <2>2. \A j \in 1..Len(s) : s[j].msg # Junk => s[j].msg <= hi
    BY DEF Flow
  <2>3. PICK j \in 1..Len(s) : j = n + i
    BY <2>1
  <2>4. t[i] = s[j]
    BY <2>1, <2>3
  <2> QED
    BY <1>4, <2>2, <2>4
<1>5. ASSUME t # <<>>
      PROVE  /\ t[1].msg # Junk => t[1].msg = lo + 1 + 1 /\ t[1].at = 1
             /\ t[Len(t)].msg # Junk => t[Len(t)].msg = hi /\ t[Len(t)].at = t[Len(t)].size
  <2>1. Len(t) >= 1 /\ n + 1 <= Len(s) /\ t[1] = s[n + 1] /\ t[Len(t)] = s[Len(s)]
    <3>1. /\ Len(t) >= 1 /\ n + 1 <= Len(s) /\ 1 \in 1..Len(t) /\ Len(t) \in 1..Len(t)
          /\ n + Len(t) = Len(s)
      BY <1>1, <1>5
    <3>2. \A i \in 1..Len(t) : t[i] = s[n + i]
      BY <1>1
    <3>3. t[1] = s[n + 1] /\ t[Len(t)] = s[n + Len(t)]
      BY <3>1, <3>2
    <3> QED
      BY <3>1, <3>3
  <2>2. Linked(s[n], s[n + 1])
    BY <2>1 DEF Flow
  <2> QED
    BY <2>1, <2>2 DEF Flow, Linked
<1>6. t = <<>> => lo + 1 = hi
  <2> SUFFICES ASSUME t = <<>> PROVE lo + 1 = hi
    OBVIOUS
  <2>1. n = Len(s)
    BY <1>1
  <2> QED
    BY <2>1 DEF Flow
<1>7. Flow(t, lo + 1, hi)
  BY <1>3, <1>4, <1>5, <1>6 DEF Flow
<1> QED
  BY <1>2, <1>7 DEF t
------------------------------------------------------------------------------
(* Parts of sequences. *)

LEMMA FrontIs ==
  ASSUME NEW S, NEW s \in Seq(S), NEW n \in 0..Len(s)
  PROVE  /\ SubSeq(s, 1, n) \in Seq(S) /\ Len(SubSeq(s, 1, n)) = n
         /\ \A i \in 1..n : SubSeq(s, 1, n)[i] = s[i]
<1>1. n \in Nat /\ \A i \in 1..n : s[i] \in S
  OBVIOUS
<1>2. PICK t : t = SubSeq(s, 1, n)
  OBVIOUS
<1>3. /\ t \in Seq(S) /\ Len(t) = IF 1 <= n THEN n - 1 + 1 ELSE 0
      /\ \A i \in 1..(n - 1 + 1) : t[i] = s[1 + i - 1]
  BY <1>1, <1>2, SubSeqProperties
<1> QED
  BY <1>1, <1>2, <1>3

LEMMA BackIs ==
  ASSUME NEW S, NEW s \in Seq(S), NEW n \in 0..Len(s)
  PROVE  /\ SubSeq(s, n + 1, Len(s)) \in Seq(S) /\ Len(SubSeq(s, n + 1, Len(s))) = Len(s) - n
         /\ \A i \in 1..(Len(s) - n) : SubSeq(s, n + 1, Len(s))[i] = s[n + i]
<1>1. n + 1 \in Int /\ Len(s) \in Int /\ n \in Nat /\ \A i \in (n + 1)..Len(s) : s[i] \in S
  OBVIOUS
<1>2. PICK t : t = SubSeq(s, n + 1, Len(s))
  OBVIOUS
<1>3. /\ t \in Seq(S) /\ Len(t) = IF n + 1 <= Len(s) THEN Len(s) - (n + 1) + 1 ELSE 0
      /\ \A i \in 1..(Len(s) - (n + 1) + 1) : t[i] = s[n + 1 + i - 1]
  BY <1>1, <1>2, SubSeqProperties
<1>4. \A i \in 1..(Len(s) - n) : i \in 1..(Len(s) - (n + 1) + 1) /\ n + 1 + i - 1 = n + i
  BY <1>1
<1>5. \A i \in 1..(Len(s) - n) : t[i] = s[n + i]
  BY <1>3, <1>4
<1> QED
  BY <1>1, <1>2, <1>3, <1>5

LEMMA CutIn ==
  ASSUME NEW S, NEW s \in Seq(S), NEW n \in 0..Len(s)
  PROVE  SubSeq(s, 1, n) \o SubSeq(s, n + 1, Len(s)) = s
<1>1. 1 \in 1..(Len(s) + 1) /\ n \in (1 - 1)..Len(s) /\ Len(s) \in n..Len(s)
  OBVIOUS
<1>2. SubSeq(s, 1, n) \o SubSeq(s, n + 1, Len(s)) = SubSeq(s, 1, Len(s))
  BY <1>1, ConcatAdjacentSubSeq
<1> QED
  BY <1>2, SubSeqFull

\* Taking from the front of the first of two sequences is taking from the front of both.
LEMMA BackOfBoth ==
  ASSUME NEW S, NEW s \in Seq(S), NEW t \in Seq(S), NEW n \in 0..Len(s)
  PROVE  SubSeq(s, n + 1, Len(s)) \o t = SubSeq(s \o t, n + 1, Len(s \o t))
<1>1. PICK u : u = s \o t
  OBVIOUS
<1>2. /\ u \in Seq(S) /\ Len(u) = Len(s) + Len(t) /\ Len(s) \in Nat /\ Len(t) \in Nat
      /\ \A i \in 1..(Len(s) + Len(t)) : u[i] = IF i <= Len(s) THEN s[i] ELSE t[i - Len(s)]
  BY <1>1, ConcatProperties
<1>3. PICK b : b = SubSeq(s, n + 1, Len(s))
  OBVIOUS
<1>4. b \in Seq(S) /\ Len(b) = Len(s) - n /\ \A i \in 1..(Len(s) - n) : b[i] = s[n + i]
  BY <1>3, BackIs
<1>5. PICK c : c = b \o t
  OBVIOUS
<1>6. /\ c \in Seq(S) /\ Len(c) = Len(b) + Len(t)
      /\ \A i \in 1..(Len(b) + Len(t)) : c[i] = IF i <= Len(b) THEN b[i] ELSE t[i - Len(b)]
  BY <1>4, <1>5, ConcatProperties
<1>7. PICK d : d = SubSeq(u, n + 1, Len(u))
  OBVIOUS
<1>8. d \in Seq(S) /\ Len(d) = Len(u) - n /\ \A i \in 1..(Len(u) - n) : d[i] = u[n + i]
  <2>1. n \in 0..Len(u)
    BY <1>2
  <2> QED
    BY <1>2, <1>7, <2>1, BackIs
<1>9. ASSUME NEW i \in 1..Len(c) PROVE c[i] = d[i]
  <2>1. i \in 1..(Len(b) + Len(t)) /\ i \in 1..(Len(u) - n) /\ n + i \in 1..(Len(s) + Len(t))
    BY <1>2, <1>4, <1>6
  <2>2. d[i] = IF n + i <= Len(s) THEN s[n + i] ELSE t[n + i - Len(s)]
    <3>1. PICK k \in 1..(Len(s) + Len(t)) : k = n + i
      BY <2>1
    <3>2. u[k] = IF k <= Len(s) THEN s[k] ELSE t[k - Len(s)]
      BY <1>2
    <3> QED
      BY <1>8, <2>1, <3>1, <3>2
  <2>3. c[i] = IF i <= Len(b) THEN b[i] ELSE t[i - Len(b)]
    BY <1>6, <2>1
  <2>4. CASE i <= Len(b)
    <3>1. i \in 1..(Len(s) - n) /\ n + i <= Len(s)
      BY <1>2, <1>4, <2>4
    <3> QED
      BY <1>4, <2>2, <2>3, <2>4, <3>1
  <2>5. CASE ~(i <= Len(b))
    <3>1. ~(n + i <= Len(s)) /\ n + i - Len(s) = i - Len(b)
      BY <1>2, <1>4, <2>5
    <3> QED
      BY <2>2, <2>3, <2>5, <3>1
  <2> QED
    BY <2>4, <2>5
<1>10. Len(c) = Len(d)
  BY <1>2, <1>4, <1>6, <1>8
<1>11. c = d
  BY <1>6, <1>8, <1>9, <1>10, SeqEqual
<1> QED
  BY <1>1, <1>3, <1>5, <1>7, <1>11

LEMMA JoinIs ==
  ASSUME NEW S, NEW s \in Seq(S), NEW t \in Seq(S)
  PROVE  /\ s \o t \in Seq(S) /\ Len(s \o t) = Len(s) + Len(t)
         /\ Len(s) \in Nat /\ Len(t) \in Nat
         /\ \A i \in 1..Len(s) : (s \o t)[i] = s[i]
         /\ \A i \in 1..Len(t) : (s \o t)[Len(s) + i] = t[i]
<1>1. PICK u : u = s \o t
  OBVIOUS
<1>2. /\ u \in Seq(S) /\ Len(u) = Len(s) + Len(t) /\ Len(s) \in Nat /\ Len(t) \in Nat
      /\ \A i \in 1..(Len(s) + Len(t)) : u[i] = IF i <= Len(s) THEN s[i] ELSE t[i - Len(s)]
  BY <1>1, ConcatProperties
<1>3. /\ \A i \in 1..Len(s) : u[i] = s[i]
      /\ \A i \in 1..Len(t) : u[Len(s) + i] = t[i]
  <2>1. ASSUME NEW i \in 1..Len(t) PROVE u[Len(s) + i] = t[i]
    <3>1. PICK k \in 1..(Len(s) + Len(t)) : k = Len(s) + i
      <4>1. Len(s) + i \in 1..(Len(s) + Len(t))
        BY <1>2
      <4> QED
        BY <4>1
    <3>2. ~(k <= Len(s)) /\ k - Len(s) = i
      BY <1>2, <3>1
    <3> QED
      BY <1>2, <3>1, <3>2
  <2> QED
    BY <1>2, <2>1
<1> QED
  BY <1>1, <1>2, <1>3
------------------------------------------------------------------------------
(* What consume_loop makes of a buffer at the front of what is under way. *)

\* The message whose number is no longer told by a spoilt beginning does not matter.
LEMMA FlowFromJunk ==
  ASSUME NEW s, NEW lo, NEW mid, NEW hi, Flow(s, lo, hi), s # <<>>, s[1].msg = Junk
  PROVE  Flow(s, mid, hi)
BY DEF Flow

LEMMA LastNewline ==
  ASSUME NEW buf \in Seq(Units), Newlines(buf) # {}
  PROVE  LET end == Max(Newlines(buf))
         IN /\ end \in 1..Len(buf) /\ buf[end].at = buf[end].size
            /\ \A i \in 1..Len(buf) : i > end => buf[i].at # buf[i].size
<1>1. PICK N : N = Newlines(buf)
  OBVIOUS
<1>2. N \in SUBSET (0..Len(buf)) /\ N # {} /\ Len(buf) \in Nat
      /\ \A i : i \in N <=> i \in 1..Len(buf) /\ buf[i].at = buf[i].size
  BY <1>1 DEF Newlines
<1>3. PICK m : m = Max(N)
  OBVIOUS
<1>4. m \in N /\ \A i \in N : m >= i
  BY <1>2, <1>3, MaxIs
<1>5. \A i \in 1..Len(buf) : i > m => i \notin N
  BY <1>2, <1>4
<1> QED
  BY <1>1, <1>2, <1>3, <1>4, <1>5

LEMMA SpoilIs ==
  ASSUME NEW buf \in Seq(Units), NEW end \in 1..Len(buf)
  PROVE  /\ Spoil(buf, end) \in Seq(Units) /\ Len(Spoil(buf, end)) = Len(buf)
         /\ \A i \in 1..end : Spoil(buf, end)[i].msg = Junk
         /\ \A i \in 1..Len(buf) : i > end => Spoil(buf, end)[i] = buf[i]
<1>1. DOMAIN buf = 1..Len(buf) /\ Len(buf) \in Nat /\ \A i \in 1..Len(buf) : buf[i] \in Units
  BY LenProperties
<1>2. \A u \in Units, at \in Nat :
        /\ Unit(Junk, at, u.size, u.seal) \in Units
        /\ Unit(Junk, at, u.size, u.seal).msg = Junk
  BY DEF Units, Unit
<1>3. PICK t : t = Spoil(buf, end)
  OBVIOUS
<1>4. t = [i \in 1..Len(buf) |->
             IF i > end THEN buf[i]
             ELSE Unit(Junk, IF i = end THEN 0 ELSE buf[i].at, buf[i].size, buf[i].seal)]
  BY <1>1, <1>3 DEF Spoil
<1>5. ASSUME NEW i \in 1..Len(buf)
      PROVE  /\ t[i] \in Units
             /\ i <= end => t[i].msg = Junk
             /\ i > end => t[i] = buf[i]
  <2>1. buf[i] \in Units /\ buf[i].at \in Nat
    BY <1>1, UnitFacts
  <2>2. PICK at \in Nat : at = IF i = end THEN 0 ELSE buf[i].at
    BY <2>1
  <2>3. t[i] = IF i > end THEN buf[i] ELSE Unit(Junk, at, buf[i].size, buf[i].seal)
    BY <1>4, <2>2
  <2>4. Unit(Junk, at, buf[i].size, buf[i].seal) \in Units
        /\ Unit(Junk, at, buf[i].size, buf[i].seal).msg = Junk
    BY <1>2, <2>1
  <2>5. CASE i > end
    BY <2>1, <2>3, <2>5
  <2>6. CASE ~(i > end)
    BY <1>1, <2>3, <2>4, <2>6
  <2> QED
    BY <2>5, <2>6
<1>6. DOMAIN t = 1..Len(buf) /\ t = [i \in 1..Len(buf) |-> t[i]]
  BY <1>4
<1>7. t \in [1..Len(buf) -> Units]
  BY <1>5, <1>6
<1>8. t \in Seq(Units) /\ Len(t) = Len(buf)
  BY <1>1, <1>7
<1>9. \A i \in 1..end : i \in 1..Len(buf) /\ i <= end
  BY <1>1
<1> QED
  BY <1>3, <1>5, <1>8, <1>9

LEMMA SpoiltFlow ==
  ASSUME NEW buf \in Seq(Units), NEW w \in Seq(Units), NEW lo \in Nat, NEW mid \in Nat,
         NEW hi \in Nat, Flow(buf \o w, lo, hi), NEW end \in 1..Len(buf)
  PROVE  Flow(Spoil(buf, end) \o w, mid, hi)
<1>1. PICK b : b = Spoil(buf, end)
  OBVIOUS
<1>2. /\ b \in Seq(Units) /\ Len(b) = Len(buf) /\ \A i \in 1..end : b[i].msg = Junk
      /\ \A i \in 1..Len(buf) : i > end => b[i] = buf[i]
  BY <1>1, SpoilIs
<1>3. PICK s : s = buf \o w
  OBVIOUS
<1>4. /\ s \in Seq(Units) /\ Len(s) = Len(buf) + Len(w) /\ Len(buf) \in Nat /\ Len(w) \in Nat
      /\ \A i \in 1..Len(buf) : s[i] = buf[i]
      /\ \A i \in 1..Len(w) : s[Len(buf) + i] = w[i]
  BY <1>3, JoinIs
<1>5. PICK t : t = b \o w
  OBVIOUS
<1>6. /\ t \in Seq(Units) /\ Len(t) = Len(buf) + Len(w)
      /\ \A i \in 1..Len(buf) : t[i] = b[i]
      /\ \A i \in 1..Len(w) : t[Len(buf) + i] = w[i]
  <2>1. b \in Seq(Units)
    BY <1>2
  <2>2. /\ t \in Seq(Units) /\ Len(t) = Len(b) + Len(w)
        /\ \A i \in 1..Len(b) : t[i] = b[i]
        /\ \A i \in 1..Len(w) : t[Len(b) + i] = w[i]
    BY <1>5, <2>1, JoinIs
  <2> QED
    BY <1>2, <2>2
<1>7. \A i \in 1..Len(t) : i > end => t[i] = s[i]
  <2> SUFFICES ASSUME NEW i \in 1..Len(t), i > end PROVE t[i] = s[i]
    OBVIOUS
  <2>1. CASE i \in 1..Len(buf)
    BY <1>2, <1>4, <1>6, <2>1
  <2>2. CASE i \notin 1..Len(buf)
    <3>1. PICK j \in 1..Len(w) : i = Len(buf) + j
      <4>1. i - Len(buf) \in 1..Len(w) /\ i = Len(buf) + (i - Len(buf))
        BY <1>4, <1>6, <2>2
      <4> QED
        BY <4>1
    <3> QED
      BY <1>4, <1>6, <3>1
  <2> QED
    BY <2>1, <2>2
<1>8. PICK n \in 0..Len(s) : n = 0
  BY <1>4
<1>9. \A i \in 1..end : t[i].msg = Junk
  <2>1. \A i \in 1..end : i \in 1..Len(buf)
    BY <1>4
  <2> QED
    BY <1>2, <1>6, <2>1
<1>10. Flow(t, lo, hi)
  <2>1. end \in 0..(Len(s) - n) /\ end \in Nat \ {0} /\ Len(t) = Len(s) - end + end
    <3>1. Len(s) \in Nat /\ end \in 1..Len(s) /\ Len(t) = Len(s) /\ n = 0
      BY <1>4, <1>6, <1>8
    <3> QED
      BY <3>1
  <2>2. Flow(s, lo, hi)
    BY <1>3
  <2>3. \A i \in 1..n : t[i] = s[i]
    BY <1>8
  <2>4. \A i \in (n + 1)..(n + end) : t[i].msg = Junk
    BY <1>8, <1>9
  <2>5. \A i \in (n + end + 1)..Len(t) : t[i] = s[i - end + end]
    <3>1. \A i \in (n + end + 1)..Len(t) : i \in 1..Len(t) /\ i > end /\ i - end + end = i
      BY <1>6, <1>8
    <3> QED
      BY <1>7, <3>1
  <2>6. Spliced(s, t, n, end, end)
    BY <2>1, <2>3, <2>4, <2>5 DEF Spliced
  <2>7. s \in Seq(Units) /\ t \in Seq(Units)
    BY <1>4, <1>6
  <2> QED
    BY <2>1, <2>2, <2>6, <2>7, FlowSplice
<1>11. t # <<>> /\ t[1].msg = Junk
  <2>1. 1 \in 1..end
    BY <1>4
  <2>2. Len(t) >= 1
    BY <1>4, <1>6
  <2>3. t # <<>>
    <3>1. Len(<<>>) = 0
      OBVIOUS
    <3> QED
      BY <2>2, <3>1
  <2>4. t[1].msg = Junk
    BY <1>9, <2>1
  <2> QED
    BY <2>3, <2>4
<1> QED
  BY <1>1, <1>5, <1>10, <1>11, FlowFromJunk

\* What Consume returns, with w what comes after the buffer.
Consumed(buf, w, lo, hi, accepted, c) ==
  /\ c.rest \in Seq(Units) /\ Len(c.rest) <= Len(buf)
  /\ \/ /\ c.verdict = "none" /\ c.rest = buf /\ c.message = <<>> /\ Newlines(buf) = {}
     \/ /\ c.verdict = "garbage" /\ c.message = <<>> /\ Newlines(buf) # {}
        /\ ~IsMessage(SubSeq(buf, 1, Max(Newlines(buf))))
        /\ Flow(c.rest \o w, lo, hi)
     \/ /\ c.verdict = (IF accepted THEN "handled" ELSE "refused")
        /\ c.message = <<lo + 1>> /\ lo + 1 <= hi
        /\ Flow(c.rest \o w, lo + 1, hi)
        /\ accepted => /\ Newlines(c.rest) = {}
                       /\ \E n \in 1..Len(buf) : c.rest \o w = SubSeq(buf \o w, n + 1, Len(buf \o w))

LEMMA ConsumeKeepsFlow ==
  ASSUME NEW buf \in Seq(Units), NEW w \in Seq(Units), NEW lo \in Nat, NEW hi \in Nat,
         Flow(buf \o w, lo, hi), NEW accepted \in BOOLEAN
  PROVE  Consumed(buf, w, lo, hi, accepted, Consume(buf, accepted))
<1>1. PICK c : c = Consume(buf, accepted)
  OBVIOUS
<1>2. CASE Newlines(buf) = {}
  <2>1. c = Nothing(buf)
    BY <1>1, <1>2 DEF Consume
  <2> QED
    BY <1>1, <1>2, <2>1 DEF Nothing, Consumed
<1>3. CASE Newlines(buf) # {}
  <2>1. PICK end : end = Max(Newlines(buf))
    OBVIOUS
  <2>2. /\ end \in 1..Len(buf) /\ buf[end].at = buf[end].size /\ Len(buf) \in Nat
        /\ \A i \in 1..Len(buf) : i > end => buf[i].at # buf[i].size
    BY <1>3, <2>1, LastNewline
  <2>3. PICK line : line = SubSeq(buf, 1, end)
    OBVIOUS
  <2>4. line \in Seq(Units) /\ Len(line) = end /\ \A i \in 1..end : line[i] = buf[i]
    <3>1. end \in 0..Len(buf)
      BY <2>2
    <3> QED
      BY <2>3, <3>1, FrontIs
  <2>5. /\ Spoil(buf, end) \in Seq(Units) /\ Len(Spoil(buf, end)) <= Len(buf)
        /\ \A mid \in Nat : Flow(Spoil(buf, end) \o w, mid, hi)
    <3>1. Spoil(buf, end) \in Seq(Units) /\ Len(Spoil(buf, end)) = Len(buf)
      BY <2>2, SpoilIs
    <3>2. \A mid \in Nat : Flow(Spoil(buf, end) \o w, mid, hi)
      BY <2>2, SpoiltFlow
    <3> QED
      BY <2>2, <3>1, <3>2
  <2>6. CASE ~IsMessage(line)
    <3>1. c = [verdict |-> "garbage", rest |-> Spoil(buf, end), message |-> <<>>]
      BY <1>1, <1>3, <2>1, <2>3, <2>6 DEF Consume
    <3> QED
      BY <1>1, <1>3, <2>1, <2>3, <2>5, <2>6, <3>1 DEF Consumed
  <2>7. CASE IsMessage(line)
    <3>1. c = [verdict |-> IF accepted THEN "handled" ELSE "refused",
               rest    |-> IF accepted THEN SubSeq(buf, end + 1, Len(buf)) ELSE Spoil(buf, end),
               message |-> <<line[1].msg>>]
      BY <1>1, <1>3, <2>1, <2>3, <2>7 DEF Consume
    <3>2. PICK s : s = buf \o w
      OBVIOUS
    <3>3. s \in Seq(Units) /\ Len(s) = Len(buf) + Len(w) /\ Len(w) \in Nat
          /\ \A i \in 1..Len(buf) : s[i] = buf[i]
      BY <3>2, JoinIs
    <3>4. s[1] = line[1] /\ s[end] = line[end] /\ s[end].at = s[end].size
      <4>1. 1 \in 1..end /\ end \in 1..end /\ 1 \in 1..Len(buf)
        BY <2>2
      <4>2. line[1] = buf[1] /\ line[end] = buf[end]
        BY <2>4, <4>1
      <4>3. s[1] = buf[1] /\ s[end] = buf[end]
        BY <2>2, <3>3, <4>1
      <4> QED
        BY <2>2, <4>2, <4>3
    <3>5. line[1].msg # Junk /\ line[end].msg = line[1].msg
      <4>1. end \in DOMAIN line
        BY <2>2, <2>4
      <4> QED
        BY <2>7, <4>1 DEF IsMessage
    <3>6. line[1].msg = lo + 1
      <4>1. s # <<>> /\ Flow(s, lo, hi)
        BY <2>2, <3>2, <3>3
      <4> QED
        BY <3>4, <3>5, <4>1 DEF Flow
    <3>7. lo + 1 <= hi /\ Flow(SubSeq(s, end + 1, Len(s)), lo + 1, hi)
      <4>1. end \in 1..Len(s)
        BY <2>2, <3>3
      <4> QED
        BY <3>2, <3>3, <3>4, <3>5, <3>6, <4>1, FlowDrop
    <3>8. PICK rest : rest = SubSeq(buf, end + 1, Len(buf))
      OBVIOUS
    <3>9. /\ rest \in Seq(Units) /\ Len(rest) = Len(buf) - end
          /\ \A i \in 1..(Len(buf) - end) : rest[i] = buf[end + i]
          /\ rest \o w = SubSeq(s, end + 1, Len(s))
      <4>1. end \in 0..Len(buf)
        BY <2>2
      <4> QED
        BY <3>2, <3>8, <4>1, BackIs, BackOfBoth
    <3>10. Newlines(rest) = {}
      <4>1. ASSUME NEW i \in 1..Len(rest) PROVE rest[i].at # rest[i].size
        <5>1. PICK k \in 1..Len(buf) : k = end + i
          <6>1. end + i \in 1..Len(buf)
            BY <2>2, <3>9
          <6> QED
            BY <6>1
        <5>2. i \in 1..(Len(buf) - end) /\ k > end
          BY <2>2, <3>9, <5>1
        <5>3. rest[i] = buf[k]
          BY <3>9, <5>1, <5>2
        <5>4. \A j \in 1..Len(buf) : j > end => buf[j].at # buf[j].size
          BY <2>2
        <5>5. buf[k].at # buf[k].size
          BY <5>2, <5>4
        <5> QED
          BY <5>3, <5>5
      <4> QED
        BY <3>9, <4>1 DEF Newlines
    <3>11. CASE accepted
      <4>1. c.rest = rest /\ c.verdict = "handled" /\ c.message = <<lo + 1>>
        BY <3>1, <3>6, <3>8, <3>11
      <4>2. Len(rest) <= Len(buf)
        BY <2>2, <3>9
      <4>3. Flow(rest \o w, lo + 1, hi)
        BY <3>7, <3>9
      <4> QED
        BY <1>1, <2>2, <3>2, <3>7, <3>9, <3>10, <3>11, <4>1, <4>2, <4>3 DEF Consumed
    <3>12. CASE ~accepted
      <4>1. c.rest = Spoil(buf, end) /\ c.verdict = "refused" /\ c.message = <<lo + 1>>
        BY <3>1, <3>6, <3>12
      <4>2. lo + 1 \in Nat
        OBVIOUS
      <4> QED
        BY <1>1, <2>5, <3>7, <3>12, <4>1, <4>2 DEF Consumed
    <3> QED
      BY <3>11, <3>12
  <2> QED
    BY <2>6, <2>7
<1> QED
  BY <1>2, <1>3
------------------------------------------------------------------------------
(* What the TLS loop and the pool do to what is under way. *)

LEMMA FlowFails ==
  ASSUME NEW a \in Seq(Units), NEW b \in Seq(Units), NEW j \in Seq(Units), NEW w \in Seq(Units),
         NEW lo \in Nat, NEW hi \in Nat, Flow(a \o (b \o w), lo, hi),
         j # <<>>, \A i \in 1..Len(j) : j[i].msg = Junk
  PROVE  Flow(a \o (j \o w), lo, hi)
<1>1. PICK x : x = b \o w
  OBVIOUS
<1>2. /\ x \in Seq(Units) /\ Len(x) = Len(b) + Len(w) /\ Len(b) \in Nat /\ Len(w) \in Nat
      /\ \A i \in 1..Len(w) : x[Len(b) + i] = w[i]
  <2>1. /\ b \o w \in Seq(Units) /\ Len(b \o w) = Len(b) + Len(w)
        /\ Len(b) \in Nat /\ Len(w) \in Nat
        /\ \A i \in 1..Len(w) : (b \o w)[Len(b) + i] = w[i]
    BY JoinIs
  <2> QED
    BY <1>1, <2>1, Zenon
<1>3. PICK s : s = a \o x
  OBVIOUS
<1>4. /\ s \in Seq(Units) /\ Len(s) = Len(a) + Len(x) /\ Len(a) \in Nat
      /\ \A i \in 1..Len(a) : s[i] = a[i]
      /\ \A i \in 1..Len(x) : s[Len(a) + i] = x[i]
  <2>1. x \in Seq(Units)
    BY <1>2
  <2> QED
    BY <1>3, <2>1, JoinIs
<1>5. PICK y : y = j \o w
  OBVIOUS
<1>6. /\ y \in Seq(Units) /\ Len(y) = Len(j) + Len(w) /\ Len(j) \in Nat \ {0}
      /\ \A i \in 1..Len(j) : y[i] = j[i]
      /\ \A i \in 1..Len(w) : y[Len(j) + i] = w[i]
  BY <1>5, JoinIs
<1>7. PICK t : t = a \o y
  OBVIOUS
<1>8. /\ t \in Seq(Units) /\ Len(t) = Len(a) + Len(y)
      /\ \A i \in 1..Len(a) : t[i] = a[i]
      /\ \A i \in 1..Len(y) : t[Len(a) + i] = y[i]
  <2>1. y \in Seq(Units)
    BY <1>6
  <2> QED
    BY <1>7, <2>1, JoinIs
<1> DEFINE n == Len(a)
           m == Len(b)
           k == Len(j)
<1>9. \A i \in 1..n : t[i] = s[i]
  BY <1>4, <1>8
<1>10. ASSUME NEW i \in (n + 1)..(n + k) PROVE t[i].msg = Junk
  <2>1. PICK h \in 1..Len(j) : i = Len(a) + h
    <3>1. i - n \in 1..k /\ i = n + (i - n)
      BY <1>4, <1>6
    <3> QED
      BY <3>1
  <2>2. h \in 1..Len(y)
    BY <1>2, <1>6
  <2>3. t[i] = y[h]
    BY <1>8, <2>1, <2>2
  <2>4. y[h].msg = Junk
    BY <1>6, <2>1
  <2> QED
    BY <2>3, <2>4
<1>11. ASSUME NEW i \in (n + k + 1)..Len(t) PROVE t[i] = s[i - k + m]
  <2>1. PICK h \in 1..Len(w) : h = i - n - k
    <3>1. Len(t) = n + (k + Len(w)) /\ n \in Nat /\ k \in Nat /\ Len(w) \in Nat
      BY <1>2, <1>4, <1>6, <1>8
    <3>2. i - n - k \in 1..Len(w)
      BY <3>1
    <3> QED
      BY <3>2
  <2>2. PICK hj \in 1..Len(y) : hj = Len(j) + h /\ i = Len(a) + hj
    <3>1. Len(j) + h \in 1..Len(y)
      BY <1>2, <1>6, <2>1
    <3>2. i = Len(a) + (Len(j) + h)
      BY <1>4, <1>6, <2>1
    <3> QED
      BY <3>1, <3>2
  <2>3. PICK hb \in 1..Len(x) : hb = Len(b) + h /\ i - k + m = Len(a) + hb
    <3>1. Len(b) + h \in 1..Len(x)
      BY <1>2, <2>1
    <3>2. i - k + m = Len(a) + (Len(b) + h)
      BY <1>2, <1>4, <1>6, <2>1
    <3> QED
      BY <3>1, <3>2
  <2>4. t[i] = y[hj] /\ y[hj] = w[h]
    BY <1>6, <1>8, <2>2
  <2>5. s[i - k + m] = x[hb] /\ x[hb] = w[h]
    BY <1>2, <1>4, <2>3
  <2> QED
    BY <2>4, <2>5
<1>12. /\ n \in 0..Len(s) /\ m \in 0..(Len(s) - n) /\ k \in Nat \ {0}
       /\ Len(t) = Len(s) - m + k
  <2>1. n \in Nat /\ m \in Nat /\ k \in Nat \ {0} /\ Len(w) \in Nat
    BY <1>2, <1>4, <1>6
  <2>2. Len(s) = n + (m + Len(w))
    BY <1>2, <1>4
  <2>3. Len(t) = n + (k + Len(w))
    BY <1>6, <1>8
  <2> QED
    BY <2>1, <2>2, <2>3
<1>13. Flow(s, lo, hi)
  BY <1>1, <1>3
<1> HIDE DEF n, m, k
<1>14. Flow(t, lo, hi)
  <2>1. Spliced(s, t, n, m, k)
    BY <1>9, <1>10, <1>11, <1>12 DEF Spliced
  <2>2. s \in Seq(Units) /\ t \in Seq(Units)
    BY <1>4, <1>8
  <2> QED
    BY <1>12, <1>13, <2>1, <2>2, FlowSplice
<1> QED
  BY <1>5, <1>7, <1>14

LEMMA FirstRecordIs ==
  ASSUME NEW data \in Seq(Units)
  PROVE  LET m == Len(FirstRecord(data))
         IN /\ m \in 0..Len(data) /\ FirstRecord(data) = SubSeq(data, 1, m)
            /\ FirstRecord(data) # <<>> <=> m > 0
            /\ m > 0 => data[m].seal /\ \A i \in 1..(m - 1) : ~data[i].seal
            /\ (\E i \in 1..Len(data) : data[i].seal) => m > 0
<1> DEFINE seals == {i \in DOMAIN data : data[i].seal}
<1>1. Len(data) \in Nat /\ DOMAIN data = 1..Len(data)
  BY LenProperties
<1>2. CASE seals = {}
  <2>1. FirstRecord(data) = <<>>
    BY <1>2 DEF FirstRecord
  <2>2. SubSeq(data, 1, 0) = <<>>
    BY SubSeqEmpty
  <2> QED
    BY <1>1, <1>2, <2>1, <2>2
<1>3. CASE seals # {}
  <2>1. PICK x : x = Min(seals)
    OBVIOUS
  <2>2. x \in seals /\ \A y \in seals : x <= y
    <3>1. seals \in SUBSET Nat
      BY <1>1
    <3> HIDE DEF seals
    <3> QED
      BY <1>3, <2>1, <3>1, MinIs
  <2>3. FirstRecord(data) = SubSeq(data, 1, x)
    BY <1>3, <2>1 DEF FirstRecord
  <2>4. x \in 1..Len(data) /\ data[x].seal /\ \A i \in 1..(x - 1) : ~data[i].seal
    <3>1. x \in 1..Len(data) /\ data[x].seal
      BY <1>1, <2>2
    <3>2. ASSUME NEW i \in 1..(x - 1) PROVE ~data[i].seal
      <4>1. i \in 1..Len(data) /\ ~(x <= i)
        BY <1>1, <3>1
      <4>2. i \notin seals
        BY <2>2, <4>1
      <4> QED
        BY <1>1, <4>1, <4>2
    <3> QED
      BY <3>1, <3>2
  <2>5. Len(SubSeq(data, 1, x)) = x
    <3>1. x \in 0..Len(data)
      BY <1>1, <2>4
    <3> QED
      BY <3>1, FrontIs
  <2>6. FirstRecord(data) # <<>>
    BY <2>3, <2>4, <2>5, EmptySeq
  <2> QED
    BY <1>1, <2>3, <2>4, <2>5, <2>6
<1> QED
  BY <1>2, <1>3

\* One message, and one or two of them, as they leave the pool.
LEMMA MessageFlow ==
  ASSUME NEW m \in Nat, m < MaxMsgs, NEW size \in Sizes, NEW t \in Seq(Units), Len(t) = size,
         \A i \in 1..size : t[i].msg = m + 1 /\ t[i].at = i /\ t[i].size = size
  PROVE  Flow(t, m, m + 1)
<1>1. size \in Nat \ {0}
  BY StreamsAssumption
<1>2. m + 1 \in Nat /\ m + 1 # Junk
  BY StreamsAssumption
<1>3. ASSUME NEW i \in 1..Len(t), i + 1 <= Len(t) PROVE Linked(t[i], t[i + 1])
  <2>1. i \in 1..size /\ i + 1 \in 1..size /\ i # size
    BY <1>1, <1>3
  <2> QED
    BY <1>2, <2>1 DEF Linked
<1>4. 1 \in 1..size /\ size \in 1..size /\ t # <<>>
  BY <1>1
<1> QED
  BY <1>1, <1>2, <1>3, <1>4 DEF Flow

\* Where records end does not matter.
Alike(u, v) == u.msg = v.msg /\ u.at = v.at /\ u.size = v.size

LEMMA FlowAlike ==
  ASSUME NEW s, NEW t, NEW lo, NEW hi, Flow(s, lo, hi), Len(t) = Len(s), s # <<>>, t # <<>>,
         \A i \in 1..Len(s) : Alike(s[i], t[i]), Len(s) \in Nat \ {0}
  PROVE  Flow(t, lo, hi)
<1>1. ASSUME NEW i \in 1..Len(t), i + 1 <= Len(t) PROVE Linked(t[i], t[i + 1])
  <2>1. i + 1 \in 1..Len(s) /\ i \in 1..Len(s)
    BY <1>1
  <2>2. Linked(s[i], s[i + 1]) /\ Alike(s[i], t[i]) /\ Alike(s[i + 1], t[i + 1])
    BY <1>1, <2>1 DEF Flow
  <2> QED
    BY <2>2 DEF Linked, Alike
<1>2. 1 \in 1..Len(s) /\ Len(s) \in 1..Len(s)
  OBVIOUS
<1> QED
  BY <1>1, <1>2 DEF Flow, Alike

LEMMA RecordsFlow ==
  ASSUME sent \in Nat, NEW n \in 1..2, NEW sizes \in [1..n -> Sizes], NEW cut \in Nat,
         sent + n <= MaxMsgs
  PROVE  LET r == Records(sizes, cut)
         IN /\ r \in Seq(Units) /\ r # <<>> /\ Flow(r, sent, sent + n)
            /\ \A i \in 1..Len(r) : /\ r[i].msg # Junk
                                    /\ \E k \in 1..n : r[i].size = sizes[k]
<1> DEFINE M(k) == [i \in 1..sizes[k] |->
                      Unit(sent + k, i, sizes[k], k = Len(sizes) /\ i = sizes[k])]
<1>1. /\ \A k \in 1..n : sizes[k] \in Sizes /\ sizes[k] \in Nat /\ sizes[k] > 0
      /\ MaxMsgs \in Nat /\ Junk \notin Nat
  <2>1. \A x \in Sizes : x \in Nat /\ x > 0
    BY StreamsAssumption
  <2>2. \A k \in 1..n : sizes[k] \in Sizes
    OBVIOUS
  <2> QED
    BY <2>1, <2>2, StreamsAssumption
<1>2. Len(sizes) = n
  OBVIOUS
<1>3. ASSUME NEW k \in 1..n
      PROVE  /\ M(k) \in Seq(Units) /\ Len(M(k)) = sizes[k]
             /\ \A i \in 1..sizes[k] : /\ M(k)[i].msg = sent + k /\ M(k)[i].at = i
                                       /\ M(k)[i].size = sizes[k]
  <2>1. PICK z \in Sizes : z = sizes[k]
    OBVIOUS
  <2>2. PICK m \in 0..MaxMsgs : m = sent + k
    <3>1. sent + k \in 0..MaxMsgs
      BY <1>1
    <3> QED
      BY <3>1
  <2>3. z \in Nat
    BY <1>1, <2>1
  <2>4. PICK t : t = M(k)
    OBVIOUS
  <2>5. t = [i \in 1..z |-> Unit(m, i, z, k = Len(sizes) /\ i = z)]
    BY <2>1, <2>2, <2>4
  <2>6. \A i \in 1..z, b \in BOOLEAN : Unit(m, i, z, b) \in Units
    BY DEF Unit, Units
  <2>7. t \in [1..z -> Units]
    BY <2>5, <2>6
  <2>8. t \in Seq(Units) /\ Len(t) = z
    BY <2>3, <2>7
  <2>9. \A i \in 1..z : t[i].msg = m /\ t[i].at = i /\ t[i].size = z
    BY <2>5 DEF Unit
  <2> HIDE DEF M
  <2> QED
    BY <2>1, <2>2, <2>4, <2>8, <2>9
<1>4. PICK d : d = IF Len(sizes) = 1 THEN M(1) ELSE M(1) \o M(2)
  OBVIOUS
<1>5. PICK r : r = Records(sizes, cut)
  OBVIOUS
<1>6. r = [i \in DOMAIN d |-> IF i = cut THEN [d[i] EXCEPT !.seal = TRUE] ELSE d[i]]
  BY <1>4, <1>5 DEF Records
<1> HIDE DEF M
<1>7. \A k \in 1..n : Flow(M(k), sent + k - 1, sent + k)
  <2> SUFFICES ASSUME NEW k \in 1..n PROVE Flow(M(k), sent + k - 1, sent + k)
    OBVIOUS
  <2>1. PICK m \in Nat : m = sent + k - 1
    <3>1. sent + k - 1 \in Nat
      OBVIOUS
    <3> QED
      BY <3>1
  <2>2. m < MaxMsgs /\ m + 1 = sent + k
    BY <1>1, <2>1
  <2>3. PICK z \in Sizes : z = sizes[k]
    BY <1>1
  <2>4. PICK t : t = M(k)
    OBVIOUS
  <2>5. /\ t \in Seq(Units) /\ Len(t) = z
        /\ \A i \in 1..z : t[i].msg = m + 1 /\ t[i].at = i /\ t[i].size = z
    BY <1>3, <2>2, <2>3, <2>4
  <2>6. Flow(t, m, m + 1)
    BY <2>2, <2>5, MessageFlow
  <2> QED
    BY <2>1, <2>2, <2>4, <2>6
<1>8. /\ d \in Seq(Units) /\ d # <<>> /\ Flow(d, sent, sent + n)
      /\ \A i \in 1..Len(d) : d[i].msg # Junk /\ \E k \in 1..n : d[i].size = sizes[k]
  <2>1. CASE n = 1
    <3>1. d = M(1) /\ 1 \in 1..n /\ sent + 1 - 1 = sent
      BY <1>2, <1>4, <2>1
    <3>2. d \in Seq(Units) /\ Len(d) = sizes[1] /\ Flow(d, sent, sent + n)
      BY <1>3, <1>7, <2>1, <3>1
    <3>3. d # <<>>
      BY <1>1, <3>1, <3>2, EmptySeq
    <3>4. \A i \in 1..Len(d) : d[i].msg = sent + 1 /\ d[i].size = sizes[1]
      BY <1>3, <3>1, <3>2
    <3> QED
      BY <1>1, <3>1, <3>2, <3>3, <3>4
  <2>2. CASE n = 2
    <3>1. d = M(1) \o M(2) /\ 1 \in 1..n /\ 2 \in 1..n /\ sent + 1 - 1 = sent
          /\ sent + 2 - 1 = sent + 1
      BY <1>2, <1>4, <2>2
    <3>2. M(1) \in Seq(Units) /\ M(2) \in Seq(Units) /\ Len(M(1)) = sizes[1]
          /\ Len(M(2)) = sizes[2]
      BY <1>3, <3>1
    <3>3. Flow(M(1), sent, sent + 1) /\ Flow(M(2), sent + 1, sent + 2)
      BY <1>7, <3>1
    <3>4. Flow(d, sent, sent + n)
      <4>1. sent + 1 \in Nat /\ sent + 2 \in Nat /\ sent + 1 <= sent + 2
        OBVIOUS
      <4> QED
        BY <2>2, <3>1, <3>2, <3>3, <4>1, FlowAppend
    <3>5. /\ d \in Seq(Units) /\ Len(d) = sizes[1] + sizes[2]
          /\ \A i \in 1..Len(M(1)) : d[i] = M(1)[i]
          /\ \A i \in 1..Len(M(2)) : d[Len(M(1)) + i] = M(2)[i]
      <4>1. PICK t, u : t = M(1) /\ u = M(2)
        OBVIOUS
      <4>2. t \in Seq(Units) /\ u \in Seq(Units) /\ d = t \o u
        BY <3>1, <3>2, <4>1
      <4>3. /\ d \in Seq(Units) /\ Len(d) = Len(t) + Len(u)
            /\ \A i \in 1..Len(t) : d[i] = t[i]
            /\ \A i \in 1..Len(u) : d[Len(t) + i] = u[i]
        BY <4>2, JoinIs
      <4> QED
        BY <3>2, <4>1, <4>3
    <3>6. d # <<>>
      BY <1>1, <3>1, <3>5, EmptySeq
    <3>7. ASSUME NEW i \in 1..Len(d)
          PROVE  d[i].msg # Junk /\ \E k \in 1..n : d[i].size = sizes[k]
      <4>1. CASE i <= sizes[1]
        <5>1. i \in 1..sizes[1] /\ d[i] = M(1)[i]
          BY <1>1, <3>1, <3>2, <3>5, <4>1
        <5>2. d[i].msg = sent + 1 /\ d[i].size = sizes[1]
          BY <1>3, <3>1, <5>1
        <5> QED
          BY <1>1, <3>1, <5>2
      <4>2. CASE ~(i <= sizes[1])
        <5>1. PICK h \in 1..sizes[2] : h = i - sizes[1]
          <6>1. i - sizes[1] \in 1..sizes[2]
            BY <1>1, <3>1, <3>5, <4>2
          <6> QED
            BY <6>1
        <5>2. i = Len(M(1)) + h
          BY <1>1, <3>1, <3>2, <5>1
        <5>3. d[i] = M(2)[h]
          BY <3>2, <3>5, <5>2
        <5>4. 2 \in 1..n /\ sent + 2 \in Nat
          BY <1>1, <3>1
        <5>5. M(2)[h].msg = sent + 2 /\ M(2)[h].size = sizes[2]
          BY <1>3, <5>4
        <5>6. d[i].msg = sent + 2 /\ d[i].size = sizes[2]
          BY <5>3, <5>5
        <5> QED
          BY <1>1, <3>1, <5>4, <5>6
      <4> QED
        BY <4>1, <4>2
    <3> QED
      BY <3>4, <3>5, <3>6, <3>7
  <2> QED
    BY <2>1, <2>2
<1>9. /\ r \in Seq(Units) /\ Len(r) = Len(d) /\ r # <<>>
      /\ \A i \in 1..Len(d) : Alike(d[i], r[i])
  <2>1. Len(d) \in Nat \ {0} /\ DOMAIN d = 1..Len(d) /\ \A i \in 1..Len(d) : d[i] \in Units
    BY <1>8, LenProperties, EmptySeq
  <2>2. \A u \in Units : [u EXCEPT !.seal = TRUE] \in Units
                         /\ Alike(u, [u EXCEPT !.seal = TRUE]) /\ Alike(u, u)
    BY DEF Units, Alike
  <2>3. r = [i \in 1..Len(d) |-> IF i = cut THEN [d[i] EXCEPT !.seal = TRUE] ELSE d[i]]
    BY <1>6, <2>1
  <2>4. r \in [1..Len(d) -> Units] /\ \A i \in 1..Len(d) : Alike(d[i], r[i])
    BY <2>1, <2>2, <2>3
  <2>5. r \in Seq(Units) /\ Len(r) = Len(d)
    BY <2>1, <2>4
  <2> QED
    BY <2>1, <2>4, <2>5, EmptySeq
<1>10. Flow(r, sent, sent + n)
  <2>1. Len(d) \in Nat \ {0}
    BY <1>8, EmptySeq
  <2> QED
    BY <1>8, <1>9, <2>1, FlowAlike
<1>11. \A i \in 1..Len(r) : r[i].msg # Junk /\ \E k \in 1..n : r[i].size = sizes[k]
  BY <1>8, <1>9 DEF Alike
<1> QED
  BY <1>5, <1>9, <1>10, <1>11

\* What is left of a buffer when the loop fails.
LEMMA JunkIs ==
  ASSUME NEW s \in Seq(Units), s # <<>>, NEW j,
         j = [i \in DOMAIN s |-> [s[i] EXCEPT !.msg = Junk]]
  PROVE  /\ j \in Seq(Units) /\ Len(j) = Len(s) /\ j # <<>>
         /\ \A i \in 1..Len(j) : j[i].msg = Junk
<1>1. Len(s) \in Nat \ {0} /\ DOMAIN s = 1..Len(s) /\ \A i \in 1..Len(s) : s[i] \in Units
  BY LenProperties, EmptySeq
<1>2. \A u \in Units : [u EXCEPT !.msg = Junk] \in Units /\ [u EXCEPT !.msg = Junk].msg = Junk
  BY DEF Units
<1>3. j \in [1..Len(s) -> Units] /\ \A i \in 1..Len(s) : j[i].msg = Junk
  BY <1>1, <1>2
<1>4. j \in Seq(Units) /\ Len(j) = Len(s)
  BY <1>1, <1>3
<1> QED
  BY <1>1, <1>3, <1>4, EmptySeq

\* What the loop takes of a buffer is, with what it leaves, what there was.
LEMMA TakenIs ==
  ASSUME NEW S, NEW s \in Seq(S), NEW c \in 0..Len(s), NEW k \in 0..Len(s), c <= k
  PROVE  /\ SubSeq(s, c + 1, k) \in Seq(S) /\ Len(SubSeq(s, c + 1, k)) = k - c
         /\ SubSeq(s, k + 1, Len(s)) \in Seq(S) /\ Len(SubSeq(s, k + 1, Len(s))) = Len(s) - k
         /\ SubSeq(s, c + 1, k) \o SubSeq(s, k + 1, Len(s)) = SubSeq(s, c + 1, Len(s))
<1>1. Len(s) \in Nat /\ c \in Nat /\ k \in Nat
  OBVIOUS
<1>2. SubSeq(s, c + 1, k) \o SubSeq(s, k + 1, Len(s)) = SubSeq(s, c + 1, Len(s))
  <2>1. PICK m : m = c + 1
    OBVIOUS
  <2>2. m \in 1..(Len(s) + 1) /\ k \in (m - 1)..Len(s) /\ Len(s) \in k..Len(s)
    BY <1>1, <2>1
  <2>3. SubSeq(s, m, k) \o SubSeq(s, k + 1, Len(s)) = SubSeq(s, m, Len(s))
    BY <2>2, ConcatAdjacentSubSeq
  <2> QED
    BY <2>1, <2>3
<1>3. SubSeq(s, k + 1, Len(s)) \in Seq(S) /\ Len(SubSeq(s, k + 1, Len(s))) = Len(s) - k
  BY BackIs
<1>4. SubSeq(s, c + 1, k) \in Seq(S) /\ Len(SubSeq(s, c + 1, k)) = k - c
  <2>1. c + 1 \in Int /\ k \in Int /\ \A i \in (c + 1)..k : s[i] \in S
    BY <1>1
  <2>2. /\ SubSeq(s, c + 1, k) \in Seq(S)
        /\ Len(SubSeq(s, c + 1, k)) = IF c + 1 <= k THEN k - (c + 1) + 1 ELSE 0
    BY <2>1, SubSeqProperties
  <2> QED
    BY <1>1, <2>2
<1> QED
  BY <1>2, <1>3, <1>4
=============================================================================
