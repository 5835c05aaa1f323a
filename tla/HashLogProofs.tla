---------------------------- MODULE HashLogProofs ----------------------------
(* Proofs about HashLog, for any size of the log, any periods and any number  *)
(* of records: what the ring buffer holds, and that the rates read from it    *)
(* are those of the records made.                                             *)
EXTENDS HashLog, NumberFacts, FiniteSetTheorems

Measures == [time : 1..MaxTime, hashes : Nat, hashing : BOOLEAN]

\* A record as it is kept in the log.
Coded(r) == [time |-> IF r.hashing THEN r.time ELSE -r.time, hashes |-> r.hashes]

\* Where record i is, counted back from the newest.
At(i) == IF i < pos THEN pos - i - 1 ELSE pos - i - 1 + N

\* The log holds the newest N records.
RingInv ==
  \A i \in 0..(N - 1) :
    data[At(i)] = IF i < Len(history) THEN Coded(history[Len(history) - i]) ELSE NoRec

\* There are no more hashes than there was time for, and none without time.
Earlier(j, k) ==
  /\ history[j].time <= history[k].time /\ history[j].hashes <= history[k].hashes
  /\ history[j].time = history[k].time => history[j].hashes = history[k].hashes

ClockInv ==
  /\ count <= MaxSpeed * now
  /\ \A k \in DOMAIN history :
       /\ history[k].time <= now /\ history[k].hashes <= count
       /\ history[k].time = now => history[k].hashes = count
  /\ \A j, k \in DOMAIN history : j <= k => Earlier(j, k)

LogInv == TypeOK /\ RingInv /\ ClockInv

LEMMA AtIsSlot == ASSUME TypeOK, NEW i \in 0..(N - 1) PROVE At(i) \in 0..(N - 1)
BY HashLogAssumption DEF TypeOK, At

LEMMA HistoryTyped ==
  ASSUME TypeOK
  PROVE  /\ history \in Seq(Measures) /\ Len(history) \in Nat
         /\ DOMAIN history = 1..Len(history)
         /\ \A k \in 1..Len(history) :
              /\ history[k] \in Measures
              /\ history[k].time \in 1..MaxTime /\ history[k].hashes \in Nat
              /\ history[k].hashing \in BOOLEAN
<1>1. history \in Seq(Measures)
  BY DEF TypeOK, Measures
<1>2. \A r \in Measures : r.time \in 1..MaxTime /\ r.hashes \in Nat /\ r.hashing \in BOOLEAN
  BY DEF Measures
<1> QED
  BY <1>1, <1>2

\* The position after an insertion.
LEMMA NextPos ==
  ASSUME pos \in 0..(N - 1)
  PROVE  (pos + 1) % N = (IF pos + 1 = N THEN 0 ELSE pos + 1)
BY HashLogAssumption

LEMMA LogInit == Init => LogInv
<1> SUFFICES ASSUME Init PROVE LogInv
  OBVIOUS
<1> USE HashLogAssumption DEF Init
<1>1. NoRec \in Recs
  BY DEF NoRec, Recs
<1>2. history \in Seq(Measures)
  OBVIOUS
<1>3. data \in [0..(N - 1) -> Recs] /\ pos \in 0..(N - 1) /\ now \in 1..MaxTime
  BY <1>1
<1>4. TypeOK
  BY <1>2, <1>3 DEF TypeOK, Measures
<1>5. RingInv
  BY <1>4, AtIsSlot DEF RingInv
<1>6. ClockInv
  BY DEF ClockInv
<1> QED
  BY <1>4, <1>5, <1>6 DEF LogInv

LEMMA LogTick == ASSUME LogInv, Tick PROVE LogInv'
<1> USE HashLogAssumption
<1>1. TypeOK /\ RingInv /\ ClockInv /\ UNCHANGED <<hashing, data, pos, history>>
  BY DEF LogInv, Tick
<1>2. PICK h \in 0..MaxSpeed : count' = count + h
  BY DEF Tick
<1>3. now' = now + 1 /\ now' \in 1..MaxTime
  BY <1>1 DEF Tick, TypeOK
<1>4. TypeOK'
  BY <1>1, <1>2, <1>3 DEF TypeOK
<1>5. RingInv'
  BY <1>1 DEF RingInv, At
<1>6. ClockInv'
  <2>1. count' <= MaxSpeed * now'
    <3>1. MaxSpeed * now' = MaxSpeed * now + MaxSpeed
      BY <1>1, <1>3 DEF TypeOK
    <3>2. MaxSpeed * now \in Nat
      BY <1>1 DEF TypeOK
    <3> QED
      BY <1>1, <1>2, <3>1, <3>2 DEF ClockInv, TypeOK
  <2>2. ASSUME NEW k \in DOMAIN history
        PROVE  history[k].time < now' /\ history[k].hashes <= count'
    <3>1. history[k].time \in 1..MaxTime /\ history[k].hashes \in Nat
      BY <1>1, <2>2, HistoryTyped
    <3>2. history[k].time <= now /\ history[k].hashes <= count
      BY <1>1, <2>2 DEF ClockInv
    <3>3. now \in Nat /\ count \in Nat /\ h \in Nat
      BY <1>1 DEF TypeOK
    <3> QED
      BY <1>2, <1>3, <3>1, <3>2, <3>3
  <2>3. \A j, k \in DOMAIN history : j <= k => Earlier(j, k)'
    BY <1>1 DEF ClockInv, Earlier
  <2>4. \A k \in DOMAIN history : history[k].time # now'
    BY <1>1, <1>3, <2>2, HistoryTyped DEF TypeOK
  <2>5. \A k \in DOMAIN history : history[k].time <= now' /\ history[k].hashes <= count'
    BY <1>1, <1>3, <2>2, HistoryTyped DEF TypeOK
  <2> QED
    BY <1>1, <2>1, <2>3, <2>4, <2>5 DEF ClockInv
<1> QED
  BY <1>4, <1>5, <1>6 DEF LogInv

LEMMA LogRecord == ASSUME LogInv, RecordHashes PROVE LogInv'
<1> USE HashLogAssumption
<1> DEFINE L == Len(history)
           r == [time |-> now, hashes |-> count, hashing |-> hashing]
<1>1. TypeOK /\ RingInv /\ ClockInv
  BY DEF LogInv
<1>2. r \in Measures /\ Coded(r) \in Recs
  BY <1>1 DEF TypeOK, Measures, Recs, Coded
<1>3. /\ data' = [data EXCEPT ![pos] = Coded(r)] /\ pos' = (pos + 1) % N
      /\ history' = Append(history, r) /\ UNCHANGED <<now, hashing, count>>
  BY DEF RecordHashes, Insert, Coded
<1>4. pos' = (IF pos + 1 = N THEN 0 ELSE pos + 1) /\ pos' \in 0..(N - 1)
  BY <1>1, <1>3, NextPos DEF TypeOK
<1>5. /\ L \in Nat /\ history \in Seq(Measures) /\ history' \in Seq(Measures)
      /\ Len(history') = L + 1 /\ history'[L + 1] = r
      /\ \A k \in 1..L : history'[k] = history[k] /\ history[k] \in Measures
  <2>1. L \in Nat /\ history \in Seq(Measures) /\ \A k \in 1..L : history[k] \in Measures
    BY <1>1, HistoryTyped
  <2> HIDE DEF r
  <2> QED
    BY <1>2, <1>3, <2>1
<1>6. TypeOK'
  BY <1>1, <1>2, <1>3, <1>4, <1>5 DEF TypeOK, Measures
<1>7. RingInv'
  <2> SUFFICES ASSUME NEW i \in 0..(N - 1)
               PROVE  data'[At(i)'] =
                        IF i < L + 1 THEN Coded(history'[L + 1 - i]) ELSE NoRec
    BY <1>5 DEF RingInv, Coded
  <2>1. CASE i = 0
    <3>1. At(i)' = pos
      BY <1>1, <1>4, <2>1 DEF At, TypeOK
    <3> QED
      BY <1>1, <1>3, <1>5, <2>1, <3>1 DEF TypeOK
  <2>2. CASE i # 0
    <3>1. At(i)' = At(i - 1) /\ At(i - 1) # pos /\ At(i - 1) \in 0..(N - 1)
      BY <1>1, <1>4, <2>2 DEF At, TypeOK
    <3>2. data'[At(i)'] = data[At(i - 1)]
      BY <1>1, <1>3, <3>1 DEF TypeOK
    <3>3. data[At(i - 1)] = IF i - 1 < L THEN Coded(history[L - (i - 1)]) ELSE NoRec
      BY <1>1, <2>2 DEF RingInv
    <3>4. i - 1 < L => history'[L + 1 - i] = history[L - (i - 1)]
      BY <1>5, <2>2
    <3> QED
      BY <1>5, <2>2, <3>2, <3>3, <3>4
  <2> QED
    BY <2>1, <2>2
<1>8. ClockInv'
  <2>1. \A k \in 1..L : history[k].time <= now /\ history[k].hashes <= count
                        /\ (history[k].time = now => history[k].hashes = count)
    BY <1>1, <1>5 DEF ClockInv
  <2>2. \A j, k \in 1..L : j <= k => Earlier(j, k)
    BY <1>1, <1>5 DEF ClockInv
  <2>3. r.time = now /\ r.hashes = count
    OBVIOUS
  <2> HIDE DEF r
  <2>4. \A k \in 1..(L + 1) :
          /\ history'[k].time <= now /\ history'[k].hashes <= count
          /\ history'[k].time = now => history'[k].hashes = count
    <3>1. \A k \in 1..(L + 1) : k \in 1..L \/ k = L + 1
      BY <1>5
    <3>2. now <= now /\ count <= count
      BY <1>1 DEF TypeOK
    <3> QED
      BY <1>5, <2>1, <2>3, <3>1, <3>2
  <2>5. ASSUME NEW j \in 1..(L + 1), NEW k \in 1..(L + 1), j <= k PROVE Earlier(j, k)'
    <3>1. CASE k = L + 1
      BY <1>5, <2>3, <2>4, <3>1 DEF Earlier
    <3>2. CASE k # L + 1
      <4>1. j \in 1..L /\ k \in 1..L
        BY <1>5, <2>5, <3>2
      <4> QED
        BY <1>5, <2>2, <2>5, <4>1 DEF Earlier
    <3> QED
      BY <3>1, <3>2
  <2> QED
    BY <1>1, <1>3, <1>5, <2>4, <2>5 DEF ClockInv
<1> QED
  BY <1>6, <1>7, <1>8 DEF LogInv

LEMMA LogNext == LogInv /\ [Next]_vars => LogInv'
<1> SUFFICES ASSUME LogInv, [Next]_vars PROVE LogInv'
  OBVIOUS
<1>1. CASE ToggleHashing
  BY <1>1 DEF ToggleHashing, LogInv, TypeOK, RingInv, At, ClockInv, Earlier
<1>2. CASE UNCHANGED vars
  BY <1>2 DEF vars, LogInv, TypeOK, RingInv, At, ClockInv, Earlier
<1> QED
  BY <1>1, <1>2, LogTick, LogRecord DEF Next

THEOREM LogInvariant == Spec => []LogInv
<1> QED
  BY LogInit, LogNext, PTL DEF Spec

\* The clock, the count, the log and its position keep their types; a position never runs
\* out of the buffer.
THEOREM LogTypeCorrect == Spec => []TypeOK
<1>1. LogInv => TypeOK
  BY DEF LogInv
<1> QED
  BY <1>1, LogInvariant, PTL
------------------------------------------------------------------------------
(* The loops of the reports. *)

\* Total adds up: the sums it runs through exist, are the same however far one goes, and
\* so make up the recursive function it is defined by.
LEMMA TotalAdds ==
  ASSUME NEW w
  PROVE  /\ Total(w, 0) = 0
         /\ \A n \in Nat : Total(w, n + 1) = Total(w, n) + w[n + 1]
<1> DEFINE Sums(n, g) == g = [i \in 0..n |-> IF i = 0 THEN 0 ELSE g[i - 1] + w[i]]
<1>1. \A n \in Nat : \E g : Sums(n, g)
  <2> DEFINE S == {n \in Nat : \E g : Sums(n, g)}
  <2>1. 0 \in S
    <3> DEFINE h == [i \in 0..0 |-> 0]
    <3>1. Sums(0, h)
      OBVIOUS
    <3> HIDE DEF h
    <3> QED
      BY <3>1
  <2>2. ASSUME NEW n \in Nat, n \in S PROVE n + 1 \in S
    <3>1. PICK g : Sums(n, g)
      BY <2>2
    <3> DEFINE h == [i \in 0..(n + 1) |-> IF i = n + 1 THEN g[n] + w[n + 1] ELSE g[i]]
    <3>2. Sums(n + 1, h)
      <4>1. ASSUME NEW i \in 0..(n + 1)
            PROVE  h[i] = IF i = 0 THEN 0 ELSE h[i - 1] + w[i]
        <5>1. CASE i = n + 1
          BY <5>1
        <5>2. CASE i # n + 1
          BY <3>1, <5>2
        <5> QED
          BY <5>1, <5>2
      <4> QED
        BY <4>1
    <3> HIDE DEF h
    <3> QED
      BY <3>2
  <2> HIDE DEF S
  <2>3. \A n \in Nat : n \in S
    BY <2>1, <2>2, InductionOver
  <2> QED
    BY <2>3 DEF S
<1> DEFINE G(n) == CHOOSE g : Sums(n, g)
<1>2. \A n \in Nat : Sums(n, G(n))
  BY <1>1
<1>3. ASSUME NEW n \in Nat, NEW m \in Nat PROVE \A i \in Nat : i <= n /\ i <= m => G(n)[i] = G(m)[i]
  <2> DEFINE S == {i \in Nat : i <= n /\ i <= m => G(n)[i] = G(m)[i]}
  <2>0. Sums(n, G(n)) /\ Sums(m, G(m))
    BY <1>2
  <2> HIDE DEF G
  <2>1. 0 \in S
    BY <2>0
  <2>2. ASSUME NEW i \in Nat, i \in S PROVE i + 1 \in S
    BY <2>0, <2>2
  <2> HIDE DEF S
  <2>3. \A i \in Nat : i \in S
    BY <2>1, <2>2, InductionOver
  <2> QED
    BY <2>3 DEF S
<1> DEFINE s == [n \in Nat |-> G(n)[n]]
           Rec(f) == f = [i \in Nat |-> IF i = 0 THEN 0 ELSE f[i - 1] + w[i]]
<1>4. Rec(s)
  <2> HIDE DEF G
  <2>1. ASSUME NEW i \in Nat PROVE s[i] = IF i = 0 THEN 0 ELSE s[i - 1] + w[i]
    <3>1. CASE i = 0
      BY <1>2, <3>1
    <3>2. CASE i # 0
      <4>1. G(i)[i] = G(i)[i - 1] + w[i]
        BY <1>2, <3>2
      <4>2. G(i)[i - 1] = G(i - 1)[i - 1]
        BY <1>3, <3>2
      <4> QED
        BY <3>2, <4>1, <4>2
    <3> QED
      BY <3>1, <3>2
  <2> QED
    BY <2>1
<1> HIDE DEF s
<1> DEFINE f == CHOOSE g : Rec(g)
<1>5. Rec(f)
  BY <1>4
<1>6. \A n : Total(w, n) = f[n]
  BY DEF Total
<1> HIDE DEF f
<1>7. f[0] = 0 /\ \A n \in Nat : f[n + 1] = f[n] + w[n + 1]
  BY <1>5
<1> HIDE DEF Rec
<1> QED
  BY <1>6, <1>7
------------------------------------------------------------------------------
(* What the reports read. *)

\* An index counted back in a size_t wraps below zero, and reduced modulo N is right again.
LEMMA LogIs ==
  ASSUME LogInv, NEW i \in 0..(N - 1)
  PROVE  Log(i) = IF i < Len(history) THEN Coded(history[Len(history) - i]) ELSE NoRec
<1> USE HashLogAssumption
<1>1. pos \in 0..(N - 1) /\ RingInv
  BY DEF LogInv, TypeOK
<1>2. PICK k \in Nat : Word = k * N
  BY MultipleIs
<1>3. k >= 1 /\ Word >= N
  BY <1>2
<1> DEFINE x == pos - i - 1
<1>4. Unsigned(x) % N = At(i)
  <2>1. CASE i < pos
    <3>1. x \in 0..(N - 1) /\ x \in 0..(Word - 1)
      BY <1>1, <1>3, <2>1
    <3>2. x % Word = x /\ x % N = x
      BY <3>1
    <3> QED
      BY <2>1, <3>1, <3>2 DEF Unsigned, At
  <2>2. CASE ~(i < pos)
    <3>1. x + N \in 0..(N - 1) /\ x + Word \in 0..(Word - 1) /\ x \in Int
      BY <1>1, <1>3, <2>2
    <3> HIDE DEF x
    <3>2. PICK j \in Int : j = -1
      OBVIOUS
    <3>3. PICK y : y = x + Word
      OBVIOUS
    <3>4. PICK z : z = x + N
      OBVIOUS
    <3>5. x % Word = y
      <4>1. x = j * Word + y /\ Word \in Nat \ {0} /\ y \in 0..(Word - 1)
        BY <1>3, <3>1, <3>2, <3>3
      <4> QED
        BY <3>1, <4>1, RemainderIs
    <3>6. y % N = z
      <4>1. PICK q \in Int : q = k - 1
        BY <1>2
      <4>2. q * N = k * N - N
        BY <1>2, <4>1
      <4>3. y = q * N + z /\ y \in Int /\ z \in 0..(N - 1)
        BY <1>2, <1>3, <3>1, <3>3, <3>4, <4>1, <4>2
      <4> QED
        BY <4>3, RemainderIs
    <3>7. At(i) = x + N
      BY <2>2 DEF At, x
    <3> QED
      BY <3>4, <3>5, <3>6, <3>7 DEF Unsigned
  <2> QED
    BY <2>1, <2>2
<1> QED
  BY <1>1, <1>4 DEF Log, RingInv

\* How many records the log holds.
Held == IF Len(history) < N THEN Len(history) ELSE N

LEMMA WrittenIs ==
  ASSUME LogInv
  PROVE  /\ Held \in 0..N /\ Held <= Len(history)
         /\ Written = 0..(Held - 1) /\ Cardinality(Written) = Held
<1> USE HashLogAssumption
<1>1. Len(history) \in Nat /\ Held \in 0..N /\ Held <= Len(history)
  BY HistoryTyped DEF LogInv, Held
<1>2. \A i \in 0..(N - 1) : Log(i).time # 0 <=> i < Held
  <2> SUFFICES ASSUME NEW i \in 0..(N - 1) PROVE Log(i).time # 0 <=> i < Held
    OBVIOUS
  <2>1. CASE i < Len(history)
    <3>1. history[Len(history) - i].time \in 1..MaxTime
      BY <1>1, <2>1, HistoryTyped DEF LogInv
    <3> QED
      BY <1>1, <2>1, <3>1, LogIs DEF Coded, Held
  <2>2. CASE ~(i < Len(history))
    BY <1>1, <2>2, LogIs DEF NoRec, Held
  <2> QED
    BY <2>1, <2>2
<1>3. Written = 0..(Held - 1)
  BY <1>1, <1>2 DEF Written
<1>4. Cardinality(0..(Held - 1)) = Held
  BY <1>1, FS_Interval
<1> QED
  BY <1>1, <1>3, <1>4
------------------------------------------------------------------------------
(* A rate is that of the last intervals in which the miner hashed. *)

LEMMA TotalNat ==
  ASSUME NEW w, NEW n \in Nat, \A k \in 1..n : w[k] \in Nat
  PROVE  \A i \in 0..n : Total(w, i) \in Nat
<1> DEFINE S == {i \in Nat : i <= n => Total(w, i) \in Nat}
<1>1. 0 \in S
  BY TotalAdds
<1>2. ASSUME NEW i \in Nat, i \in S PROVE i + 1 \in S
  <2> SUFFICES ASSUME i + 1 <= n PROVE Total(w, i + 1) \in Nat
    OBVIOUS
  <2>1. Total(w, i) \in Nat /\ w[i + 1] \in Nat
    BY <1>2
  <2> QED
    BY <2>1, TotalAdds
<1> HIDE DEF S
<1>3. \A i \in Nat : i \in S
  BY <1>1, <1>2, InductionOver
<1> QED
  BY <1>3 DEF S

\* The n newest of m intervals in the order of v are those of w, and no interval is more
\* than the difference of the measures h at its ends.
Reversed(v, w, h, m, n) ==
  /\ \A k \in 1..m : w[k] \in Nat /\ w[k] <= h[k + 1] - h[k]
  /\ \A k \in 1..(m + 1) : h[k] \in Nat
  /\ \A i \in 1..n : v[i] = w[m + 1 - i]

\* Added up from the newest, as get_hashrate does, they come to a difference of the sums
\* from the oldest, and to no more than the difference of the measures.
LEMMA TotalBack ==
  ASSUME NEW v, NEW w, NEW h, NEW m \in Nat, NEW n \in 0..m, Reversed(v, w, h, m, n)
  PROVE  \A i \in 0..n :
           /\ Total(v, i) = Total(w, m) - Total(w, m - i)
           /\ Total(v, i) \in 0..(h[m + 1] - h[m + 1 - i])
<1> USE DEF Reversed
<1>1. \A i \in 0..m : Total(w, i) \in Nat
  BY TotalNat
<1> DEFINE Right(i) == /\ Total(v, i) = Total(w, m) - Total(w, m - i)
                       /\ Total(v, i) \in 0..(h[m + 1] - h[m + 1 - i])
           S == {i \in Nat : i <= n => Right(i)}
<1>2. 0 \in S
  <2>1. Total(v, 0) = 0 /\ m - 0 = m /\ m + 1 - 0 = m + 1 /\ Total(w, m) \in Nat
    BY <1>1, TotalAdds
  <2>2. h[m + 1] \in Nat
    OBVIOUS
  <2> QED
    BY <2>1, <2>2
<1>3. ASSUME NEW i \in Nat, i \in S PROVE i + 1 \in S
  <2> SUFFICES ASSUME i + 1 <= n PROVE Right(i + 1)
    OBVIOUS
  <2>1. Right(i)
    BY <1>3
  <2>2. PICK k \in 1..m : k = m - i
    OBVIOUS
  <2>3. k - 1 \in Nat /\ m - (i + 1) = k - 1 /\ m + 1 - i = k + 1 /\ m + 1 - (i + 1) = k
    BY <2>2
  <2>4. Total(v, i + 1) = Total(v, i) + w[k]
    <3>1. v[i + 1] = w[k]
      BY <2>3
    <3> QED
      BY <3>1, TotalAdds
  <2>5. Total(w, k) = Total(w, k - 1) + w[k]
    <3>1. Total(w, (k - 1) + 1) = Total(w, k - 1) + w[(k - 1) + 1]
      BY <2>3, TotalAdds
    <3> QED
      BY <3>1
  <2>6. Total(w, k) \in Nat /\ Total(w, k - 1) \in Nat /\ Total(w, m) \in Nat /\ w[k] \in Nat
    BY <1>1
  <2>7. h[k] \in Nat /\ h[k + 1] \in Nat /\ h[m + 1] \in Nat /\ w[k] <= h[k + 1] - h[k]
    OBVIOUS
  <2> QED
    BY <2>1, <2>2, <2>3, <2>4, <2>5, <2>6, <2>7
<1> HIDE DEF S
<1>4. \A i \in Nat : i \in S
  BY <1>2, <1>3, InductionOver
<1> QED
  BY <1>4 DEF S

\* No more hashes were done than a word holds.
LEMMA FewHashes ==
  ASSUME LogInv
  PROVE  \A k \in 1..Len(history) : history[k].hashes < Word
<1>1. now \in 1..MaxTime /\ count \in Nat /\ count <= MaxSpeed * now /\ MaxTime \in Nat
      /\ MaxSpeed \in Nat /\ Word \in Nat /\ MaxSpeed * MaxTime < Word
  BY HashLogAssumption DEF LogInv, TypeOK, ClockInv
<1>2. PICK x \in Nat : x = MaxSpeed * now
  BY <1>1
<1>3. PICK y \in Nat : y = MaxSpeed * MaxTime
  BY <1>1
<1>4. x <= y
  BY <1>1, <1>2, <1>3
<1>5. count < Word
  BY <1>1, <1>2, <1>3, <1>4
<1>6. \A k \in 1..Len(history) : history[k].hashes \in Nat /\ history[k].hashes <= count
  BY HistoryTyped DEF LogInv, ClockInv
<1> QED
  BY <1>1, <1>5, <1>6

LEMMA LogSizes ==
  /\ N \in Nat /\ N > 0 /\ MaxTime \in Nat /\ MaxTime > 0
  /\ Word \in Nat /\ Word > 2 * MaxTime
BY HashLogAssumption

\* The log's intervals are those of the records, the sign of a time telling whether the
\* miner hashed.
LEMMA DeltasAre ==
  ASSUME LogInv, NEW k \in 1..(Held - 1)
  PROVE  /\ TimeDeltas[k] = BusyTime[Len(history) - k]
         /\ HashDeltas[k] = BusyHashes[Len(history) - k]
<1> USE LogSizes
<1>1. Held \in 0..N /\ Held <= Len(history) /\ Len(history) \in Nat
  BY WrittenIs, HistoryTyped DEF LogInv
<1>2. PICK j \in 1..(Len(history) - 1) : j = Len(history) - k
  <2>1. Len(history) - k \in 1..(Len(history) - 1)
    BY <1>1
  <2> QED
    BY <2>1
<1>3. k \in 1..(N - 1) /\ Len(history) - (k - 1) = j + 1 /\ j + 1 \in 1..Len(history)
      /\ j \in 1..Len(history)
  BY <1>1, <1>2
<1>4. Log(k) = Coded(history[j]) /\ Log(k - 1) = Coded(history[j + 1])
  <2>1. k \in 0..(N - 1) /\ k < Len(history) /\ Len(history) - k = j
    BY <1>1, <1>2, <1>3
  <2>2. k - 1 \in 0..(N - 1) /\ k - 1 < Len(history)
    BY <1>1, <2>1
  <2>3. Log(k) = Coded(history[j])
    BY <2>1, LogIs
  <2>4. Log(k - 1) = Coded(history[j + 1])
    BY <1>3, <2>2, LogIs
  <2> QED
    BY <2>3, <2>4
<1>5. /\ history[j].time \in 1..MaxTime /\ history[j + 1].time \in 1..MaxTime
      /\ history[j].hashing \in BOOLEAN /\ history[j + 1].hashing \in BOOLEAN
      /\ history[j].hashes \in Nat /\ history[j + 1].hashes \in Nat
  BY <1>3, HistoryTyped DEF LogInv
<1>6. Counts(k) <=> Busy(j)
  BY <1>4, <1>5 DEF Counts, Busy, Coded
<1>7. Busy(j) => /\ Log(k - 1).time - Log(k).time = Average(j, j + 1).time
                 /\ Log(k - 1).hashes - Log(k).hashes = Average(j, j + 1).hashes
  BY <1>4, <1>5 DEF Busy, Coded, Average
<1>8. /\ Average(j, j + 1).time \in 0..(Word - 1)
      /\ Average(j, j + 1).hashes \in 0..(Word - 1)
  <2>1. history[j].time <= history[j + 1].time /\ history[j].hashes <= history[j + 1].hashes
    <3>1. DOMAIN history = 1..Len(history) /\ j <= j + 1
      BY HistoryTyped DEF LogInv
    <3> QED
      BY <1>3, <3>1 DEF LogInv, ClockInv, Earlier
  <2>2. history[j + 1].hashes < Word
    BY <1>3, FewHashes
  <2>3. PICK tj \in 1..MaxTime, tk \in 1..MaxTime :
          tj = history[j].time /\ tk = history[j + 1].time
    BY <1>5
  <2>4. PICK hj \in Nat, hk \in Nat : hj = history[j].hashes /\ hk = history[j + 1].hashes
    BY <1>5
  <2>5. tj <= tk /\ hj <= hk /\ hk < Word
    BY <2>1, <2>2, <2>3, <2>4
  <2>6. tk - tj \in 0..(Word - 1)
    BY <2>5
  <2>7. hk - hj \in 0..(Word - 1)
    BY <2>5
  <2> QED
    BY <2>3, <2>4, <2>6, <2>7 DEF Average
<1>9. /\ Unsigned(Average(j, j + 1).time) = Average(j, j + 1).time
      /\ Unsigned(Average(j, j + 1).hashes) = Average(j, j + 1).hashes
  <2>1. \A a \in 0..(Word - 1) : a % Word = a
    OBVIOUS
  <2> QED
    BY <1>8, <2>1 DEF Unsigned
<1>10. BusyTime[j] = (IF Busy(j) THEN Average(j, j + 1).time ELSE 0)
       /\ BusyHashes[j] = (IF Busy(j) THEN Average(j, j + 1).hashes ELSE 0)
  BY <1>2 DEF BusyTime, BusyHashes
<1>11. /\ TimeDeltas[k] = (IF Counts(k) THEN Unsigned(Log(k - 1).time - Log(k).time) ELSE 0)
       /\ HashDeltas[k] = (IF Counts(k) THEN Unsigned(Log(k - 1).hashes - Log(k).hashes) ELSE 0)
  BY <1>3 DEF TimeDeltas, HashDeltas
<1> QED
  BY <1>2, <1>6, <1>7, <1>9, <1>10, <1>11

\* What get_hashrate has counted when it has come to record i.
LEMMA CountedIs ==
  ASSUME LogInv, NEW i \in 0..(Held - 1)
  PROVE  /\ TimeCounted(i) = TimeSince(Len(history) - i)
         /\ HashesCounted(i) = HashesSince(Len(history) - i)
         /\ TimeCounted(i) \in 0..MaxTime
<1> USE LogSizes
<1> DEFINE L == Len(history)
<1>1. L \in Nat \ {0} /\ Held \in 1..N /\ Held <= L /\ DOMAIN history = 1..L
  BY WrittenIs, HistoryTyped DEF LogInv
<1>2. \A k \in 1..L : /\ history[k].time \in 1..MaxTime /\ history[k].hashes \in 0..(Word - 1)
  BY FewHashes, HistoryTyped DEF LogInv
<1>3. PICK m \in Nat : m = L - 1
  <2>1. L - 1 \in Nat
    BY <1>1
  <2> QED
    BY <2>1
<1>4. PICK n \in 0..m : n = Held - 1
  BY <1>1, <1>3
<1> DEFINE ht == [k \in 1..L |-> history[k].time]
           hh == [k \in 1..L |-> history[k].hashes]
<1>5. \A k \in 1..m : /\ BusyTime[k] \in Nat /\ BusyTime[k] <= ht[k + 1] - ht[k]
                      /\ BusyHashes[k] \in Nat /\ BusyHashes[k] <= hh[k + 1] - hh[k]
  <2> SUFFICES ASSUME NEW k \in 1..m
               PROVE  /\ BusyTime[k] \in Nat /\ BusyTime[k] <= ht[k + 1] - ht[k]
                      /\ BusyHashes[k] \in Nat /\ BusyHashes[k] <= hh[k + 1] - hh[k]
    OBVIOUS
  <2>1. k \in 1..L /\ k + 1 \in 1..L /\ k \in 1..(L - 1) /\ k <= k + 1
    BY <1>1, <1>3
  <2>2. history[k].time <= history[k + 1].time /\ history[k].hashes <= history[k + 1].hashes
    BY <1>1, <2>1 DEF LogInv, ClockInv, Earlier
  <2>3. /\ BusyTime[k] = (IF Busy(k) THEN history[k + 1].time - history[k].time ELSE 0)
        /\ BusyHashes[k] = (IF Busy(k) THEN history[k + 1].hashes - history[k].hashes ELSE 0)
    BY <2>1 DEF BusyTime, BusyHashes, Average
  <2>4. /\ history[k].time \in Nat /\ history[k + 1].time \in Nat
        /\ history[k].hashes \in Nat /\ history[k + 1].hashes \in Nat
    BY <1>2, <2>1
  <2>5. /\ ht[k] = history[k].time /\ ht[k + 1] = history[k + 1].time
        /\ hh[k] = history[k].hashes /\ hh[k + 1] = history[k + 1].hashes
    BY <2>1
  <2> HIDE DEF ht, hh
  <2> QED
    BY <2>2, <2>3, <2>4, <2>5
<1>6. \A k \in 1..(m + 1) : ht[k] \in Nat /\ hh[k] \in Nat
  BY <1>2, <1>3
<1>7. \A k \in 1..n : /\ TimeDeltas[k] = BusyTime[m + 1 - k]
                      /\ HashDeltas[k] = BusyHashes[m + 1 - k]
  BY <1>3, <1>4, DeltasAre
<1>8. ht[L] - ht[L - i] \in 0..MaxTime /\ hh[L] - hh[L - i] \in Int
      /\ hh[L] - hh[L - i] < Word
  <2>1. L \in 1..L /\ L - i \in 1..L /\ L - i <= L
    BY <1>1
  <2>2. PICK j \in 1..L : j = L - i
    BY <2>1
  <2>3. history[j].time <= history[L].time
    BY <1>1, <2>1, <2>2 DEF LogInv, ClockInv, Earlier
  <2>4. /\ ht[L] = history[L].time /\ hh[L] = history[L].hashes
        /\ ht[j] = history[j].time /\ hh[j] = history[j].hashes
    BY <2>1
  <2>5. /\ history[L].time \in 1..MaxTime /\ history[j].time \in 1..MaxTime
        /\ history[L].hashes \in 0..(Word - 1) /\ history[j].hashes \in 0..(Word - 1)
    BY <1>2, <2>1
  <2> HIDE DEF ht, hh, L
  <2> QED
    BY <2>2, <2>3, <2>4, <2>5
<1>9. /\ Reversed(TimeDeltas, BusyTime, ht, m, n)
       /\ Reversed(HashDeltas, BusyHashes, hh, m, n)
  <2> HIDE DEF ht, hh
  <2> QED
    BY <1>5, <1>6, <1>7 DEF Reversed
<1> HIDE DEF ht, hh
<1>10. /\ Total(TimeDeltas, i) = Total(BusyTime, m) - Total(BusyTime, m - i)
      /\ Total(TimeDeltas, i) \in 0..(ht[m + 1] - ht[m + 1 - i])
  <2>1. \A x \in 0..n : /\ Total(TimeDeltas, x) = Total(BusyTime, m) - Total(BusyTime, m - x)
                        /\ Total(TimeDeltas, x) \in 0..(ht[m + 1] - ht[m + 1 - x])
    BY <1>9, TotalBack
  <2> QED
    BY <1>4, <2>1
<1>11. /\ Total(HashDeltas, i) = Total(BusyHashes, m) - Total(BusyHashes, m - i)
       /\ Total(HashDeltas, i) \in 0..(hh[m + 1] - hh[m + 1 - i])
  <2>1. \A x \in 0..n : /\ Total(HashDeltas, x) = Total(BusyHashes, m) - Total(BusyHashes, m - x)
                        /\ Total(HashDeltas, x) \in 0..(hh[m + 1] - hh[m + 1 - x])
    BY <1>9, TotalBack
  <2> QED
    BY <1>4, <2>1
<1>12. Total(TimeDeltas, i) \in 0..MaxTime /\ Total(HashDeltas, i) \in 0..(Word - 1)
  <2>1. m + 1 = L /\ m + 1 - i = L - i
    BY <1>1, <1>3
  <2> QED
    BY <1>8, <1>10, <1>11, <2>1
<1>13. /\ TimeCounted(i) = Total(TimeDeltas, i)
       /\ HashesCounted(i) = Total(HashDeltas, i)
  <2>1. \A a \in 0..(Word - 1) : a % Word = a
    OBVIOUS
  <2> QED
    BY <1>12, <2>1 DEF TimeCounted, HashesCounted, Unsigned
<1>14. /\ TimeSince(L - i) = Total(BusyTime, m) - Total(BusyTime, m - i)
       /\ HashesSince(L - i) = Total(BusyHashes, m) - Total(BusyHashes, m - i)
  <2>1. L - i - 1 = m - i /\ L - 1 = m
    BY <1>1, <1>3
  <2> QED
    BY <2>1 DEF TimeSince, HashesSince
<1> QED
  BY <1>10, <1>11, <1>12, <1>13, <1>14

LEMMA RateFollows == LogInv => RateIsMeasured
<1> SUFFICES ASSUME LogInv, NEW period \in Periods
             PROVE  LET first  == IF Len(history) > N THEN Len(history) - N + 1 ELSE 1
                        enough == {j \in first..Len(history) : TimeSince(j) > period}
                    IN IF enough = {}
                         THEN Hashrate(period) = Zero
                         ELSE Hashrate(period) = [hashes |-> HashesSince(Max(enough)),
                                                  time |-> TimeSince(Max(enough))]
  BY DEF RateIsMeasured
<1> USE LogSizes
<1> DEFINE L       == Len(history)
           first   == IF L > N THEN L - N + 1 ELSE 1
           enough  == {j \in first..L : TimeSince(j) > period}
           reached == {i \in Written \ {0} : TimeCounted(i) > period}
<1>1. /\ L \in Nat /\ Held \in 0..N /\ Held <= L /\ Written \ {0} = 1..(Held - 1)
  <2>1. Written = 0..(Held - 1)
    BY WrittenIs
  <2> QED
    BY <2>1, WrittenIs, HistoryTyped DEF LogInv
<1>2. first = L - Held + 1 /\ period \in Nat
  <2>1. period \in Nat
    BY HashLogAssumption
  <2>2. L > N => Held = N
    BY <1>1 DEF Held
  <2>3. ~(L > N) => Held = L
    BY <1>1 DEF Held
  <2> HIDE DEF L
  <2>4. first = L - Held + 1
    BY <1>1, <2>2, <2>3
  <2> QED
    BY <2>1, <2>4
<1>3. \A i \in 0..(Held - 1) : /\ TimeCounted(i) = TimeSince(L - i)
                               /\ HashesCounted(i) = HashesSince(L - i)
                               /\ TimeCounted(i) \in 0..MaxTime
  BY CountedIs
<1>4. Held > 0 => TimeSince(L) = 0
  <2> SUFFICES ASSUME Held > 0 PROVE TimeSince(L) = 0
    OBVIOUS
  <2>1. TimeCounted(0) = TimeSince(L - 0) /\ L - 0 = L
    BY <1>1, <1>3
  <2>2. TimeCounted(0) = 0
    BY TotalAdds DEF TimeCounted, Unsigned
  <2> QED
    BY <2>1, <2>2
<1> HIDE DEF first, enough, reached, L
<1>5. \A i : i \in reached <=> i \in 1..(Held - 1) /\ L - i \in enough
  BY <1>2, <1>1, <1>3 DEF reached, enough
<1>6. \A j \in enough : j \in 0..L /\ L - j \in reached
  <2> SUFFICES ASSUME NEW j \in enough PROVE j \in 0..L /\ L - j \in reached
    OBVIOUS
  <2>1. j \in first..L /\ TimeSince(j) > period
    BY DEF enough
  <2>2. j # L
    BY <1>2, <1>1, <1>4, <2>1
  <2>3. L - j \in 1..(Held - 1) /\ L - (L - j) = j /\ j \in 0..L
    BY <1>2, <1>1, <2>1, <2>2
  <2> QED
    BY <1>5, <2>3
<1>7. CASE enough = {}
  <2>1. reached = {}
    BY <1>5, <1>7
  <2>2. Hashrate(period) = Zero
    BY <2>1 DEF Hashrate, reached
  <2> QED
    BY <1>7, <2>2 DEF enough, first, L
<1>8. CASE enough # {}
  <2>1. reached # {} /\ reached \in SUBSET Nat
    BY <1>5, <1>6, <1>8
  <2>2. PICK i : i = Min(reached)
    OBVIOUS
  <2>3. i \in reached /\ \A y \in reached : i <= y
    BY <2>1, <2>2, MinIs
  <2>4. PICK j : j = Max(enough)
    OBVIOUS
  <2>5. j \in enough /\ \A y \in enough : j >= y
    <3>1. enough \in SUBSET (0..L)
      BY <1>6
    <3> QED
      BY <1>1, <1>8, <2>4, <3>1, MaxIs
  <2>6. j = L - i /\ i \in 0..(Held - 1)
    <3>1. i <= L - j /\ j >= L - i
      BY <1>5, <1>6, <2>3, <2>5
    <3>2. i \in 1..(Held - 1) /\ j \in 0..L
      BY <1>5, <1>6, <2>3, <2>5
    <3> QED
      BY <1>1, <3>1, <3>2
  <2>7. Hashrate(period) = [hashes |-> HashesCounted(i), time |-> TimeCounted(i)]
    BY <2>1, <2>2 DEF Hashrate, reached
  <2>8. Hashrate(period) = [hashes |-> HashesSince(j), time |-> TimeSince(j)]
    BY <1>3, <2>6, <2>7
  <2> QED
    BY <1>8, <2>4, <2>8 DEF enough, first, L
<1> QED
  BY <1>7, <1>8

\* get_hashrate reports the hashes and the time of exactly the last intervals in which
\* the miner hashed, as many as exceed the period, and Zero only when the newest N
\* records hold too few.
THEOREM RateIsRight == Spec => []RateIsMeasured
<1> QED
  BY LogInvariant, RateFollows, PTL
------------------------------------------------------------------------------
(* The peak. *)

\* The rounds of the loop of get_hashrate_peak, as TotalAdds is about those of a sum.
LEMMA PeakLoopRounds ==
  /\ PeakLoop(0) = [p |-> 0, peak |-> Zero]
  /\ \A n \in Nat : PeakLoop(n + 1) = PeakStep(PeakLoop(n), n)
<1> DEFINE First == [p |-> 0, peak |-> Zero]
<1> DEFINE Rounds(n, g) == g = [i \in 0..n |-> IF i = 0 THEN First ELSE PeakStep(g[i - 1], i - 1)]
<1> HIDE DEF First
<1>1. \A n \in Nat : \E g : Rounds(n, g)
  <2> DEFINE S == {n \in Nat : \E g : Rounds(n, g)}
  <2>1. 0 \in S
    <3> DEFINE h == [i \in 0..0 |-> First]
    <3>1. Rounds(0, h)
      OBVIOUS
    <3> HIDE DEF h
    <3> QED
      BY <3>1
  <2>2. ASSUME NEW n \in Nat, n \in S PROVE n + 1 \in S
    <3>1. PICK g : Rounds(n, g)
      BY <2>2
    <3> DEFINE h == [i \in 0..(n + 1) |-> IF i = n + 1 THEN PeakStep(g[n], n) ELSE g[i]]
    <3>2. Rounds(n + 1, h)
      <4>1. ASSUME NEW i \in 0..(n + 1)
            PROVE  h[i] = IF i = 0 THEN First ELSE PeakStep(h[i - 1], i - 1)
        <5>1. CASE i = n + 1
          BY <5>1
        <5>2. CASE i # n + 1
          BY <3>1, <5>2
        <5> QED
          BY <5>1, <5>2
      <4> QED
        BY <4>1
    <3> HIDE DEF h
    <3> QED
      BY <3>2
  <2> HIDE DEF S
  <2>3. \A n \in Nat : n \in S
    BY <2>1, <2>2, InductionOver
  <2> QED
    BY <2>3 DEF S
<1> DEFINE G(n) == CHOOSE g : Rounds(n, g)
<1>2. \A n \in Nat : Rounds(n, G(n))
  BY <1>1
<1>3. ASSUME NEW n \in Nat, NEW m \in Nat PROVE \A i \in Nat : i <= n /\ i <= m => G(n)[i] = G(m)[i]
  <2> DEFINE S == {i \in Nat : i <= n /\ i <= m => G(n)[i] = G(m)[i]}
  <2>0. Rounds(n, G(n)) /\ Rounds(m, G(m))
    BY <1>2
  <2> HIDE DEF G
  <2>1. 0 \in S
    BY <2>0
  <2>2. ASSUME NEW i \in Nat, i \in S PROVE i + 1 \in S
    BY <2>0, <2>2
  <2> HIDE DEF S
  <2>3. \A i \in Nat : i \in S
    BY <2>1, <2>2, InductionOver
  <2> QED
    BY <2>3 DEF S
<1> DEFINE s == [n \in Nat |-> G(n)[n]]
           Rec(f) == f = [i \in Nat |-> IF i = 0 THEN First ELSE PeakStep(f[i - 1], i - 1)]
<1>4. Rec(s)
  <2> HIDE DEF G
  <2>1. ASSUME NEW i \in Nat PROVE s[i] = IF i = 0 THEN First ELSE PeakStep(s[i - 1], i - 1)
    <3>1. CASE i = 0
      BY <1>2, <3>1
    <3>2. CASE i # 0
      <4>1. G(i)[i] = PeakStep(G(i)[i - 1], i - 1)
        BY <1>2, <3>2
      <4>2. G(i)[i - 1] = G(i - 1)[i - 1]
        BY <1>3, <3>2
      <4> QED
        BY <3>2, <4>1, <4>2
    <3> QED
      BY <3>1, <3>2
  <2> QED
    BY <2>1
<1> HIDE DEF s
<1> DEFINE f == CHOOSE g : Rec(g)
<1>5. Rec(f)
  BY <1>4
<1>6. \A n : PeakLoop(n) = f[n]
  BY DEF PeakLoop, First
<1> HIDE DEF f
<1>7. f[0] = First /\ \A n \in Nat : f[n + 1] = PeakStep(f[n], n)
  BY <1>5
<1> HIDE DEF Rec
<1> QED
  BY <1>6, <1>7 DEF First

\* There was an average between two records that a rate does not exceed.
NotTooHigh(r) ==
  \E j, k \in DOMAIN history : /\ history[j].time < history[k].time
                              /\ ~Faster(r, Average(j, k))

PeakRight(acc, n) ==
  /\ acc.p \in 0..n /\ acc.peak.hashes \in Nat /\ acc.peak.time \in Nat
  /\ Faster(acc.peak, Zero) => NotTooHigh(acc.peak)

\* The difference of two coded times is never less than that of the times, whatever the
\* signs and although it wraps.
LEMMA DeltaIsLong ==
  ASSUME NEW a \in 1..MaxTime, NEW b \in 1..MaxTime, b <= a,
         NEW x \in {a, -a}, NEW y \in {b, -b}, Unsigned(x - y) > 0
  PROVE  Unsigned(x - y) \in Nat /\ Unsigned(x - y) >= a - b
<1> USE LogSizes
<1>1. x - y \in (-(2 * MaxTime))..(2 * MaxTime)
  OBVIOUS
<1>2. CASE x - y >= 0
  <2>1. Unsigned(x - y) = x - y
    BY <1>1, <1>2 DEF Unsigned
  <2> QED
    BY <1>2, <2>1
<1>3. CASE x - y < 0
  <2>1. PICK d \in Int : d = x - y
    BY <1>1
  <2>2. PICK j \in Int : j = -1
    OBVIOUS
  <2>3. PICK e \in 0..(Word - 1) : e = d + Word
    <3>1. d + Word \in 0..(Word - 1)
      BY <1>1, <1>3, <2>1
    <3> QED
      BY <3>1
  <2>4. d = j * Word + e /\ Word \in Nat \ {0}
    BY <2>1, <2>2, <2>3
  <2>5. d % Word = e
    BY <2>3, <2>4, RemainderIs
  <2>6. e >= a - b
    BY <2>1, <2>3
  <2> QED
    BY <2>1, <2>3, <2>5, <2>6 DEF Unsigned
<1> QED
  BY <1>1, <1>2, <1>3

LEMMA PeakRound ==
  ASSUME LogInv, NEW n \in 0..(Held - 1), PeakRight(PeakLoop(n), n)
  PROVE  PeakRight(PeakLoop(n + 1), n + 1)
<1> USE LogSizes
<1> DEFINE L == Len(history)
<1>1. PICK acc : acc = PeakLoop(n)
  OBVIOUS
<1>2. PICK p, peak : p = acc.p /\ peak = acc.peak
  OBVIOUS
<1>3. /\ p \in 0..n /\ peak.hashes \in Nat /\ peak.time \in Nat
      /\ Faster(peak, Zero) => NotTooHigh(peak)
  BY <1>1, <1>2 DEF PeakRight
<1>4. n \in Nat /\ PeakLoop(n + 1) = PeakStep(acc, n)
  BY <1>1, PeakLoopRounds
<1>5. L \in Nat /\ Held \in 0..N /\ Held <= L /\ DOMAIN history = 1..L
  BY WrittenIs, HistoryTyped DEF LogInv
<1>6. PICK j \in 1..L, k \in 1..L : j = L - n /\ k = L - p
  <2>1. L - n \in 1..L /\ L - p \in 1..L
    BY <1>3, <1>4, <1>5
  <2> QED
    BY <2>1
<1>7. Log(n) = Coded(history[j]) /\ Log(p) = Coded(history[k])
  <2>1. n \in 0..(N - 1) /\ p \in 0..(N - 1) /\ n < L /\ p < L
    BY <1>3, <1>4, <1>5
  <2> QED
    BY <1>6, <2>1, LogIs
<1>8. PICK tj \in 1..MaxTime, tk \in 1..MaxTime, hj \in Nat, hk \in Nat :
        /\ tj = history[j].time /\ tk = history[k].time
        /\ hj = history[j].hashes /\ hk = history[k].hashes
  <2>1. /\ history[j].time \in 1..MaxTime /\ history[k].time \in 1..MaxTime
        /\ history[j].hashes \in Nat /\ history[k].hashes \in Nat
    BY HistoryTyped DEF LogInv
  <2> QED
    BY <2>1
<1>9. tj <= tk /\ hj <= hk /\ (tj = tk => hj = hk)
  <2>1. j <= k
    BY <1>3, <1>4, <1>5, <1>6
  <2>2. Earlier(j, k)
    BY <1>5, <2>1 DEF LogInv, ClockInv
  <2> QED
    BY <1>8, <2>2 DEF Earlier
<1>10. PICK x \in {tk, -tk}, y \in {tj, -tj} : x = Log(p).time /\ y = Log(n).time
  BY <1>7, <1>8 DEF Coded
<1>11. Log(p).hashes = hk /\ Log(n).hashes = hj
  BY <1>7, <1>8 DEF Coded
<1>12. PICK delta : delta = Unsigned(x - y)
  OBVIOUS
<1>13. PICK hps : hps = [hashes |-> hk - hj, time |-> delta]
  OBVIOUS
<1>14. PeakLoop(n + 1) = IF delta > PeakSpan
                           THEN [p |-> n, peak |-> IF Faster(hps, peak) THEN hps ELSE peak]
                           ELSE acc
  BY <1>2, <1>4, <1>10, <1>11, <1>12, <1>13 DEF PeakStep
<1>15. CASE ~(delta > PeakSpan)
  <2>1. PeakLoop(n + 1) = acc
    BY <1>14, <1>15
  <2>2. p \in 0..(n + 1)
    BY <1>3, <1>4
  <2> QED
    BY <1>2, <1>3, <2>1, <2>2 DEF PeakRight
<1>16. CASE delta > PeakSpan /\ ~Faster(hps, peak)
  <2>1. PeakLoop(n + 1) = [p |-> n, peak |-> peak]
    BY <1>14, <1>16
  <2>2. n \in 0..(n + 1)
    BY <1>4
  <2> QED
    BY <1>3, <2>1, <2>2 DEF PeakRight
<1>17. CASE delta > PeakSpan /\ Faster(hps, peak)
  <2>1. PeakSpan \in Nat \ {0} /\ delta \in Int
    <3>1. x - y \in Int
      OBVIOUS
    <3> QED
      BY <1>12, <3>1, HashLogAssumption DEF Unsigned
  <2>2. delta \in Nat /\ delta > 0 /\ delta >= tk - tj
    <3>1. delta > 0
      BY <1>17, <2>1
    <3>2. Unsigned(x - y) > 0 /\ tj <= tk
      BY <1>9, <1>12, <3>1
    <3>3. Unsigned(x - y) \in Nat /\ Unsigned(x - y) >= tk - tj
      BY <3>2, DeltaIsLong
    <3> QED
      BY <1>12, <3>1, <3>3
  <2>3. PICK h \in Nat : h = hk - hj
    <3>1. hk - hj \in Nat
      BY <1>9
    <3> QED
      BY <3>1
  <2>4. h # 0
    <3>1. h * peak.time > peak.hashes * delta
      BY <1>13, <1>17, <2>3 DEF Faster
    <3>2. peak.hashes * delta \in Nat
      BY <1>3, <2>2
    <3>3. h = 0 => h * peak.time = 0
      BY <1>3
    <3> QED
      BY <3>1, <3>2, <3>3
  <2>5. tj < tk
    BY <1>9, <2>3, <2>4
  <2>6. PICK d \in Nat : d = tk - tj
    <3>1. tk - tj \in Nat
      BY <2>5
    <3> QED
      BY <3>1
  <2>7. ~(h * d > h * delta)
    <3>1. h * d <= h * delta /\ h * d \in Nat /\ h * delta \in Nat
      BY <2>2, <2>6
    <3> QED
      BY <3>1
  <2>8. Average(j, k) = [hashes |-> h, time |-> d]
    BY <1>8, <2>3, <2>6 DEF Average
  <2>9. ~Faster(hps, Average(j, k))
    BY <1>13, <2>3, <2>7, <2>8 DEF Faster
  <2>10. NotTooHigh(hps)
    BY <1>5, <1>8, <2>5, <2>9 DEF NotTooHigh
  <2>11. PeakLoop(n + 1) = [p |-> n, peak |-> hps]
    BY <1>14, <1>17
  <2>12. hps.hashes \in Nat /\ hps.time \in Nat
    BY <1>13, <2>2, <2>3
  <2>13. n \in 0..(n + 1)
    BY <1>4
  <2> QED
    BY <2>10, <2>11, <2>12, <2>13 DEF PeakRight
<1> QED
  BY <1>15, <1>16, <1>17

LEMMA PeakFollows == LogInv => PeakNotTooHigh
<1> SUFFICES ASSUME LogInv PROVE PeakNotTooHigh
  OBVIOUS
<1>1. Held \in Nat /\ Cardinality(Written) = Held
  BY WrittenIs, LogSizes
<1> DEFINE S == {n \in Nat : n <= Held => PeakRight(PeakLoop(n), n)}
<1>2. 0 \in S
  <2>1. ~Faster(Zero, Zero) /\ Zero.hashes \in Nat /\ Zero.time \in Nat
    BY DEF Faster, Zero
  <2>2. PeakRight(PeakLoop(0), 0)
    BY <2>1, PeakLoopRounds DEF PeakRight
  <2> QED
    BY <2>2
<1>3. ASSUME NEW n \in Nat, n \in S PROVE n + 1 \in S
  <2> SUFFICES ASSUME n + 1 <= Held PROVE PeakRight(PeakLoop(n + 1), n + 1)
    OBVIOUS
  <2>1. n \in 0..(Held - 1) /\ n <= Held
    BY <1>1
  <2> QED
    BY <1>3, <2>1, PeakRound
<1> HIDE DEF S
<1>4. \A n \in Nat : n \in S
  BY <1>2, <1>3, InductionOver
<1>5. PeakRight(PeakLoop(Held), Held)
  BY <1>1, <1>4 DEF S
<1> QED
  BY <1>1, <1>5 DEF PeakNotTooHigh, Peak, PeakRight, NotTooHigh

\* get_hashrate_peak never reports more than every average between two records, although
\* its differences with the negative times of idleness wrap.
THEOREM PeakIsRight == Spec => []PeakNotTooHigh
<1> QED
  BY LogInvariant, PeakFollows, PTL
=============================================================================
