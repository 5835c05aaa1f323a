------------------------------ MODULE HashLog ------------------------------
(* The hash log of one miner: a ring buffer of the hashes done so far, with  *)
(* a negative time when the miner was not hashing, and the rates that are    *)
(* reported from it.  A rate is a fraction, hashes over time.                *)
EXTENDS Integers, Sequences, FiniteSetsExt

CONSTANTS
  N,         \* the size of hash_log, 8192
  Periods,   \* the periods rates are asked for
  PeakSpan,  \* the shortest time a peak is measured over, 10000 ms
  Word,      \* 2^64, where a size_t or uint64_t wraps
  MaxSpeed,  \* the most hashes in a unit of time
  MaxTime,   \* bound on the clock
  MaxRecs    \* bound on the records

ASSUME HashLogAssumption ==
  /\ N \in Nat \ {0} /\ MaxTime \in Nat \ {0} /\ MaxSpeed \in Nat /\ MaxRecs \in Nat
  /\ Word \in Nat /\ Word > 2 * MaxTime /\ Word > MaxSpeed * MaxTime /\ Word % N = 0
  /\ PeakSpan \in Nat \ {0} /\ Periods \subseteq Nat

VARIABLES
  now,       \* steady_clock; the miners start some time after the machine
  hashing,   \* miner::is_hashing
  count,     \* miner::hash_count
  data,      \* ring_buffer::data
  pos,       \* ring_buffer::pos
  history    \* every record made, the oldest first: nothing reads it but the properties

vars == <<now, hashing, count, data, pos, history>>

Recs == [time : (-MaxTime)..MaxTime, hashes : Nat]
NoRec == [time |-> 0, hashes |-> 0]

Unsigned(i) == i % Word

\* hash_log[i], counted back from the newest.
Log(i) == data[Unsigned(pos - i - 1) % N]

\* The records before the first that was never written.
Written == {i \in 0..(N - 1) : \A k \in 0..i : Log(k).time # 0}

Zero == [hashes |-> 0, time |-> 1]
Faster(r, s) == r.hashes * s.time > s.hashes * r.time

\* What a loop that adds up w[1], w[2], ... has come to after n rounds.
Total(w, n) == LET sum[i \in Nat] == IF i = 0 THEN 0 ELSE sum[i - 1] + w[i] IN sum[n]
------------------------------------------------------------------------------
(* The reports. *)

\* Mutant of Counts: an interval counts if the miner hashed at one of its ends.
CountsEither(k) == Log(k - 1).time > 0 \/ Log(k).time > 0

\* Did the miner hash in the interval between hash_log[k] and hash_log[k - 1]?
Counts(k) == Log(k - 1).time > 0 /\ Log(k).time > 0

\* What get_hashrate adds to its two counts in each round of its loop.
TimeDeltas ==
  [k \in 1..(N - 1) |-> IF Counts(k) THEN Unsigned(Log(k - 1).time - Log(k).time) ELSE 0]
HashDeltas ==
  [k \in 1..(N - 1) |-> IF Counts(k) THEN Unsigned(Log(k - 1).hashes - Log(k).hashes) ELSE 0]

TimeCounted(i)   == Unsigned(Total(TimeDeltas, i))
HashesCounted(i) == Unsigned(Total(HashDeltas, i))

\* executor::get_hashrate: over as many intervals as it takes to exceed the period.
Hashrate(period) ==
  LET reached == {i \in Written \ {0} : TimeCounted(i) > period}
      i       == Min(reached)
  IN IF reached = {} THEN Zero ELSE [hashes |-> HashesCounted(i), time |-> TimeCounted(i)]

\* The body of the loop of get_hashrate_peak.
PeakStep(acc, i) ==
  LET delta == Unsigned(Log(acc.p).time - Log(i).time)
      hps   == [hashes |-> Log(acc.p).hashes - Log(i).hashes, time |-> delta]
  IN IF delta > PeakSpan
       THEN [p |-> i, peak |-> IF Faster(hps, acc.peak) THEN hps ELSE acc.peak]
       ELSE acc

\* The first n rounds of that loop.
PeakLoop(n) ==
  LET acc[i \in Nat] == IF i = 0 THEN [p |-> 0, peak |-> Zero] ELSE PeakStep(acc[i - 1], i - 1)
  IN acc[n]

\* Mutant of Peak: it goes on past the records that were written.
PeakOfAll == PeakLoop(N).peak

\* executor::get_hashrate_peak
Peak == PeakLoop(Cardinality(Written)).peak
------------------------------------------------------------------------------
Init ==
  /\ now = 1 /\ hashing = FALSE /\ count = 0
  /\ data = [i \in 0..(N - 1) |-> NoRec] /\ pos = 0
  /\ history = <<>>

\* Time passes, and a hashing miner hashes.
Tick ==
  /\ now < MaxTime
  /\ now' = now + 1
  /\ \E h \in 0..(IF hashing THEN MaxSpeed ELSE 0) : count' = count + h
  /\ UNCHANGED <<hashing, data, pos, history>>

\* A hashing loop begins or ends.
ToggleHashing ==
  /\ hashing' = ~hashing
  /\ UNCHANGED <<now, count, data, pos, history>>

\* Mutant of Insert: the position runs on.
InsertAhead(rec) ==
  /\ data' = [data EXCEPT ![pos] = rec]
  /\ pos' = pos + 1

\* ring_buffer::insert
Insert(rec) ==
  /\ data' = [data EXCEPT ![pos] = rec]
  /\ pos' = (pos + 1) % N

\* record_hashes, at a heartbeat, at a new job or when the connection is lost.
RecordHashes ==
  /\ Len(history) < MaxRecs
  /\ Insert([time |-> IF hashing THEN now ELSE -now, hashes |-> count])
  /\ history' = Append(history, [time |-> now, hashes |-> count, hashing |-> hashing])
  /\ UNCHANGED <<now, hashing, count>>

Next == Tick \/ ToggleHashing \/ RecordHashes

Spec == Init /\ [][Next]_vars
------------------------------------------------------------------------------
\* Every variable keeps its type.
TypeOK ==
  /\ now \in 1..MaxTime /\ hashing \in BOOLEAN /\ count \in Nat
  /\ data \in [0..(N - 1) -> Recs] /\ pos \in 0..(N - 1)
  /\ history \in Seq([time : 1..MaxTime, hashes : Nat, hashing : BOOLEAN])

Average(j, k) == [hashes |-> history[k].hashes - history[j].hashes,
                  time |-> history[k].time - history[j].time]

\* The time and the hashes of the interval after each record, if the miner hashed at both
\* ends of it, and of the intervals since record j.
Busy(k)        == history[k].hashing /\ history[k + 1].hashing
BusyTime       == [k \in 1..(Len(history) - 1) |-> IF Busy(k) THEN Average(k, k + 1).time ELSE 0]
BusyHashes     == [k \in 1..(Len(history) - 1) |-> IF Busy(k) THEN Average(k, k + 1).hashes ELSE 0]
TimeSince(j)   == Total(BusyTime, Len(history) - 1) - Total(BusyTime, j - 1)
HashesSince(j) == Total(BusyHashes, Len(history) - 1) - Total(BusyHashes, j - 1)

\* A rate is that of the last intervals in which the miner hashed, as many as exceed
\* the period ("time between two negative time values should not be counted",
\* miner.hpp:20), and there is one whenever the newest N records hold enough of
\* them, although the log wraps and codes idleness in the sign of a time.
RateIsMeasured ==
  \A period \in Periods :
    LET first  == IF Len(history) > N THEN Len(history) - N + 1 ELSE 1
        enough == {j \in first..Len(history) : TimeSince(j) > period}
    IN IF enough = {}
         THEN Hashrate(period) = Zero
         ELSE Hashrate(period) = [hashes |-> HashesSince(Max(enough)),
                                  time |-> TimeSince(Max(enough))]

\* The peak is never above every average the miner had between two records, although
\* differences with negative times wrap to enormous ones (executor.hpp:124).
PeakNotTooHigh ==
  Faster(Peak, Zero) =>
    \E j, k \in DOMAIN history :
      /\ history[j].time < history[k].time
      /\ ~Faster(Peak, Average(j, k))
=============================================================================
