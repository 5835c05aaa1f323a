------------------------------- MODULE Mining -------------------------------
(***************************************************************************)
(* The loop thread's job publication (executor.cpp), the two datasets with *)
(* their detached calculation threads (dataset.hpp, rx_dataset.hpp,        *)
(* rx_dataset.cpp, pp_dataset.hpp, pp_dataset.cpp) and the mining threads  *)
(* (miner.cpp, rx_miner.cpp, pp_miner.cpp).                                *)
(*                                                                         *)
(* A step is what one thread does between two accesses to state another    *)
(* thread can see: current_job, ready_id, rx_dataset::seed, the dataset    *)
(* memory and the dataset's shared_timed_mutex.  loaded_id is only ever    *)
(* touched by the loop thread, so its accesses ride on the next shared     *)
(* one.  Seeds and epoch numbers are opaque identifiers; a job's height    *)
(* appears only as its epoch.                                              *)
(***************************************************************************)
EXTENDS Naturals, Sequences

CONSTANTS
  Miners,     \* the mining threads of executor::miners
  MinerPow,   \* the one proof of work each of them computes
  Seeds,      \* values of v32::get_id of RandomX seeds
  Epochs,     \* ethash epoch numbers
  InvalidId,  \* dataset::invalid_id, also "nothing" where no id is read
  Torn,       \* what a calculation over a half-written seed leaves behind
  Free,       \* no thread holds the mutex exclusively
  Overlap,    \* may the pool change seed or epoch during a calculation?
  MaxJobs     \* bound on the length of executor::miner_jobs

Datasets == {"randomx", "progpow"}
Ids == Seeds \cup Epochs

ASSUME ConstantsAssumption ==
  /\ MinerPow \in [Miners -> Datasets]
  /\ InvalidId \notin Ids /\ Torn \notin Ids \cup {InvalidId}
  /\ Free \notin Ids \cup {InvalidId}
  /\ Overlap \in BOOLEAN
  /\ MaxJobs \in Nat \ {0}

VARIABLES
  jobs,     \* executor::miner_jobs, oldest first; current_job points to the last
  loopPc,   \* where the loop thread is inside on_pool_new_job
  todo,     \* the pool_job that call is about
  seed,     \* rx_dataset::seed
  loaded,   \* dataset::loaded_id
  ready,    \* dataset::ready_id
  content,  \* the identifier the dataset memory was computed for
  waiting,  \* calculation threads not yet holding mtx, counted by argument
  holder,   \* the argument of the calculation thread that holds mtx, or Free
  minerPc,  \* where each mining thread is
  lastJob   \* miner::last_job, as a position in jobs (0 is nullptr)

loopVars  == <<jobs, loopPc, todo>>
dsVars    == <<seed, loaded, ready, content, waiting, holder>>
minerVars == <<minerPc, lastJob>>
vars      == <<jobs, loopPc, todo, seed, loaded, ready, content, waiting,
               holder, minerPc, lastJob>>

PowTypes  == Datasets \cup {"cuckoo", "idle"}
MinerJobs == [type : PowTypes, id : Ids \cup {InvalidId}]
PoolJobs  == [type : PowTypes \ {"idle"}, seed : Seeds, epoch : Epochs]

\* What a calculation thread is handed: the epoch, or nothing for RandomX.
Args == Epochs \cup {InvalidId}

current == Len(jobs)
IdleJob == [type |-> "idle", id |-> InvalidId]

\* The miner_job built from a pool_job: only the dataset identity matters here.
MinerJob(j) ==
  [type |-> j.type,
   id   |-> CASE j.type = "randomx" -> j.seed
              [] j.type = "progpow" -> j.epoch
              [] OTHER -> InvalidId]

Spawn(w, d, a) == [w EXCEPT ![d][a] = @ + 1]
Readers(d)     == {m \in Miners : MinerPow[m] = d /\ minerPc[m] \in {"loop", "hash"}}
Quiet(d)       == holder[d] = Free /\ \A a \in Args : waiting[d][a] = 0
MyJob(m)       == jobs[lastJob[m]]
------------------------------------------------------------------------------
(* The loop thread. *)

\* A job arrives: on_pool_new_job up to the point where rx_dataset::seed is
\* about to be overwritten, or up to progpow_dataset if the seed is loaded.
NewJob(j) ==
  /\ loopPc = "wait"
  /\ current < MaxJobs
  /\ \/ Overlap
     \/ /\ j.seed # loaded["randomx"] => Quiet("randomx")
        /\ j.epoch # loaded["progpow"] => Quiet("progpow")
  /\ todo' = j
  /\ IF loaded["randomx"] = j.seed
       THEN /\ loopPc' = "block"
            /\ UNCHANGED <<loaded, ready>>
       ELSE /\ loopPc' = "seed"
            /\ loaded' = [loaded EXCEPT !["randomx"] = j.seed]
            /\ ready' = [ready EXCEPT !["randomx"] = InvalidId]
  /\ UNCHANGED <<jobs, seed, content, waiting, holder, minerVars>>

\* Mutant of StoreSeed: the seed is not stored.
SpawnOnly ==
  /\ loopPc = "seed"
  /\ waiting' = Spawn(waiting, "randomx", InvalidId)
  /\ loopPc' = "block"
  /\ UNCHANGED <<jobs, todo, seed, loaded, ready, content, holder, minerVars>>

\* The unlocked write of rx_dataset::seed, then the detached thread.
StoreSeed ==
  /\ loopPc = "seed"
  /\ seed' = todo.seed
  /\ waiting' = Spawn(waiting, "randomx", InvalidId)
  /\ loopPc' = "block"
  /\ UNCHANGED <<jobs, todo, loaded, ready, content, holder, minerVars>>

\* Mutant of AdjustToBlock: the epoch is announced before it is calculated.
AdjustAnnouncing ==
  /\ loopPc = "block"
  /\ loopPc' = "publish"
  /\ IF loaded["progpow"] = todo.epoch
       THEN UNCHANGED <<loaded, ready, waiting>>
       ELSE /\ loaded' = [loaded EXCEPT !["progpow"] = todo.epoch]
            /\ ready' = [ready EXCEPT !["progpow"] = todo.epoch]
            /\ waiting' = Spawn(waiting, "progpow", todo.epoch)
  /\ UNCHANGED <<jobs, todo, seed, content, holder, minerVars>>

\* progpow_dataset is adjusted, whatever proof of work the job is for.
AdjustToBlock ==
  /\ loopPc = "block"
  /\ loopPc' = "publish"
  /\ IF loaded["progpow"] = todo.epoch
       THEN UNCHANGED <<loaded, ready, waiting>>
       ELSE /\ loaded' = [loaded EXCEPT !["progpow"] = todo.epoch]
            /\ ready' = [ready EXCEPT !["progpow"] = InvalidId]
            /\ waiting' = Spawn(waiting, "progpow", todo.epoch)
  /\ UNCHANGED <<jobs, todo, seed, content, holder, minerVars>>

\* Mutant of PublishJob: the job is pushed as the pool sent it.
PublishRawJob ==
  /\ loopPc = "publish"
  /\ jobs' = Append(jobs, todo)
  /\ loopPc' = "wait"
  /\ todo' = InvalidId
  /\ UNCHANGED <<dsVars, minerVars>>

\* The new node at the front of miner_jobs becomes current_job.
PublishJob ==
  /\ loopPc = "publish"
  /\ jobs' = Append(jobs, MinerJob(todo))
  /\ loopPc' = "wait"
  /\ todo' = InvalidId
  /\ UNCHANGED <<dsVars, minerVars>>

\* on_pool_disconnect with its push_idle_job.
PoolDisconnect ==
  /\ loopPc = "wait"
  /\ current < MaxJobs
  /\ jobs[current].type # "idle"
  /\ jobs' = Append(jobs, IdleJob)
  /\ UNCHANGED <<loopPc, todo, dsVars, minerVars>>
------------------------------------------------------------------------------
(* The detached calculation threads.  The mutex has no queue discipline:   *)
(* any waiting thread may be the next to get it.                           *)

\* randomx_init_cache reads this->seed without a lock of the loop thread's;
\* while that thread is storing it the read may be torn.
SeedRead == {seed} \cup (IF loopPc = "seed" THEN {Torn} ELSE {})

\* Lock mtx exclusively and start computing.  Taking the lock and the first
\* read are one step, since nobody can see the memory under the lock.
BeginCalculation(d, a) ==
  /\ waiting[d][a] > 0
  /\ holder[d] = Free
  /\ Readers(d) = {}
  /\ waiting' = [waiting EXCEPT ![d][a] = @ - 1]
  /\ holder' = [holder EXCEPT ![d] = a]
  /\ \E c \in IF d = "randomx" THEN SeedRead ELSE {a} :
       content' = [content EXCEPT ![d] = c]
  /\ UNCHANGED <<loopVars, seed, loaded, ready, minerVars>>

\* Mutants of FinishCalculation: loaded_id is announced in place of the thread's
\* argument; nothing is announced.
FinishAnnouncingLoaded(d) ==
  /\ holder[d] # Free
  /\ ready' = [ready EXCEPT ![d] = loaded[d]]
  /\ holder' = [holder EXCEPT ![d] = Free]
  /\ UNCHANGED <<loopVars, seed, loaded, content, waiting, minerVars>>

FinishSilently(d) ==
  /\ holder[d] # Free
  /\ holder' = [holder EXCEPT ![d] = Free]
  /\ UNCHANGED <<loopVars, seed, loaded, ready, content, waiting, minerVars>>

\* Publish ready_id (RandomX reads this->seed again for it) and unlock.
FinishCalculation(d) ==
  /\ holder[d] # Free
  /\ ready' = [ready EXCEPT ![d] = IF d = "randomx" THEN seed ELSE holder[d]]
  /\ holder' = [holder EXCEPT ![d] = Free]
  /\ UNCHANGED <<loopVars, seed, loaded, content, waiting, minerVars>>
------------------------------------------------------------------------------
(* The mining threads. *)

Goto(m, from, to) ==
  /\ minerPc[m] = from
  /\ minerPc' = [minerPc EXCEPT ![m] = to]

\* One turn of thread_main: copy current_job and choose the loop for its type.
FetchJob(m) ==
  /\ Goto(m, "fetch", IF jobs[current].type = MinerPow[m] THEN "check" ELSE "idle")
  /\ lastJob' = [lastJob EXCEPT ![m] = current]
  /\ UNCHANGED <<loopVars, dsVars>>

\* idle_loop returns once current_job has moved on.
LeaveIdle(m) ==
  /\ current # lastJob[m]
  /\ Goto(m, "idle", "fetch")
  /\ UNCHANGED <<loopVars, dsVars, lastJob>>

\* Mutant of CheckReady: loaded_id is compared in place of ready_id.
CheckLoaded(m) ==
  /\ Goto(m, "check", IF loaded[MinerPow[m]] = MyJob(m).id THEN "lock" ELSE "recheck")
  /\ UNCHANGED <<loopVars, dsVars, lastJob>>

\* dataset_check_loop reads ready_id.
CheckReady(m) ==
  /\ Goto(m, "check", IF ready[MinerPow[m]] = MyJob(m).id THEN "lock" ELSE "recheck")
  /\ UNCHANGED <<loopVars, dsVars, lastJob>>

\* Mutant of RecheckJob: current_job is not looked at while waiting.
RecheckForever(m) ==
  /\ Goto(m, "recheck", "check")
  /\ UNCHANGED <<loopVars, dsVars, lastJob>>

\* dataset_check_loop gives up on a superseded job, or sleeps and reads again.
RecheckJob(m) ==
  /\ Goto(m, "recheck", IF current # lastJob[m] THEN "fetch" ELSE "check")
  /\ UNCHANGED <<loopVars, dsVars, lastJob>>

\* Mutant of LockShared: the dataset is used without its lock.
EnterUnlocked(m) ==
  /\ Goto(m, "lock", "loop")
  /\ UNCHANGED <<loopVars, dsVars, lastJob>>

\* The shared lock, taken after the check and held for the whole hashing loop.
LockShared(m) ==
  /\ holder[MinerPow[m]] = Free
  /\ Goto(m, "lock", "loop")
  /\ UNCHANGED <<loopVars, dsVars, lastJob>>

\* The loop condition; leaving the loop drops the shared lock.
LoopTest(m) ==
  /\ Goto(m, "loop", IF current = lastJob[m] THEN "hash" ELSE "fetch")
  /\ UNCHANGED <<loopVars, dsVars, lastJob>>

\* One hash over the dataset memory.
HashOnce(m) ==
  /\ Goto(m, "hash", "loop")
  /\ UNCHANGED <<loopVars, dsVars, lastJob>>
------------------------------------------------------------------------------
\* executor::run pushes the idle job before it creates the miners.
Init ==
  /\ jobs = <<IdleJob>>
  /\ loopPc = "wait"
  /\ todo = InvalidId
  /\ seed = InvalidId
  /\ loaded = [d \in Datasets |-> InvalidId]
  /\ ready = [d \in Datasets |-> InvalidId]
  /\ content = [d \in Datasets |-> InvalidId]
  /\ waiting = [d \in Datasets |-> [a \in Args |-> 0]]
  /\ holder = [d \in Datasets |-> Free]
  /\ minerPc = [m \in Miners |-> "fetch"]
  /\ lastJob = [m \in Miners |-> 0]

LoopStep  == StoreSeed \/ AdjustToBlock \/ PublishJob
CalcStep(d) == (\E a \in Args : BeginCalculation(d, a)) \/ FinishCalculation(d)
MinerStep(m) ==
  \/ FetchJob(m) \/ LeaveIdle(m) \/ CheckReady(m) \/ RecheckJob(m)
  \/ LockShared(m) \/ LoopTest(m) \/ HashOnce(m)

Next ==
  \/ \E j \in PoolJobs : NewJob(j)
  \/ PoolDisconnect
  \/ LoopStep
  \/ \E d \in Datasets : CalcStep(d)
  \/ \E m \in Miners : MinerStep(m)

Spec == Init /\ [][Next]_vars

\* Threads that can run do run; nothing is assumed of the pool.  A waiting
\* calculation thread gets the mutex once it stays free.
Fairness ==
  /\ WF_vars(LoopStep)
  /\ \A d \in Datasets : WF_vars(CalcStep(d))
  /\ \A m \in Miners : WF_vars(MinerStep(m))

FairSpec == Spec /\ Fairness
------------------------------------------------------------------------------
\* Every variable keeps its type; jobs stays within its bound and a miner's
\* last_job points at a node that was pushed.
TypeOK ==
  /\ jobs \in Seq(MinerJobs)
  /\ current \in 1..MaxJobs
  /\ loopPc \in {"wait", "seed", "block", "publish"}
  /\ todo \in PoolJobs \cup {InvalidId}
  /\ seed \in Seeds \cup {InvalidId}
  /\ loaded \in [Datasets -> Ids \cup {InvalidId}]
  /\ ready \in [Datasets -> Ids \cup {InvalidId}]
  /\ content \in [Datasets -> Ids \cup {InvalidId, Torn}]
  /\ waiting \in [Datasets -> [Args -> Nat]]
  /\ holder \in [Datasets -> Args \cup {Free}]
  /\ minerPc \in [Miners -> {"fetch", "idle", "check", "recheck", "lock", "loop", "hash"}]
  /\ lastJob \in [Miners -> 0..current]

\* A miner hashing the job that is current, with no newer job being taken in,
\* hashes over the dataset that job asked for (rx_miner.cpp, pp_miner.cpp: the
\* ready check and the shared lock together must ensure it).  Holds when
\* calculations do not overlap.
WorksOnRightDataset ==
  \A m \in Miners :
    minerPc[m] = "hash" /\ lastJob[m] = current /\ loopPc = "wait"
      => content[MinerPow[m]] = MyJob(m).id

ReadyIsTrue(d) == holder[d] = Free /\ ready[d] # InvalidId => content[d] = ready[d]

\* Whenever the mutex can be taken, the identifier in ready_id is the one the
\* memory was computed for: what "Dataset ready <id>" tells the user.
ReadyNamesContent == \A d \in Datasets : ReadyIsTrue(d)

\* The same for the ProgPow dataset alone, whose calculation is handed its epoch
\* by value: it survives overlapping calculations.
EpochReadyNamesContent == ReadyIsTrue("progpow")

\* The same for the RandomX dataset alone, whose calculation reads its seed from the
\* dataset object, where that read was not torn: "Dataset ready <id>" names the seed
\* of the memory, not one that came while it was calculated.
SeedReadyNamesContent == content["randomx"] # Torn => ReadyIsTrue("randomx")

\* A dataset that is wanted but not ready is being calculated, so that "Mining
\* will resume soon": otherwise loaded_id blocks any further calculation and a
\* miner in dataset_check_loop waits for nothing.
UnreadyIsInCalculation ==
  loopPc = "wait" => \A d \in Datasets : ready[d] # loaded[d] => ~Quiet(d)

\* No calculation starts, and no dataset changes, under a miner that is inside its
\* hashing loop: the exclusive lock of the calculation waits for the shared ones,
\* and the shared lock for the exclusive one.
DatasetStable ==
  [][\A m \in Miners : minerPc[m] \in {"loop", "hash"}
       => /\ holder[MinerPow[m]] = Free
          /\ minerPc'[m] \in {"loop", "hash"} => holder'[MinerPow[m]] = Free
          /\ content'[MinerPow[m]] = content[MinerPow[m]]]_vars

\* A published job is hashed by the miner of its type unless it is superseded
\* (the first job is the idle one).
MiningStarts ==
  \A m \in Miners, n \in 2..MaxJobs :
    (current = n /\ jobs[current].type = MinerPow[m])
      ~> (current # n \/ (minerPc[m] = "hash" /\ lastJob[m] = n))

\* A miner lets go of a superseded job wherever it is: hashing, waiting for a
\* dataset, waiting for the lock or idle.
OutdatedJobAbandoned ==
  \A m \in Miners : lastJob[m] # current ~> minerPc[m] = "fetch"
=============================================================================
