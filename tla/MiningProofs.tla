---------------------------- MODULE MiningProofs ----------------------------
(* Safety of the mining pipeline, for every number of miners, seeds, epochs *)
(* and jobs.                                                                *)
EXTENDS Mining, TLAPS

\* The whole of on_pool_new_job works on one pool_job and leaves room for it.
CallInProgress == loopPc # "wait" => todo \in PoolJobs /\ current < MaxJobs

TypeInv == TypeOK /\ CallInProgress

\* InvalidId, Torn and Free are told apart from identifiers by name only.
LEMMA MinerJobTyped ==
  ASSUME NEW j \in PoolJobs
  PROVE  MinerJob(j) \in MinerJobs
BY DEF MinerJob, MinerJobs, PoolJobs, PowTypes, Datasets, Ids

\* Starting a thread keeps the counters of waiting threads well typed.
LEMMA SpawnTyped ==
  ASSUME NEW w \in [Datasets -> [Args -> Nat]], NEW d \in Datasets, NEW a \in Args
  PROVE  Spawn(w, d, a) \in [Datasets -> [Args -> Nat]]
BY DEF Spawn

\* The initial state is well typed.
LEMMA TypeInit == Init => TypeInv
<1> SUFFICES ASSUME Init PROVE TypeInv
  OBVIOUS
<1> USE ConstantsAssumption
<1>1. IdleJob \in MinerJobs
  BY DEF IdleJob, MinerJobs, PowTypes, Datasets, Ids
<1>2. jobs \in Seq(MinerJobs) /\ current \in 1..MaxJobs
  BY <1>1 DEF Init, current
<1>3. waiting \in [Datasets -> [Args -> Nat]] /\ holder \in [Datasets -> Args \cup {Free}]
  BY DEF Init
<1>4. minerPc \in [Miners -> {"fetch", "idle", "check", "recheck", "lock", "loop", "hash"}]
  BY DEF Init
<1>5. lastJob \in [Miners -> 0..current]
  BY <1>2 DEF Init, current
<1>6. QED
  BY <1>2, <1>3, <1>4, <1>5 DEF Init, TypeInv, TypeOK, CallInProgress, Ids

\* A step of a mining thread moves only its own program counter and last_job.
LEMMA MinerStepFrame ==
  ASSUME NEW m \in Miners, MinerStep(m)
  PROVE  UNCHANGED <<loopVars, dsVars>>
BY DEF MinerStep, FetchJob, LeaveIdle, CheckReady, RecheckJob, LockShared, LoopTest, HashOnce

\* Every step keeps the types.
LEMMA TypeNext == TypeInv /\ [Next]_vars => TypeInv'
<1> SUFFICES ASSUME TypeInv, [Next]_vars PROVE TypeInv'
  OBVIOUS
<1> USE DEF TypeInv, TypeOK, CallInProgress
<1>0. "randomx" \in Datasets /\ "progpow" \in Datasets /\ InvalidId \in Args /\ Epochs \subseteq Args
  BY DEF Datasets, Args
<1>1. ASSUME NEW j \in PoolJobs, NewJob(j) PROVE TypeInv'
  BY <1>1 DEF NewJob, current, minerVars, PoolJobs, Ids, Datasets
<1>2. CASE StoreSeed
  <2>1. waiting' \in [Datasets -> [Args -> Nat]]
    BY <1>0, <1>2, SpawnTyped DEF StoreSeed
  <2>2. QED
    BY <1>2, <2>1 DEF StoreSeed, current, minerVars, PoolJobs
<1>3. CASE AdjustToBlock
  <2>1. todo.epoch \in Epochs
    BY <1>3 DEF AdjustToBlock, PoolJobs
  <2>2. waiting' \in [Datasets -> [Args -> Nat]]
    <3>1. Spawn(waiting, "progpow", todo.epoch) \in [Datasets -> [Args -> Nat]]
      BY <1>0, <2>1, SpawnTyped
    <3>2. QED
      BY <1>3, <3>1 DEF AdjustToBlock
  <2>3. QED
    BY <1>3, <2>1, <2>2 DEF AdjustToBlock, current, minerVars, Ids, Datasets
<1>4. CASE PublishJob
  <2>1. MinerJob(todo) \in MinerJobs
    BY <1>4, MinerJobTyped DEF PublishJob
  <2>2. jobs' \in Seq(MinerJobs) /\ current' = current + 1
    BY <1>4, <2>1 DEF PublishJob, current
  <2>3. QED
    BY <1>4, <2>2, ConstantsAssumption DEF PublishJob, dsVars, minerVars, current
<1>5. CASE PoolDisconnect
  <2>1. IdleJob \in MinerJobs
    BY DEF IdleJob, MinerJobs, PowTypes, Datasets, Ids
  <2>2. jobs' \in Seq(MinerJobs) /\ current' = current + 1
    BY <1>5, <2>1 DEF PoolDisconnect, current
  <2>3. QED
    BY <1>5, <2>2, ConstantsAssumption DEF PoolDisconnect, dsVars, minerVars, current
<1>6. ASSUME NEW d \in Datasets, NEW a \in Args, BeginCalculation(d, a) PROVE TypeInv'
  <2>1. waiting' \in [Datasets -> [Args -> Nat]]
    BY <1>6 DEF BeginCalculation
  <2>2. content' \in [Datasets -> Ids \cup {InvalidId, Torn}]
    BY <1>6 DEF BeginCalculation, SeedRead, Ids, Args
  <2>3. QED
    BY <1>6, <2>1, <2>2 DEF BeginCalculation, loopVars, minerVars, current
<1>7. ASSUME NEW d \in Datasets, FinishCalculation(d) PROVE TypeInv'
  <2>1. ready' \in [Datasets -> Ids \cup {InvalidId}]
    BY <1>7 DEF FinishCalculation, Ids, Args
  <2>2. QED
    BY <1>7, <2>1 DEF FinishCalculation, loopVars, minerVars, current
<1>8. ASSUME NEW m \in Miners, MinerStep(m) PROVE TypeInv'
  <2>1. UNCHANGED <<loopVars, dsVars>>
    BY <1>8, MinerStepFrame
  <2>2. minerPc' \in [Miners -> {"fetch", "idle", "check", "recheck", "lock", "loop", "hash"}]
    BY <1>8 DEF MinerStep, FetchJob, LeaveIdle, CheckReady, RecheckJob, LockShared, LoopTest,
              HashOnce, Goto
  <2>3. lastJob' \in [Miners -> 0..current]
    BY <1>8 DEF MinerStep, FetchJob, LeaveIdle, CheckReady, RecheckJob, LockShared, LoopTest,
              HashOnce, current
  <2>4. QED
    BY <2>1, <2>2, <2>3 DEF loopVars, dsVars, current
<1>9. CASE UNCHANGED vars
  BY <1>9 DEF vars, current
<1>10. QED
  BY <1>1, <1>2, <1>3, <1>4, <1>5, <1>6, <1>7, <1>8, <1>9 DEF Next, LoopStep, CalcStep

\* Every variable keeps its type, whatever the pool does.
THEOREM TypeCorrect == Spec => []TypeOK
<1>1. TypeInv => TypeOK
  BY DEF TypeInv
<1>2. QED
  BY <1>1, TypeInit, TypeNext, PTL DEF Spec
------------------------------------------------------------------------------
\* The epoch a calculation thread was handed is what it computes and announces.
EpochInv ==
  /\ holder["progpow"] # Free => content["progpow"] = holder["progpow"]
  /\ EpochReadyNamesContent

LEMMA EpochNext == TypeOK /\ EpochInv /\ [Next]_vars => EpochInv'
<1> SUFFICES ASSUME TypeOK, EpochInv, [Next]_vars PROVE EpochInv'
  OBVIOUS
<1> USE DEF EpochInv, EpochReadyNamesContent, ReadyIsTrue
<1>0. "randomx" \in Datasets /\ "progpow" \in Datasets /\ "randomx" # "progpow"
  BY DEF Datasets
<1>1. ASSUME NEW j \in PoolJobs, NewJob(j) PROVE EpochInv'
  BY <1>0, <1>1 DEF NewJob, TypeOK
<1>2. CASE StoreSeed
  BY <1>2 DEF StoreSeed
<1>3. CASE AdjustToBlock
  BY <1>0, <1>3 DEF AdjustToBlock, TypeOK
<1>4. CASE PublishJob \/ PoolDisconnect
  BY <1>4 DEF PublishJob, PoolDisconnect, dsVars
<1>5. ASSUME NEW d \in Datasets, NEW a \in Args, BeginCalculation(d, a) PROVE EpochInv'
  <2>1. d = "progpow" => holder'["progpow"] = a /\ content'["progpow"] = a /\ a # Free
    BY <1>0, <1>5, ConstantsAssumption DEF BeginCalculation, TypeOK, Args, Ids
  <2>2. d # "progpow" => /\ holder'["progpow"] = holder["progpow"]
                         /\ content'["progpow"] = content["progpow"]
    BY <1>5 DEF BeginCalculation, TypeOK
  <2>3. ready' = ready
    BY <1>5 DEF BeginCalculation
  <2>4. QED
    BY <2>1, <2>2, <2>3
<1>6. ASSUME NEW d \in Datasets, FinishCalculation(d) PROVE EpochInv'
  BY <1>0, <1>6 DEF FinishCalculation, TypeOK
<1>7. ASSUME NEW m \in Miners, MinerStep(m) PROVE EpochInv'
  BY <1>7, MinerStepFrame DEF dsVars
<1>8. CASE UNCHANGED vars
  BY <1>8 DEF vars
<1>9. QED
  BY <1>1, <1>2, <1>3, <1>4, <1>5, <1>6, <1>7, <1>8 DEF Next, LoopStep, CalcStep

\* However calculations overlap, the epoch announced as ready is the epoch the
\* ProgPow memory was computed for.
THEOREM EpochReadyIsTrue == Spec => []EpochReadyNamesContent
<1>1. Init => EpochInv
  BY DEF Init, EpochInv, EpochReadyNamesContent, ReadyIsTrue, Datasets
<1>2. EpochInv => EpochReadyNamesContent
  BY DEF EpochInv
<1>3. QED
  BY <1>1, <1>2, EpochNext, TypeCorrect, PTL DEF Spec
------------------------------------------------------------------------------
\* The readers-writer lock: while a calculation holds it, nobody hashes.
LockInv == \A m \in Miners : minerPc[m] \in {"loop", "hash"} => holder[MinerPow[m]] = Free

LEMMA LockNext == TypeOK /\ LockInv /\ [Next]_vars => LockInv'
<1> SUFFICES ASSUME TypeOK, LockInv, [Next]_vars PROVE LockInv'
  OBVIOUS
<1> USE DEF LockInv
<1>1. ASSUME UNCHANGED <<minerPc, holder>> PROVE LockInv'
  BY <1>1
<1>2. ASSUME NEW d \in Datasets, NEW a \in Args, BeginCalculation(d, a) PROVE LockInv'
  <2>1. \A m \in Miners : MinerPow[m] = d => minerPc[m] \notin {"loop", "hash"}
    BY <1>2 DEF BeginCalculation, Readers
  <2>2. \A e \in Datasets : e # d => holder'[e] = holder[e]
    BY <1>2 DEF BeginCalculation, TypeOK
  <2>3. QED
    BY <1>2, <2>1, <2>2, ConstantsAssumption DEF BeginCalculation, minerVars
<1>3. ASSUME NEW d \in Datasets, FinishCalculation(d) PROVE LockInv'
  BY <1>3, ConstantsAssumption DEF FinishCalculation, minerVars, TypeOK
<1>4. ASSUME NEW m \in Miners, MinerStep(m) PROVE LockInv'
  <2>1. holder' = holder
    BY <1>4, MinerStepFrame DEF dsVars
  <2>2. \A n \in Miners : n # m => minerPc'[n] = minerPc[n]
    BY <1>4 DEF MinerStep, FetchJob, LeaveIdle, CheckReady, RecheckJob, LockShared, LoopTest,
              HashOnce, Goto, TypeOK
  <2>3. minerPc'[m] \in {"loop", "hash"} => holder[MinerPow[m]] = Free
    BY <1>4 DEF MinerStep, FetchJob, LeaveIdle, CheckReady, RecheckJob, LockShared, LoopTest,
              HashOnce, Goto, TypeOK
  <2>4. QED
    BY <2>1, <2>2, <2>3
<1>5. QED
  BY <1>1, <1>2, <1>3, <1>4
     DEF Next, LoopStep, CalcStep, NewJob, StoreSeed, AdjustToBlock, PublishJob, PoolDisconnect,
         dsVars, minerVars, vars

\* No step starts a calculation or changes a dataset under a hashing miner.
THEOREM DatasetsAreStable == Spec => DatasetStable
<1> DEFINE Stable ==
      \A m \in Miners : minerPc[m] \in {"loop", "hash"}
        => /\ holder[MinerPow[m]] = Free
           /\ minerPc'[m] \in {"loop", "hash"} => holder'[MinerPow[m]] = Free
           /\ content'[MinerPow[m]] = content[MinerPow[m]]
<1>1. Init => LockInv
  BY DEF Init, LockInv
<1>2. TypeOK /\ LockInv /\ LockInv' /\ [Next]_vars => [Stable]_vars
  <2> SUFFICES ASSUME TypeOK, LockInv, LockInv', Next,
                      NEW m \in Miners, minerPc[m] \in {"loop", "hash"}
               PROVE  content'[MinerPow[m]] = content[MinerPow[m]]
    BY DEF LockInv
  <2>1. ASSUME NEW d \in Datasets, NEW a \in Args, BeginCalculation(d, a)
        PROVE  content'[MinerPow[m]] = content[MinerPow[m]]
    BY <2>1, ConstantsAssumption DEF BeginCalculation, Readers, TypeOK
  <2>2. ASSUME NEW n \in Miners, MinerStep(n) PROVE content' = content
    BY <2>2, MinerStepFrame DEF dsVars
  <2>3. QED
    BY <2>1, <2>2 DEF Next, LoopStep, CalcStep, NewJob, StoreSeed, AdjustToBlock, PublishJob,
                      PoolDisconnect, FinishCalculation, dsVars
<1>3. QED
  BY <1>1, <1>2, LockNext, TypeCorrect, PTL DEF Spec, DatasetStable
------------------------------------------------------------------------------
\* What a calculation thread of d that is still needed has been handed.
Wanted(d) == IF d = "randomx" THEN InvalidId ELSE loaded[d]

\* At most one calculation per dataset is under way, for the identifier loaded.
OneCalculation ==
  \A d \in Datasets :
    /\ \A a \in Args : waiting[d][a] > 0 => waiting[d][a] = 1 /\ a = Wanted(d)
    /\ holder[d] # Free => /\ holder[d] = Wanted(d)
                           /\ \A a \in Args : waiting[d][a] = 0
                           /\ content[d] = loaded[d]

\* rx_dataset::seed is stable while a thread may read it.
SeedIsLoaded ==
  IF loopPc = "seed"
    THEN /\ Quiet("randomx") /\ ready["randomx"] = InvalidId
         /\ loaded["randomx"] = todo.seed
    ELSE seed = loaded["randomx"]

\* An announced dataset is the one loaded, and no thread is about to change it;
\* one that is not announced is on its way.
ReadyIsLoaded ==
  \A d \in Datasets :
    /\ ready[d] # InvalidId => ready[d] = loaded[d] /\ content[d] = loaded[d] /\ Quiet(d)
    /\ ready[d] # loaded[d] => ~Quiet(d) \/ (d = "randomx" /\ loopPc = "seed")

\* Between two calls of on_pool_new_job the datasets are those of the current job.
CurrentIsLoaded ==
  loopPc = "wait" /\ jobs[current].type \in Datasets
    => loaded[jobs[current].type] = jobs[current].id

\* How far on_pool_new_job has adjusted the datasets to its job.
Adjusted ==
  /\ loopPc \in {"block", "publish"} => loaded["randomx"] = todo.seed
  /\ loopPc = "publish" => loaded["progpow"] = todo.epoch
  /\ loopPc \in {"seed", "block"} /\ loaded["progpow"] # todo.epoch => Quiet("progpow")
  /\ CurrentIsLoaded

\* What a mining thread knows of its job once dataset_check_loop has passed it.
MinersChecked ==
  /\ \A n \in 1..current : jobs[n].type \in Datasets => jobs[n].id \in Ids
  /\ \A m \in Miners :
       /\ minerPc[m] \in {"check", "recheck", "lock", "loop", "hash"}
            => lastJob[m] > 0 /\ MyJob(m).type = MinerPow[m]
       /\ minerPc[m] \in {"lock", "loop", "hash"} /\ lastJob[m] = current /\ loopPc = "wait"
            => ready[MinerPow[m]] = MyJob(m).id

SettledInv ==
  OneCalculation /\ SeedIsLoaded /\ ReadyIsLoaded /\ Adjusted /\ MinersChecked

LEMMA OneCalculationNext ==
  ASSUME TypeInv, SettledInv, Next, ~Overlap
  PROVE  OneCalculation'
<1> USE DEF TypeInv, TypeOK, OneCalculation, Wanted, Quiet
<1>0. "randomx" \in Datasets /\ "progpow" \in Datasets /\ "randomx" # "progpow"
  BY DEF Datasets
<1>1. ASSUME NEW j \in PoolJobs, NewJob(j) PROVE OneCalculation'
  <2>1. loaded'["progpow"] = loaded["progpow"]
    BY <1>0, <1>1 DEF NewJob
  <2>2. loaded'["randomx"] # loaded["randomx"] => Quiet("randomx")
    BY <1>0, <1>1 DEF NewJob
  <2>3. \A d \in Datasets : loaded'[d] # loaded[d] => holder[d] = Free
    BY <2>1, <2>2 DEF Datasets
  <2>4. UNCHANGED <<waiting, holder, content>>
    BY <1>1 DEF NewJob
  <2>5. QED
    BY <2>1, <2>3, <2>4 DEF SettledInv, Datasets
<1>2. CASE StoreSeed
  <2>1. Quiet("randomx")
    BY <1>2 DEF StoreSeed, SettledInv, SeedIsLoaded
  <2>2. \A a \in Args : waiting'["randomx"][a] = IF a = InvalidId THEN 1 ELSE 0
    BY <1>0, <1>2, <2>1 DEF StoreSeed, Spawn, Args
  <2>3. waiting'["progpow"] = waiting["progpow"]
    BY <1>0, <1>2 DEF StoreSeed, Spawn
  <2>4. UNCHANGED <<loaded, holder, content>>
    BY <1>2 DEF StoreSeed
  <2>5. QED
    BY <2>1, <2>2, <2>3, <2>4 DEF SettledInv, Datasets
<1>3. CASE AdjustToBlock
  <2>1. CASE loaded["progpow"] = todo.epoch
    BY <1>3, <2>1 DEF AdjustToBlock, SettledInv
  <2>2. CASE loaded["progpow"] # todo.epoch
    <3>1. Quiet("progpow")
      BY <1>3, <2>2 DEF AdjustToBlock, SettledInv, Adjusted
    <3>2. todo.epoch \in Args
      BY <1>3 DEF AdjustToBlock, CallInProgress, PoolJobs, Args
    <3>3. \A a \in Args : waiting'["progpow"][a] = IF a = todo.epoch THEN 1 ELSE 0
      BY <1>0, <1>3, <2>2, <3>1, <3>2 DEF AdjustToBlock, Spawn
    <3>4. waiting'["randomx"] = waiting["randomx"] /\ loaded'["randomx"] = loaded["randomx"]
      BY <1>0, <1>3, <2>2 DEF AdjustToBlock, Spawn
    <3>5. loaded'["progpow"] = todo.epoch
      BY <1>0, <1>3, <2>2 DEF AdjustToBlock
    <3>6. UNCHANGED <<holder, content>>
      BY <1>3 DEF AdjustToBlock
    <3>7. QED
      BY <3>1, <3>3, <3>4, <3>5, <3>6 DEF SettledInv, Datasets
  <2>3. QED
    BY <2>1, <2>2
<1>4. CASE PublishJob \/ PoolDisconnect
  BY <1>4 DEF PublishJob, PoolDisconnect, dsVars, SettledInv
<1>5. ASSUME NEW d \in Datasets, NEW a \in Args, BeginCalculation(d, a) PROVE OneCalculation'
  <2>1. waiting[d][a] = 1 /\ a = Wanted(d)
    BY <1>5 DEF BeginCalculation, SettledInv
  <2>2. \A b \in Args : waiting'[d][b] = 0
    BY <1>5, <2>1 DEF BeginCalculation, SettledInv
  <2>3. d = "randomx" => loopPc # "seed"
    BY <1>5, <2>1 DEF SettledInv, SeedIsLoaded
  <2>4. content'[d] = loaded[d]
    <3>1. CASE d = "randomx"
      BY <1>5, <2>3, <3>1 DEF BeginCalculation, SeedRead, SettledInv, SeedIsLoaded
    <3>2. CASE d # "randomx"
      BY <1>5, <2>1, <3>2 DEF BeginCalculation, Datasets
    <3>3. QED
      BY <3>1, <3>2
  <2>5. holder'[d] = a /\ loaded' = loaded
    BY <1>5 DEF BeginCalculation
  <2>6. \A e \in Datasets : e # d => /\ waiting'[e] = waiting[e] /\ holder'[e] = holder[e]
                                     /\ content'[e] = content[e]
    BY <1>5 DEF BeginCalculation
  <2>7. QED
    BY <2>1, <2>2, <2>4, <2>5, <2>6 DEF SettledInv
<1>6. ASSUME NEW d \in Datasets, FinishCalculation(d) PROVE OneCalculation'
  BY <1>6 DEF FinishCalculation, SettledInv
<1>7. ASSUME NEW m \in Miners, MinerStep(m) PROVE OneCalculation'
  BY <1>7, MinerStepFrame DEF dsVars, SettledInv
<1>8. QED
  BY <1>1, <1>2, <1>3, <1>4, <1>5, <1>6, <1>7 DEF Next, LoopStep, CalcStep

LEMMA SeedIsLoadedNext ==
  ASSUME TypeInv, SettledInv, Next, ~Overlap
  PROVE  SeedIsLoaded'
<1> USE DEF TypeInv, TypeOK, SeedIsLoaded, Quiet
<1>0. "randomx" \in Datasets /\ "progpow" \in Datasets /\ "randomx" # "progpow"
  BY DEF Datasets
<1>1. ASSUME NEW j \in PoolJobs, NewJob(j) PROVE SeedIsLoaded'
  BY <1>0, <1>1 DEF NewJob, SettledInv
<1>2. CASE StoreSeed
  BY <1>0, <1>2 DEF StoreSeed, SettledInv
<1>3. CASE AdjustToBlock
  BY <1>0, <1>3 DEF AdjustToBlock, SettledInv
<1>4. CASE PublishJob \/ PoolDisconnect
  BY <1>4 DEF PublishJob, PoolDisconnect, dsVars, SettledInv
<1>5. ASSUME NEW d \in Datasets, NEW a \in Args, BeginCalculation(d, a) PROVE SeedIsLoaded'
  <2>1. CASE d = "randomx"
    <3>1. loopPc # "seed"
      BY <1>5, <2>1 DEF BeginCalculation, SettledInv
    <3>2. QED
      BY <1>5, <3>1 DEF BeginCalculation, loopVars, SettledInv
  <2>2. CASE d # "randomx"
    BY <1>5, <2>2 DEF BeginCalculation, loopVars, SettledInv
  <2>3. QED
    BY <2>1, <2>2
<1>6. ASSUME NEW d \in Datasets, FinishCalculation(d) PROVE SeedIsLoaded'
  BY <1>0, <1>6 DEF FinishCalculation, loopVars, SettledInv
<1>7. ASSUME NEW m \in Miners, MinerStep(m) PROVE SeedIsLoaded'
  BY <1>7, MinerStepFrame DEF dsVars, loopVars, SettledInv
<1>8. QED
  BY <1>1, <1>2, <1>3, <1>4, <1>5, <1>6, <1>7 DEF Next, LoopStep, CalcStep

LEMMA ReadyIsLoadedNext ==
  ASSUME TypeInv, SettledInv, Next, ~Overlap
  PROVE  ReadyIsLoaded'
<1> USE DEF TypeInv, TypeOK, ReadyIsLoaded, Quiet
<1>0. "randomx" \in Datasets /\ "progpow" \in Datasets /\ "randomx" # "progpow"
  BY DEF Datasets
<1>1. ASSUME NEW j \in PoolJobs, NewJob(j) PROVE ReadyIsLoaded'
  <2>1. CASE loaded["randomx"] = j.seed
    BY <1>1, <2>1 DEF NewJob, SettledInv
  <2>2. CASE loaded["randomx"] # j.seed
    <3>1. ready'["randomx"] = InvalidId /\ loopPc' = "seed"
      BY <1>0, <1>1, <2>2 DEF NewJob
    <3>2. ready'["progpow"] = ready["progpow"] /\ loaded'["progpow"] = loaded["progpow"]
      BY <1>0, <1>1, <2>2 DEF NewJob
    <3>3. UNCHANGED <<waiting, holder, content>>
      BY <1>1 DEF NewJob
    <3>4. QED
      BY <3>1, <3>2, <3>3 DEF SettledInv, Datasets
  <2>3. QED
    BY <2>1, <2>2
<1>2. CASE StoreSeed
  <2>1. ready["randomx"] = InvalidId
    BY <1>2 DEF StoreSeed, SettledInv, SeedIsLoaded
  <2>2. InvalidId \in Args /\ waiting'["randomx"][InvalidId] # 0
    BY <1>0, <1>2 DEF StoreSeed, Spawn, Args
  <2>3. waiting'["progpow"] = waiting["progpow"]
    BY <1>0, <1>2 DEF StoreSeed, Spawn
  <2>4. UNCHANGED <<ready, loaded, holder, content>>
    BY <1>2 DEF StoreSeed
  <2>5. QED
    BY <2>1, <2>2, <2>3, <2>4 DEF SettledInv, Datasets
<1>3. CASE AdjustToBlock
  <2>1. CASE loaded["progpow"] = todo.epoch
    BY <1>3, <2>1 DEF AdjustToBlock, SettledInv
  <2>2. CASE loaded["progpow"] # todo.epoch
    <3>1. todo.epoch \in Args
      BY <1>3 DEF AdjustToBlock, CallInProgress, PoolJobs, Args
    <3>2. ready'["progpow"] = InvalidId /\ waiting'["progpow"][todo.epoch] # 0
      BY <1>0, <1>3, <2>2, <3>1 DEF AdjustToBlock, Spawn
    <3>3. /\ ready'["randomx"] = ready["randomx"] /\ loaded'["randomx"] = loaded["randomx"]
          /\ waiting'["randomx"] = waiting["randomx"]
      BY <1>0, <1>3, <2>2 DEF AdjustToBlock, Spawn
    <3>4. UNCHANGED <<holder, content>> /\ loopPc # "seed" /\ loopPc' # "seed"
      BY <1>3 DEF AdjustToBlock
    <3>5. QED
      BY <3>1, <3>2, <3>3, <3>4 DEF SettledInv, Datasets
  <2>3. QED
    BY <2>1, <2>2
<1>4. CASE PublishJob \/ PoolDisconnect
  BY <1>4 DEF PublishJob, PoolDisconnect, dsVars, SettledInv
<1>5. ASSUME NEW d \in Datasets, NEW a \in Args, BeginCalculation(d, a) PROVE ReadyIsLoaded'
  <2>1. ~Quiet(d)
    BY <1>5 DEF BeginCalculation
  <2>2. ready[d] = InvalidId /\ holder'[d] # Free
    BY <1>5, <2>1, ConstantsAssumption DEF BeginCalculation, SettledInv, Args, Ids
  <2>3. \A e \in Datasets : e # d => /\ waiting'[e] = waiting[e] /\ holder'[e] = holder[e]
                                     /\ content'[e] = content[e]
    BY <1>5 DEF BeginCalculation
  <2>4. UNCHANGED <<ready, loaded, loopPc>>
    BY <1>5 DEF BeginCalculation, loopVars
  <2>5. ReadyIsLoaded
    BY DEF SettledInv
  <2>6. ~Quiet(d)'
    BY <2>2
  <2>7. \A e \in Datasets : e # d => (Quiet(e) <=> Quiet(e)')
    BY <2>3
  <2>8. QED
    BY <2>2, <2>3, <2>4, <2>5, <2>6, <2>7
<1>6. ASSUME NEW d \in Datasets, FinishCalculation(d) PROVE ReadyIsLoaded'
  <2>1. /\ holder[d] = Wanted(d) /\ content[d] = loaded[d]
        /\ \A a \in Args : waiting[d][a] = 0
    BY <1>6 DEF FinishCalculation, SettledInv, OneCalculation
  <2>2. ready'[d] = loaded[d]
    <3>1. CASE d = "randomx"
      BY <1>6, <3>1 DEF FinishCalculation, SettledInv, SeedIsLoaded
    <3>2. CASE d # "randomx"
      BY <1>6, <2>1, <3>2 DEF FinishCalculation, Wanted
    <3>3. QED
      BY <3>1, <3>2
  <2>3. holder'[d] = Free /\ UNCHANGED <<waiting, content, loaded, loopPc>>
    BY <1>6 DEF FinishCalculation, loopVars
  <2>4. \A e \in Datasets : e # d => ready'[e] = ready[e] /\ holder'[e] = holder[e]
    BY <1>6 DEF FinishCalculation
  <2>5. QED
    BY <2>1, <2>2, <2>3, <2>4 DEF SettledInv
<1>7. ASSUME NEW m \in Miners, MinerStep(m) PROVE ReadyIsLoaded'
  BY <1>7, MinerStepFrame DEF dsVars, loopVars, SettledInv
<1>8. QED
  BY <1>1, <1>2, <1>3, <1>4, <1>5, <1>6, <1>7 DEF Next, LoopStep, CalcStep

LEMMA AdjustedNext ==
  ASSUME TypeInv, SettledInv, Next, ~Overlap
  PROVE  Adjusted'
<1> USE DEF TypeInv, TypeOK, Adjusted, Quiet, CurrentIsLoaded, current
<1>0. "randomx" \in Datasets /\ "progpow" \in Datasets /\ "randomx" # "progpow"
  BY DEF Datasets
<1>1. ASSUME NEW j \in PoolJobs, NewJob(j) PROVE Adjusted'
  BY <1>0, <1>1 DEF NewJob, SettledInv
<1>2. CASE StoreSeed
  <2>1. waiting'["progpow"] = waiting["progpow"]
    BY <1>0, <1>2 DEF StoreSeed, Spawn
  <2>2. QED
    BY <1>2, <2>1 DEF StoreSeed, SettledInv, SeedIsLoaded
<1>3. CASE AdjustToBlock
  BY <1>0, <1>3 DEF AdjustToBlock, SettledInv
<1>4. CASE PublishJob
  <2>1. jobs'[current'] = MinerJob(todo)
    BY <1>4 DEF PublishJob
  <2>2. loaded["randomx"] = todo.seed /\ loaded["progpow"] = todo.epoch
    BY <1>4 DEF PublishJob, SettledInv
  <2>3. MinerJob(todo).type \in Datasets => loaded[MinerJob(todo).type] = MinerJob(todo).id
    BY <1>0, <2>2 DEF MinerJob, Datasets
  <2>4. QED
    BY <1>4, <2>1, <2>3 DEF PublishJob, dsVars
<1>5. CASE PoolDisconnect
  <2>1. jobs'[current'] = IdleJob
    BY <1>5 DEF PoolDisconnect
  <2>2. QED
    BY <1>5, <2>1 DEF PoolDisconnect, dsVars, IdleJob, Datasets
<1>6. ASSUME NEW d \in Datasets, NEW a \in Args, BeginCalculation(d, a) PROVE Adjusted'
  <2>1. UNCHANGED <<loaded, jobs, loopPc, todo>>
    BY <1>6 DEF BeginCalculation, loopVars
  <2>2. Quiet("progpow") => Quiet("progpow")'
    BY <1>0, <1>6 DEF BeginCalculation
  <2>3. QED
    BY <2>1, <2>2 DEF SettledInv
<1>7. ASSUME NEW d \in Datasets, FinishCalculation(d) PROVE Adjusted'
  <2>1. UNCHANGED <<loaded, jobs, loopPc, todo>>
    BY <1>7 DEF FinishCalculation, loopVars
  <2>2. Quiet("progpow") => Quiet("progpow")'
    BY <1>0, <1>7 DEF FinishCalculation
  <2>3. QED
    BY <2>1, <2>2 DEF SettledInv
<1>8. ASSUME NEW m \in Miners, MinerStep(m) PROVE Adjusted'
  BY <1>8, MinerStepFrame DEF dsVars, loopVars, SettledInv
<1>9. QED
  BY <1>1, <1>2, <1>3, <1>4, <1>5, <1>6, <1>7, <1>8 DEF Next, LoopStep, CalcStep

\* A published job never changes, and a new one is typed like the others.
LEMMA JobsGrow ==
  ASSUME TypeInv, MinersChecked, PublishJob \/ PoolDisconnect
  PROVE  /\ current' = current + 1
         /\ \A n \in 1..current : jobs'[n] = jobs[n]
         /\ \A n \in 1..current' : jobs'[n].type \in Datasets => jobs'[n].id \in Ids
<1> USE DEF TypeInv, TypeOK, current
<1>1. PICK j \in MinerJobs : jobs' = Append(jobs, j) /\ (j.type \in Datasets => j.id \in Ids)
  <2>1. CASE PublishJob
    <3>1. todo \in PoolJobs
      BY <2>1 DEF PublishJob, CallInProgress
    <3>2. MinerJob(todo).type \in Datasets => MinerJob(todo).id \in Ids
      BY <3>1 DEF MinerJob, PoolJobs, Datasets, Ids
    <3>3. QED
      BY <2>1, <3>1, <3>2, MinerJobTyped DEF PublishJob
  <2>2. CASE PoolDisconnect
    <3>1. IdleJob \in MinerJobs /\ IdleJob.type \notin Datasets
      BY DEF IdleJob, MinerJobs, PowTypes, Datasets, Ids
    <3>2. QED
      BY <2>2, <3>1 DEF PoolDisconnect
  <2>3. QED
    BY <2>1, <2>2
<1>2. current' = current + 1 /\ jobs'[current + 1] = j /\ \A n \in 1..current : jobs'[n] = jobs[n]
  BY <1>1
<1>3. QED
  BY <1>1, <1>2 DEF MinersChecked

LEMMA MinersCheckedNext ==
  ASSUME TypeInv, SettledInv, Next, ~Overlap
  PROVE  MinersChecked'
<1> USE DEF TypeInv, TypeOK, MinersChecked, MyJob
<1>0. "randomx" \in Datasets /\ "progpow" \in Datasets /\ "randomx" # "progpow"
  BY DEF Datasets
<1>a. MinersChecked /\ current \in Nat
  BY DEF SettledInv, current
<1>1. ASSUME NEW j \in PoolJobs, NewJob(j) PROVE MinersChecked'
  BY <1>a, <1>1 DEF NewJob, minerVars, current
<1>2. CASE StoreSeed \/ AdjustToBlock
  BY <1>a, <1>2 DEF StoreSeed, AdjustToBlock, minerVars, current
<1>3. CASE PublishJob \/ PoolDisconnect
  <2>1. /\ current' = current + 1
        /\ \A n \in 1..current : jobs'[n] = jobs[n]
        /\ \A n \in 1..current' : jobs'[n].type \in Datasets => jobs'[n].id \in Ids
    BY <1>a, <1>3, JobsGrow
  <2>2. UNCHANGED <<minerPc, lastJob>>
    BY <1>3 DEF PublishJob, PoolDisconnect, minerVars
  <2>3. \A m \in Miners : lastJob[m] \in 0..current /\ lastJob'[m] # current'
    BY <1>a, <2>1, <2>2
  <2>4. ASSUME NEW m \in Miners, minerPc[m] \in {"check", "recheck", "lock", "loop", "hash"}
        PROVE  lastJob'[m] > 0 /\ MyJob(m)'.type = MinerPow[m]
    <3>1. lastJob[m] > 0 /\ jobs[lastJob[m]].type = MinerPow[m]
      BY <1>a, <2>4
    <3>2. lastJob[m] \in 1..current
      BY <1>a, <2>3, <3>1
    <3>3. QED
      BY <2>1, <2>2, <3>1, <3>2
  <2>5. QED
    BY <2>1, <2>2, <2>3, <2>4
<1>4. ASSUME NEW d \in Datasets, NEW a \in Args, BeginCalculation(d, a) PROVE MinersChecked'
  BY <1>a, <1>4 DEF BeginCalculation, loopVars, minerVars, current
<1>5. ASSUME NEW d \in Datasets, FinishCalculation(d) PROVE MinersChecked'
  <2>1. ready[d] = InvalidId
    BY <1>5 DEF FinishCalculation, SettledInv, ReadyIsLoaded, Quiet
  <2>2. ASSUME NEW m \in Miners, minerPc[m] \in {"lock", "loop", "hash"}, lastJob[m] = current,
               loopPc = "wait"
        PROVE  MinerPow[m] # d
    <3>1. lastJob[m] \in 1..current /\ MyJob(m).type = MinerPow[m] /\ ready[MinerPow[m]] = MyJob(m).id
      BY <1>a, <2>2
    <3>2. MyJob(m).id \in Ids
      BY <1>a, <3>1, ConstantsAssumption
    <3>3. QED
      BY <2>1, <3>1, <3>2, ConstantsAssumption
  <2>3. \A e \in Datasets : e # d => ready'[e] = ready[e]
    BY <1>5 DEF FinishCalculation
  <2>4. UNCHANGED <<jobs, loopPc, minerPc, lastJob>>
    BY <1>5 DEF FinishCalculation, loopVars, minerVars
  <2>5. QED
    BY <1>a, <2>2, <2>3, <2>4, ConstantsAssumption DEF current
<1>6. ASSUME NEW m \in Miners, MinerStep(m) PROVE MinersChecked'
  <2>1. UNCHANGED <<jobs, loopPc, ready>>
    BY <1>6, MinerStepFrame DEF loopVars, dsVars
  <2>2. \A n \in Miners : n # m => minerPc'[n] = minerPc[n] /\ lastJob'[n] = lastJob[n]
    BY <1>6 DEF MinerStep, FetchJob, LeaveIdle, CheckReady, RecheckJob, LockShared, LoopTest,
              HashOnce, Goto
  <2>3. CASE FetchJob(m)
    <3>1. lastJob'[m] = current /\ current > 0
      BY <2>3 DEF FetchJob
    <3>2. minerPc'[m] \in {"check", "idle"} /\ (minerPc'[m] = "check" => jobs[current].type = MinerPow[m])
      BY <2>3 DEF FetchJob, Goto
    <3>3. QED
      BY <1>a, <2>1, <2>2, <3>1, <3>2 DEF current
  <2>4. CASE ~FetchJob(m)
    <3>1. lastJob' = lastJob
      BY <1>6, <2>4 DEF MinerStep, LeaveIdle, CheckReady, RecheckJob, LockShared, LoopTest, HashOnce
    <3>2. /\ minerPc'[m] \in {"check", "recheck", "lock", "loop", "hash"}
               => minerPc[m] \in {"check", "recheck", "lock", "loop", "hash"}
          /\ minerPc'[m] \in {"lock", "loop", "hash"}
               => minerPc[m] \in {"lock", "loop", "hash"} \/ ready[MinerPow[m]] = MyJob(m).id
      BY <1>6, <2>4 DEF MinerStep, LeaveIdle, CheckReady, RecheckJob, LockShared, LoopTest,
                        HashOnce, Goto
    <3>3. QED
      BY <1>a, <2>1, <2>2, <3>1, <3>2 DEF current
  <2>5. QED
    BY <2>3, <2>4
<1>7. QED
  BY <1>1, <1>2, <1>3, <1>4, <1>5, <1>6 DEF Next, LoopStep, CalcStep

LEMMA SettledInit == Init => SettledInv
<1> SUFFICES ASSUME Init PROVE SettledInv
  OBVIOUS
<1> USE DEF Init
<1>1. OneCalculation /\ SeedIsLoaded /\ ReadyIsLoaded
  BY DEF OneCalculation, SeedIsLoaded, ReadyIsLoaded, Quiet, Datasets
<1>2. Adjusted
  BY DEF Adjusted, CurrentIsLoaded, IdleJob, current, Datasets
<1>3. MinersChecked
  BY DEF MinersChecked, IdleJob, current, Datasets
<1>4. QED
  BY <1>1, <1>2, <1>3 DEF SettledInv

LEMMA SettledNext == ~Overlap /\ TypeInv /\ SettledInv /\ [Next]_vars => SettledInv'
<1>1. ASSUME ~Overlap, TypeInv, SettledInv, Next PROVE SettledInv'
  BY <1>1, OneCalculationNext, SeedIsLoadedNext, ReadyIsLoadedNext, AdjustedNext,
     MinersCheckedNext DEF SettledInv
<1>2. ASSUME SettledInv, UNCHANGED vars PROVE SettledInv'
  BY <1>2 DEF vars, SettledInv, OneCalculation, SeedIsLoaded, ReadyIsLoaded, Adjusted,
              MinersChecked, CurrentIsLoaded, Wanted, Quiet, MyJob, current
<1>3. QED
  BY <1>1, <1>2

LEMMA SettledImplies ==
  ASSUME TypeInv, SettledInv
  PROVE  WorksOnRightDataset /\ ReadyNamesContent /\ UnreadyIsInCalculation
<1>1. ReadyNamesContent
  BY DEF SettledInv, ReadyIsLoaded, ReadyNamesContent, ReadyIsTrue
<1>2. UnreadyIsInCalculation
  BY DEF SettledInv, ReadyIsLoaded, UnreadyIsInCalculation
<1>3. ASSUME NEW m \in Miners, minerPc[m] = "hash", lastJob[m] = current, loopPc = "wait"
      PROVE  content[MinerPow[m]] = MyJob(m).id
  <2>1. MyJob(m).type = MinerPow[m] /\ ready[MinerPow[m]] = MyJob(m).id /\ lastJob[m] \in 1..current
    BY <1>3 DEF SettledInv, MinersChecked, TypeInv, TypeOK
  <2>2. MyJob(m).id \in Ids /\ MyJob(m).id # InvalidId
    BY <2>1, ConstantsAssumption DEF SettledInv, MinersChecked, MyJob
  <2>3. QED
    BY <2>1, <2>2, ConstantsAssumption DEF SettledInv, ReadyIsLoaded
<1>4. QED
  BY <1>1, <1>2, <1>3 DEF WorksOnRightDataset

LEMMA SettledAlways == ASSUME ~Overlap PROVE Spec => [](TypeInv /\ SettledInv)
<1>1. Init => TypeInv /\ SettledInv
  BY TypeInit, SettledInit
<1>2. TypeInv /\ SettledInv /\ [Next]_vars => (TypeInv /\ SettledInv)'
  BY TypeNext, SettledNext
<1>3. QED
  BY <1>1, <1>2, PTL DEF Spec

\* If the pool leaves every calculation the time to finish, a miner that hashes the
\* current job hashes over the dataset that job asked for,
THEOREM RightDataset == ~Overlap => (Spec => []WorksOnRightDataset)
<1> SUFFICES ASSUME ~Overlap PROVE Spec => []WorksOnRightDataset
  OBVIOUS
<1>1. TypeInv /\ SettledInv => WorksOnRightDataset
  BY SettledImplies
<1>2. Spec => [](TypeInv /\ SettledInv)
  BY SettledAlways
<1>3. QED
  BY <1>1, <1>2, PTL

\* ready_id tells the truth also of the dataset whose seed is read without a lock,
THEOREM ReadyIsTrueOfBoth == ~Overlap => (Spec => []ReadyNamesContent)
<1> SUFFICES ASSUME ~Overlap PROVE Spec => []ReadyNamesContent
  OBVIOUS
<1>1. TypeInv /\ SettledInv => ReadyNamesContent
  BY SettledImplies
<1>2. Spec => [](TypeInv /\ SettledInv)
  BY SettledAlways
<1>3. QED
  BY <1>1, <1>2, PTL

\* and no miner waits for a dataset that nobody is calculating.
THEOREM NothingIsAwaitedInVain == ~Overlap => (Spec => []UnreadyIsInCalculation)
<1> SUFFICES ASSUME ~Overlap PROVE Spec => []UnreadyIsInCalculation
  OBVIOUS
<1>1. TypeInv /\ SettledInv => UnreadyIsInCalculation
  BY SettledImplies
<1>2. Spec => [](TypeInv /\ SettledInv)
  BY SettledAlways
<1>3. QED
  BY <1>1, <1>2, PTL
=============================================================================
