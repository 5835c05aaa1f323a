------------------------------- MODULE Shares -------------------------------
(* The way of a share: a miner draws nonces from the counter in the pool's  *)
(* my_job, queues the results it finds for the loop thread, which submits   *)
(* them to the pool and counts the answers.  The connection is reduced to   *)
(* the callbacks that touch my_job, the counters or the calls; its own      *)
(* logic is in PoolConnection, the choice of a dataset in Mining.           *)
EXTENDS Naturals, Sequences, FiniteSetsExt

CONSTANTS
  Miners,     \* thd_id and miner_result::miner_id
  NoMiner,    \* whom a cuckoo or an idle job is for
  Targets,    \* the values of pool_job::target
  MaxDiff,    \* 0xffffffff, what a target of 0 counts as
  NonceMod,   \* 2^32, where a nonce wraps
  Chunk,      \* nonce_chunk, 16384 in the source
  MaxJobs,    \* bound on the job messages of the pool
  MaxDraws,   \* bound on the chunks drawn from the counter between its resets
  MaxShares   \* bound on the shares found and not dropped

ASSUME SharesAssumption ==
  /\ NoMiner \notin Miners
  /\ Targets \subseteq Nat \ {0} /\ MaxDiff \in Nat
  /\ Chunk \in Nat \ {0} /\ NonceMod \in Nat \ {0} /\ NonceMod % Chunk = 0
  /\ MaxJobs \in Nat /\ MaxDraws \in Nat /\ MaxShares \in Nat

VARIABLES
  conn,      \* the connection: down, up, or being shut down
  hasJob,    \* pool::state is has_job
  myJob,     \* pool::my_job: which message it is from, its target and its pow
  draws,     \* my_job.nonce, counted in chunks since its reset
  stage,     \* what the loop thread is in the middle of
  draining,  \* the miner whose result_q it drains
  current,   \* executor::current_job
  calls,     \* every share submitted, and what has become of its call
  accepted,  \* pool_ctr.accepted_shares_cnt
  rejected,  \* pool_ctr.rejected_shares_cnt
  total,     \* pool_ctr.total_diff
  pc,        \* for each miner, what it does next
  job,       \* ... last_job and current_job
  nonce,     \* ... *nonce_ptr or nonce_ctr
  round,     \* ... how often the counter had gone round when it gave that nonce
  resultQ,   \* ... result_q
  async      \* ... is its uv_async_t signalled?

poolVars  == <<conn, hasJob, myJob>>
loopVars  == <<stage, draining>>
counters  == <<accepted, rejected, total>>
minerVars == <<pc, job, nonce, round>>
vars == <<conn, hasJob, myJob, draws, stage, draining, current, calls, accepted, rejected,
          total, pc, job, nonce, round, resultQ, async>>

Nonces   == 0..(NonceMod - 1)
Workers  == Miners \cup {NoMiner}
Jobs     == [id : 0..MaxJobs, target : Targets \cup {0}, worker : Workers]
IdleJob  == [id |-> 0, target |-> 0, worker |-> NoMiner]
Results  == [job : 0..MaxJobs, nonce : Nonces, miner : Miners,
             target : Targets \cup {0}, round : 0..MaxDraws]

\* Mutant of Counter: it is wider than a nonce.
CounterUnwrapped == draws * Chunk

\* my_job.nonce.
Counter == (draws * Chunk) % NonceMod

\* How often it has gone round since its reset.
Round   == (draws * Chunk) \div NonceMod

\* What a share of that target counts for.
Diff(target) == IF target > 0 THEN MaxDiff \div target ELSE MaxDiff

\* The shares found that were not dropped.
SharesFound == Len(calls) + MapThenSumSet(LAMBDA m : Len(resultQ[m]), Miners)
------------------------------------------------------------------------------
(* A miner thread. *)

\* thread_main takes the current job; the loop for it starts its own nonce at 0.
PickUp(m) ==
  /\ pc[m] = "idle"
  /\ current.worker = m
  /\ job' = [job EXCEPT ![m] = current]
  /\ nonce' = [nonce EXCEPT ![m] = 0]
  /\ pc' = [pc EXCEPT ![m] = "check"]
  /\ UNCHANGED <<poolVars, draws, loopVars, current, calls, counters, round, resultQ, async>>

\* The loop goes on for as long as its job is the current one.
CheckJob(m) ==
  /\ pc[m] = "check"
  /\ current = job[m]
  /\ pc' = [pc EXCEPT ![m] = "hash"]
  /\ UNCHANGED <<poolVars, draws, loopVars, current, calls, counters, job, nonce, round, resultQ,
                 async>>

\* Otherwise it ends, and with it what it knew of the job.
LeaveJob(m) ==
  /\ pc[m] = "check"
  /\ current # job[m]
  /\ job' = [job EXCEPT ![m] = IdleJob]
  /\ nonce' = [nonce EXCEPT ![m] = 0]
  /\ round' = [round EXCEPT ![m] = 0]
  /\ pc' = [pc EXCEPT ![m] = "idle"]
  /\ UNCHANGED <<poolVars, draws, loopVars, current, calls, counters, resultQ, async>>

\* Mutant of DrawNonce: the nonce after the one just hashed decides.
DrawWholeChunk(m) ==
  IF (nonce[m] + 1) % Chunk = 0
    THEN /\ draws < MaxDraws
         /\ nonce' = [nonce EXCEPT ![m] = Counter]
         /\ round' = [round EXCEPT ![m] = Round]
         /\ draws' = draws + 1
    ELSE /\ nonce' = [nonce EXCEPT ![m] = (@ + 1) % NonceMod]
         /\ UNCHANGED <<round, draws>>

\* The next nonce: from the shared counter, or the one after the last.
DrawNonce(m) ==
  IF nonce[m] % Chunk = 0
    THEN /\ draws < MaxDraws
         /\ nonce' = [nonce EXCEPT ![m] = Counter]
         /\ round' = [round EXCEPT ![m] = Round]
         /\ draws' = draws + 1
    ELSE /\ nonce' = [nonce EXCEPT ![m] = (@ + 1) % NonceMod]
         /\ UNCHANGED <<round, draws>>

Result(m) == [job |-> job[m].id, nonce |-> nonce'[m], miner |-> m,
              target |-> job[m].target, round |-> round'[m]]

\* The body of the loop over the nonces: a result goes into the queue, under queue_mtx ...
Hash(m) ==
  /\ pc[m] = "hash"
  /\ DrawNonce(m)
  /\ \/ /\ pc' = [pc EXCEPT ![m] = "check"]
        /\ UNCHANGED resultQ
     \/ /\ SharesFound < MaxShares
        /\ resultQ' = [resultQ EXCEPT ![m] = Append(@, Result(m))]
        /\ pc' = [pc EXCEPT ![m] = "signal"]
  /\ UNCHANGED <<poolVars, loopVars, current, calls, counters, job, async>>

\* ... and the loop thread is told, which is the same as telling it twice.
Signal(m) ==
  /\ pc[m] = "signal"
  /\ async' = [async EXCEPT ![m] = TRUE]
  /\ pc' = [pc EXCEPT ![m] = "check"]
  /\ UNCHANGED <<poolVars, draws, loopVars, current, calls, counters, job, nonce, round, resultQ>>
------------------------------------------------------------------------------
(* The loop thread: results. *)

\* libuv clears the signal before it calls back.
OnAsync(m) ==
  /\ stage = "ready"
  /\ async[m]
  /\ async' = [async EXCEPT ![m] = FALSE]
  /\ stage' = "draining"
  /\ draining' = m
  /\ UNCHANGED <<poolVars, draws, current, calls, counters, minerVars, resultQ>>

\* The calls after do_send_result, which drops a result unless the pool has a job.
\* late tells the shares of a job that a job message has come after.
Submit(r) ==
  IF hasJob
    THEN Append(calls, [share |-> r, state |-> "open", late |-> r.job # myJob.id])
    ELSE calls

\* Mutant of SendResult: the callback takes one result and returns.
SendOneResult ==
  /\ stage = "draining"
  /\ resultQ[draining] # <<>>
  /\ resultQ' = [resultQ EXCEPT ![draining] = Tail(@)]
  /\ calls' = Submit(Head(resultQ[draining]))
  /\ stage' = "ready"
  /\ draining' = NoMiner
  /\ UNCHANGED <<poolVars, draws, current, counters, minerVars, async>>

\* Mutant of SendResult: the newest result is taken first.
SendNewest ==
  /\ stage = "draining"
  /\ resultQ[draining] # <<>>
  /\ resultQ' = [resultQ EXCEPT ![draining] = SubSeq(@, 1, Len(@) - 1)]
  /\ calls' = Submit(resultQ[draining][Len(resultQ[draining])])
  /\ UNCHANGED <<poolVars, draws, loopVars, current, counters, minerVars, async>>

\* One result leaves the queue for do_send_result.
SendResult ==
  /\ stage = "draining"
  /\ resultQ[draining] # <<>>
  /\ resultQ' = [resultQ EXCEPT ![draining] = Tail(@)]
  /\ calls' = Submit(Head(resultQ[draining]))
  /\ UNCHANGED <<poolVars, draws, loopVars, current, counters, minerVars, async>>

EndDrain ==
  /\ stage = "draining"
  /\ resultQ[draining] = <<>>
  /\ stage' = "ready"
  /\ draining' = NoMiner
  /\ UNCHANGED <<poolVars, draws, current, calls, counters, minerVars, resultQ, async>>

\* The pool answers submission i: executor::on_result_reply, with the target
\* of my_job as it is now.
OnResultReply(i, ok) ==
  /\ stage = "ready"
  /\ conn # "down"
  /\ calls[i].state = "open"
  /\ calls' = [calls EXCEPT ![i].state = "closed"]
  /\ IF ok
       THEN accepted' = accepted + 1 /\ total' = total + Diff(myJob.target) /\ UNCHANGED rejected
       ELSE rejected' = rejected + 1 /\ UNCHANGED <<accepted, total>>
  /\ UNCHANGED <<poolVars, draws, loopVars, current, minerVars, resultQ, async>>
------------------------------------------------------------------------------
(* The loop thread: jobs.  The miners run on between the steps. *)

\* process_pool_job up to my_job.reset, which resets the counter the miners of
\* the job before still draw from.
ReceiveJob ==
  /\ stage = "ready"
  /\ conn # "down"
  /\ myJob.id < MaxJobs
  /\ myJob' = [myJob EXCEPT !.id = @ + 1]
  /\ draws' = 0
  /\ stage' = "parsing"
  /\ UNCHANGED <<conn, hasJob, draining, current, calls, counters, minerVars, resultQ, async>>

\* A field is refused: the connection is shut down, with what was parsed in my_job.
RefuseJob ==
  /\ stage = "parsing"
  /\ \E t \in {myJob.target} \cup Targets \cup {0} : myJob' = [myJob EXCEPT !.target = t]
  /\ conn' = "shutting"
  /\ stage' = "ready"
  /\ UNCHANGED <<hasJob, draws, draining, current, calls, counters, minerVars, resultQ, async>>

\* All fields are good; the counter is reset for the new job.
AcceptJob ==
  /\ stage = "parsing"
  /\ \E t \in Targets, w \in Workers : myJob' = [myJob EXCEPT !.target = t, !.worker = w]
  /\ hasJob' = TRUE
  /\ draws' = 0
  /\ stage' = "publishing"
  /\ UNCHANGED <<conn, draining, current, calls, counters, minerVars, resultQ, async>>

\* on_pool_new_job stores current_job.
PublishJob ==
  /\ stage = "publishing"
  /\ current' = myJob
  /\ stage' = "ready"
  /\ UNCHANGED <<poolVars, draws, draining, calls, counters, minerVars, resultQ, async>>
------------------------------------------------------------------------------
(* The loop thread: the connection. *)

OnConnect ==
  /\ stage = "ready"
  /\ conn = "down"
  /\ conn' = "up"
  /\ UNCHANGED <<hasJob, myJob, draws, loopVars, current, calls, counters, minerVars, resultQ,
                 async>>

\* The stream ends, or a message other than a job is refused.
OnShutdown ==
  /\ stage = "ready"
  /\ conn = "up"
  /\ conn' = "shutting"
  /\ UNCHANGED <<hasJob, myJob, draws, loopVars, current, calls, counters, minerVars, resultQ,
                 async>>

\* Mutant of OnError: the pool keeps its state.
ErrorKeepingState ==
  /\ stage = "ready"
  /\ conn' = "shutting"
  /\ draws' = 0
  /\ UNCHANGED <<hasJob, myJob, loopVars, current, calls, counters, minerVars, resultQ, async>>

\* Mutant of OnError: the target is reset with the rest of my_job.
ErrorResettingTarget ==
  /\ stage = "ready"
  /\ conn' = "shutting"
  /\ hasJob' = FALSE
  /\ draws' = 0
  /\ myJob' = [myJob EXCEPT !.target = 0]
  /\ UNCHANGED <<loopVars, current, calls, counters, minerVars, resultQ, async>>

\* net_on_error, of a connection or of an attempt at one, resets the counter under the
\* miners' hands.
OnError ==
  /\ stage = "ready"
  /\ conn' = "shutting"
  /\ hasJob' = FALSE
  /\ draws' = 0
  /\ UNCHANGED <<myJob, loopVars, current, calls, counters, minerVars, resultQ, async>>

\* Mutant of OnClose: the pool keeps its state.
CloseKeepingState ==
  /\ stage = "ready"
  /\ conn = "shutting"
  /\ conn' = "down"
  /\ draws' = 0
  /\ calls' = [i \in DOMAIN calls |-> [calls[i] EXCEPT !.state = "closed"]]
  /\ IF current.id = 0
       THEN UNCHANGED <<current, counters>>
       ELSE current' = IdleJob /\ accepted' = 0 /\ rejected' = 0 /\ total' = 0
  /\ UNCHANGED <<hasJob, myJob, loopVars, minerVars, resultQ, async>>

\* net_on_close and on_pool_disconnect, which idles the miners and ends the session.
OnClose ==
  /\ stage = "ready"
  /\ conn = "shutting"
  /\ conn' = "down"
  /\ hasJob' = FALSE
  /\ draws' = 0
  /\ calls' = [i \in DOMAIN calls |-> [calls[i] EXCEPT !.state = "closed"]]
  /\ IF current.id = 0
       THEN UNCHANGED <<current, counters>>
       ELSE current' = IdleJob /\ accepted' = 0 /\ rejected' = 0 /\ total' = 0
  /\ UNCHANGED <<myJob, loopVars, minerVars, resultQ, async>>
------------------------------------------------------------------------------
Init ==
  /\ conn = "down" /\ hasJob = FALSE
  /\ myJob = IdleJob /\ draws = 0
  /\ stage = "ready" /\ draining = NoMiner
  /\ current = IdleJob
  /\ calls = <<>>
  /\ accepted = 0 /\ rejected = 0 /\ total = 0
  /\ pc = [m \in Miners |-> "idle"]
  /\ job = [m \in Miners |-> IdleJob]
  /\ nonce = [m \in Miners |-> 0]
  /\ round = [m \in Miners |-> 0]
  /\ resultQ = [m \in Miners |-> <<>>]
  /\ async = [m \in Miners |-> FALSE]

MinerStep(m) == \/ PickUp(m) \/ CheckJob(m) \/ LeaveJob(m)
                \/ Hash(m) \/ Signal(m)
DrainStep    == SendResult \/ EndDrain
JobStep      == RefuseJob \/ AcceptJob \/ PublishJob
ConnStep     == ReceiveJob \/ OnConnect \/ OnShutdown \/ OnError \/ OnClose

Next ==
  \/ \E m \in Miners : MinerStep(m) \/ OnAsync(m)
  \/ \E i \in DOMAIN calls, ok \in BOOLEAN : OnResultReply(i, ok)
  \/ DrainStep \/ JobStep \/ ConnStep

Spec == Init /\ [][Next]_vars

\* Threads run; libuv serves every handle that is signalled before it looks for
\* other events again, so that no handle is passed over for ever.
Fairness ==
  /\ \A m \in Miners : WF_vars(Signal(m)) /\ SF_vars(OnAsync(m))
  /\ WF_vars(DrainStep)
  /\ WF_vars(JobStep)

FairSpec == Spec /\ Fairness
------------------------------------------------------------------------------
\* Every variable keeps its type.
TypeOK ==
  /\ conn \in {"down", "up", "shutting"} /\ hasJob \in BOOLEAN
  /\ myJob \in Jobs /\ draws \in 0..MaxDraws
  /\ stage \in {"ready", "parsing", "publishing", "draining"}
  /\ draining \in Workers /\ (draining \in Miners <=> stage = "draining")
  /\ current \in Jobs
  /\ calls \in Seq([share : Results, late : BOOLEAN,
                    state : {"open", "closed"}])
  /\ accepted \in Nat /\ rejected \in Nat /\ total \in Nat
  /\ pc \in [Miners -> {"idle", "check", "hash", "signal"}]
  /\ job \in [Miners -> Jobs]
  /\ nonce \in [Miners -> Nonces] /\ round \in [Miners -> 0..MaxDraws]
  /\ resultQ \in [Miners -> Seq(Results)] /\ async \in [Miners -> BOOLEAN]

\* No share is submitted twice, although the counter is reset under the miners
\* when a job is received and when the connection fails: a repeated share is one
\* of a job that a job message has come after, even a refused one, or the counter
\* has gone round.
SubmittedOnce ==
  \A i, j \in DOMAIN calls :
    /\ i < j
    /\ calls[i].share.job = calls[j].share.job
    /\ calls[i].share.nonce = calls[j].share.nonce
    => calls[j].late \/ calls[j].share.round > 0

\* A result in a queue is one the loop thread is told of, is about to be told of or
\* is fetching: uv_async_send may be merged, and the queue may grow while it is
\* drained, but no result waits for the next one to be found.
NoneLeftBehind ==
  \A m \in Miners : resultQ[m] # <<>> => async[m] \/ draining = m \/ pc[m] = "signal"

\* Only the first nonce of a chunk is ever hashed, since it is the nonce just hashed
\* that decides whether to draw; a job's nonces repeat after NonceMod / Chunk.
OnlyChunkStarts == \A m \in Miners : nonce[m] % Chunk = 0

\* The answer to submission i is counted at the target it was found for.
CreditedRight(i) ==
  calls[i].state # calls'[i].state /\ accepted' > accepted =>
    total' = total + Diff(calls[i].share.target)

\* A share is credited at the target it was found for as long as no job message has
\* come in between, whatever errors have.  After one it is credited at the target
\* of that job (pool.cpp:192).
CreditedUntilReplaced ==
  [][\A i \in DOMAIN calls : calls[i].share.job = myJob.id => CreditedRight(i)]_vars

\* The queues and their signals deliver what Delivery promises.
Delivered == INSTANCE Delivery WITH Producers <- Miners, Items <- Results, waiting <- resultQ

\* Every result found is handed to the executor, once and in order.
DeliversAll == Delivered!FairSpec

AsSession ==
  INSTANCE Session WITH link <- conn, ready <- hasJob, busy <- current.id # 0

\* The connection of this module, with the steps of job messages between its own, keeps
\* to the session that PoolConnection keeps to as well (PoolConnection!IsSession).
IsSession == AsSession!Spec
=============================================================================
