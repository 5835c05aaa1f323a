# A TLA+ model of epic_miner

epic_miner connects to one mining pool, takes jobs from it, lets two threads
hash them (RandomX and ProgPow) and sends back what they find.  This directory
holds TLA+ modules translated from its C++ source, TLC configurations that check
them on small instances, and proofs, checked by TLAPS, that hold for every value
of the constants.

## Inventory

| Part | Source | State | Operations | Talks to |
|------|--------|-------|------------|----------|
| job publication | `executor.cpp`, `executor.hpp`, `job.hpp` | `miner_jobs`, `current_job` | `on_pool_new_job`, `on_pool_disconnect`, `push_idle_job` | called by the pool; adjusts the datasets; miners read `current_job` |
| datasets | `dataset.hpp`, `rx_dataset.*`, `pp_dataset.*` | `loaded_id`, `ready_id`, `mtx`, the seed, the memory | `adjust_to_seed`, `adjust_to_block`, detached calculation threads | asked by the loop thread, read by miners |
| mining threads | `miner.*`, `rx_miner.*`, `pp_miner.*` | `last_job`, a copy of the job, `is_hashing`, `hash_count` | `thread_main`, `dataset_check_loop`, `idle_loop`, the hashing loops | datasets, `current_job`, result queue, nonce counter |
| result queue | `miner.*` | `result_q`, `queue_mtx`, `async` | queue and signal; drain on the loop thread | miners to `on_found_result` |
| nonce allocation | `rx_miner.cpp`, `pp_miner.cpp`, `pool.cpp` | `pool_job::nonce` | `fetch_add` by miners, reset by the pool | shared by address |
| pool | `pool.*` | `state`, `call_map`, `g_call_id`, `my_job`, `last_connect_attempt` | `do_connect`, `net_on_*`, `do_send_result`, `process_*`, `check_call_timeouts` | net_interface below, executor above |
| net_interface | `net/net_interface.*` | four libuv requests, `send_bufs`, `recv_buf`, `shutting_down` | connect, read, write, shut down, close and their callbacks | libuv; calls the pool back |
| heartbeat | `executor.cpp` | - | `on_heartbeat` once a second: time calls out, reconnect | pool |
| share accounting | `executor.*`, `pool.cpp` | `pool_ctr` | `on_result_reply` | pool |
| hash log | `miner.hpp`, `misc.hpp`, `executor.hpp` | `hash_log` | `record_hashes`, `get_hashrate`, `get_hashrate_peak` | miners, reports |
| line framing | `net/net_interface.cpp`, `pool.cpp` | `recv_buf`, `recv_pos`; over TLS also `pt_buf`, `pt_pos` | `consume_loop` with `net_on_data_recv` | pool |
| TLS | `net/tls_interface.*` | `ssl`, the pair of BIOs, `handshake_complete`, `pt_buf` | handshake, `consume_ct_data`, `do_socket_write`, `do_shutdown`, close | OpenSSL; the same callbacks as net_interface.  `executor.cpp:146` asks for a plain connection, so nothing uses it yet |
| console, reports, error log | `console/*`, `executor.*` | text | printing, reading one key | - |
| configuration | `jconf*` | a parsed file | `parse_config`, which nothing calls | - |

There are three kinds of threads: the loop thread, which runs libuv and with it
the pool, the network and the executor; the two mining threads; and one detached
thread for every dataset calculation.  What they share without a lock is
`current_job`, the two identifiers of each dataset, the RandomX seed and the
nonce counter; what they share under locks is the dataset memory
(`shared_timed_mutex`) and each result queue.

The hard behaviours are the meetings of these threads, the order of libuv's
callbacks around an error, and the requests whose failure the code does not look
at.  `PROJECT.json` lists them one by one under "hazards".  What makes the parts
correct:

- *mining*: a miner hashes its job over the dataset the job wants; it starts when
  the dataset is ready and stops when the job is superseded;
- *datasets*: `ready_id` names what is in memory, nobody uses the memory while it
  is calculated, and a dataset that is wanted is on its way;
- *connection*: no request is reused while in use, a lost connection idles the
  miners and is followed by another, nothing waits for a callback that never comes;
- *calls*: an answer finds the call it answers;
- *the stream*: the messages handled are the messages sent, however they are cut or
  merged on the way; a well-behaved pool is not given up over them, and nothing that
  has come in is left lying;
- *results, nonces, shares*: nothing found is lost or sent twice, no nonce is
  tried twice for one job, a share is credited with what it was worth.

## Modules

**`Mining`** composes job publication, the two datasets and the mining threads.
A step is what one thread does between two accesses to state another thread sees.

- Loop thread.  `NewJob`, `StoreSeed`, `AdjustToBlock` and `PublishJob` are
  `on_pool_new_job`, cut where another thread can see it: the identifiers are
  written, then the seed (its store is not atomic, and while it is under way a
  read may be torn), then ProgPow is adjusted, then the job becomes current.
  `PoolDisconnect` pushes the idle job.
- Calculation threads.  `waiting` counts the threads that have not got the lock,
  by the argument they were started with; `BeginCalculation` takes the lock and
  reads the seed or the argument, `FinishCalculation` stores `ready_id` and unlocks.
  Between the two nobody can see the memory.
- Miners.  `FetchJob`, `LeaveIdle`, `CheckReady`, `RecheckJob`, `LockShared`,
  `LoopTest` and `HashOnce` follow `thread_main`, `idle_loop`,
  `dataset_check_loop` and the hashing loops.  `lastJob` is a position in `jobs`,
  because the code compares pointers to list nodes.

Seeds and epochs are opaque; a job is its type and the identifier of its dataset.
The constant `Overlap` says whether the pool may ask for another seed or epoch
before the last calculation is done.  Seeds and epochs last for hours and a
calculation for about a minute, so `FALSE` is the ordinary case; `TRUE` is a pool
that restarts, switches chains or reorganises.

**`NetInterface`** holds the libuv side of a connection: for each request whether
its data pointer is set, which is what the code's assertions are about, and whether
a callback is to come.  `failed` collects the assertions that failed; the program
has then aborted and the model stops.  libuv is external: it calls back for each
request it accepted, in any order, finishes a shutdown only after the writes, and
takes no write on a closed handle.  `Faults` names what else it and its
surroundings may do, ten things in all: refuse a request whose result the code does not
look at (`resolv_refused`, `connect_sync`, `shutdown_refused`), fail or be slow
(`dns_error`, `write_error`, `slow_dns`), be interrupted by a heartbeat (`slow_close`),
get a result at a bad moment (`late_result`, `burst`), not answer (`unanswered`).

**`PoolConnection`** puts the pool on top, with the heartbeat and the executor's
idle job.  Each action is a whole callback: `OnEof` is `on_socket_read_st` with
`on_socket_error` and `do_shutdown`, `OnClose` is `on_socket_closed` with
`net_on_close` and `on_pool_disconnect`.  Time is two facts, whether the last
attempt and whether a call is more than ten seconds old.  `asked` is the set of
requests the pool at the other end has yet to answer; it answers in any order, or
never.

**`Shares`** follows a share.  `PickUp`, `CheckJob`, `LeaveJob`, `Hash` and `Signal`
are a miner: `Hash` is the body of the loop over the nonces, with `DrawNonce` as
its choice between the shared counter and the next nonce and with the result
queued under `queue_mtx`; `Signal` is the `uv_async_send` after the unlock.
`OnAsync`, `SendResult` and `EndDrain` are the callback that drains the queue, cut
where it holds no lock; `SendResult` ends in `do_send_result`, which drops the
result unless the pool is `has_job`.  `OnResultReply` is the answer.  A job message
is cut where a miner can see it: `ReceiveJob` up to `my_job.reset()`, then
`RefuseJob`, or `AcceptJob` and `PublishJob`.  `OnError` and `OnClose` reset `my_job`
as well.  The counter is kept in chunks since its reset (`draws`), so that
`SubmittedOnce` can tell a nonce drawn twice from one that came round after the
wrap.  Call slots and send buffers are left to `PoolConnection`, datasets to
`Mining`: here a miner whose job needs a dataset simply takes its time.

**`Delivery`** is what the queues and their signals promise: results reach the
executor one by one, in the order they were found, and none is left behind.
`Shares` implements it with `resultQ` as the results waiting (`DeliversAll`).

**`Session`** is what the rest of the program sees of a connection: jobs come only
while there is one, an error stops the results at once, and the miners are idled by
the close and by nothing else.  `PoolConnection` keeps to it up to the first failed
assertion, and the connection of `Shares`, which is otherwise a free-running
environment of the share pipeline, keeps to it too (`IsSession` in both).  That ties
the two modules to one abstraction.  It is not a proof that `Shares` meets every
order of events `PoolConnection` can produce.

**`LineBuffer`** is `consume_loop` over `net_on_data_recv`: `Consume` takes a buffer and
returns what is left of it, the message handled and the verdict.  Data is a sequence
of units, each a part of a message, the last the one with the newline.  Everything up
to the *last* newline is parsed as one line, in place; a line that is not accepted
stays in the buffer, spoilt.

**`Streams`** puts this on a connection, plain or over TLS (`tls`), for connection after
connection.  `ReadSome` is one read of any length; a plain buffer is consumed in the
same step.  Over TLS the loop runs record by record: while `looping` only the actions
of `Consuming` are enabled, one for each outcome of `consume_ct_data`, since the loop is
part of one callback.  `recv` and `pt` are `recv_buf` and `pt_buf` up to their positions,
`bio` is what OpenSSL was given and has not been read out of it.  What the methods do to
the rest of the connection is operators on the record `link` (`Send`, `DoShutdown`,
`NotifyError`, `Write`, `LogIn`), which the actions compose in the order of the calls,
nested errors included; `failed` is what the program comes to grief over.  Results are
found whenever the pool is `has_job`, as in `do_send_result`, also while the link shuts
down and when one send buffer or none is left.  Whether libuv takes a write on a handle it
was asked to shut down depends on its version, which is `strict`; the buffer of a write it
refuses stays in use (`held`) until the close.  Two variables remember for the properties
what happened on the connection: `rude`, whether the pool sent a message before the last
was handled, or one longer than the buffers; and `slips`, whether results came during a
shutdown or took the last buffer.  The pool and OpenSSL are external.  A record is complete
or not there, and OpenSSL refuses one that was repeated.  Attempts that fail before the
socket is connected, other faults of libuv, and the `r_send` a refused write leaves behind
for the next connection (`late_result`), are in `PoolConnection` and not repeated here.
A message is more than an empty object: of `{}`, when it is refused, parsing spoils
nothing, and it would be handled and refused once more if something came after it.

**`HashLog`** is the log of one miner. `RecordHashes` is `record_hashes`, at whatever
moments heartbeats, jobs and disconnections call it; `ToggleHashing` and `Tick` are the
miner. `Hashrate` and `Peak` are `get_hashrate` and `get_hashrate_peak`, with what their
loops have come to after n rounds as recursive functions (`Total`, `PeakLoop`), their
unsigned differences modulo `Word` and their rates as fractions. `history` keeps every
record for the properties to compare with.

**`MCMining`** gives the miners their proofs of work for TLC; the other
configurations check their modules directly.

**`MiningProofs`**, **`PoolConnectionProofs`**, **`SharesProofs`**, **`HashLogProofs`** and
**`StreamsProofs`** hold the theorems, one module for each state machine.  Two modules hold
lemmas only: **`NumberFacts`** what they share about sets of numbers, remainders and
induction, and **`StreamFlow`** what happens to the data of `Streams` when it is cut, joined,
spoilt and consumed, before any step of `Streams` comes into it.

Definitions introduced as *mutants* are defective variants of the definition
after them; they show that a property notices the defect and are used by nothing
else.

## Runs

| Run | Checks | Shows |
|-----|--------|-------|
| `mining_settled` | `TypeOK`, `WorksOnRightDataset`, `ReadyNamesContent`, `UnreadyIsInCalculation`, `MiningStarts`, `OutdatedJobAbandoned` | mining is right and gets on as long as calculations do not overlap |
| `mining_overlap` | `EpochReadyNamesContent`, `DatasetStable` | what holds even if they do |
| `mining_seed_race` | `SeedReadyNamesContent` | violated: a seed stored during a calculation is announced over the memory of the one before |
| `mining_lost_wait` | `UnreadyIsInCalculation` | violated: two calculation threads in the wrong order leave a miner waiting for good |
| `shares` | `TypeOK`, `SubmittedOnce`, `NoneLeftBehind`, `OnlyChunkStarts`, `CreditedUntilReplaced`, `IsSession` | no share is submitted twice although the counter is reset under the miners, no result waits for the next one, credit is right until the next job message, the connection keeps to `Session` |
| `shares_delivery` | `DeliversAll` | `Shares` implements `Delivery` |
| `hash_log` | `TypeOK`, `RateIsMeasured`, `PeakNotTooHigh` | the rates read from the wrapping log are those of the time the miner hashed |
| `pool_orderly` | `TypeOK`, `NoAssertFails`, `RepliesFindTheirCall`, `NoLimbo`, `LossIdlesMiners` | with a slow resolver and a libuv that may refuse to resolve or connect, but no other fault, no assertion fails, answers find their calls, a pool without a job gets on unless it was refused, and a lost connection idles the miners |
| `pool_faulty` | `LiveStateHasSocket`, `ConnectingHasRequest`, `OneShutdown`, `IsSession` | what holds, up to the abort, under all ten faults; the connection implements `Session` |
| `pool_slow_close` | `SocketIsFree` | violated: reconnecting before the close is done |
| `pool_write_error` | `SendRequestIsFree` | violated: the request of a failed write is never cleared |
| `streams` | `TypeOK`, `HandledInOrder`, `PoliteIsUnderstood`, `NoLineWaits`, `LinkHolds`, `GetsThrough`, `GivenUpIsClosed` | what is handled is what was sent, in order; only a hasty or wordy pool is taken for a faulty one; nothing waits outside OpenSSL; writes return, find a buffer, and a link given up is closed, except after results that come too late or too fast |

The violated properties are the program's own assertions and messages;
`PROJECT.json` quotes them under "findings".  Each of the two in `PoolConnection` takes
one fault, `slow_close` or `write_error`.  The other faults have no run of their own and end
as follows.  With `dns_error` the shutdown of a handle that was never initialised is refused
(or, in a libuv built with its assertions, aborts) and `shutting_down` stays set; when the
next attempt fails too its socket is not closed, and the one after it fails the assertion of
`SocketIsFree`.  With `slow_dns` besides `slow_close`, what is left of an old connection
idles the pool during an attempt (`pool.cpp:309`, `316`), and the next heartbeat resolves
the address again over a request in use (`net_interface.cpp:59`); `slow_dns` alone does
no harm.  With `burst` a
result is found while every send buffer is in use: `do_send_result` formats it into the
null pointer of `get_send_buffer` (`pool.cpp:86-87`), although `do_socket_write` knows
better (`net_interface.cpp:198`); the model stops there.  With `late_result` libuv refuses
the write, which leaves `r_send.data` set as a failed one does.  With `shutdown_refused`
the socket is never closed: the miners go on, and the next connection is opened over it.
With `resolv_refused` or `connect_sync` the pool stays `connecting` for good and nothing
worse happens.  With `unanswered` the slots run out, and a call is sent under whatever
`call_id` happens to be.

`NoAssertFails` and `RepliesFindTheirCall` state these limits: each names, as `Aborting` and
`Misleading`, the faults it does without. The sets are not larger than they must be. With
any one fault of `Aborting` alone some assertion fails, with any one of `Misleading` alone
an answer finds another call or none; TLC has shown it of each. What the two properties say
is that the others, in any combination, do no such harm: `pool_orderly` checks it of the
three faults that are in neither set, the theorems prove it of all. In the same way
`LiveStateHasSocket` and `ConnectingHasRequest` hold under all faults and name the refused
request that is their only exception.

`SeedReadyNamesContent` is `ReadyNamesContent` for RandomX where the seed was not read in
the middle of its store.  Such a torn read is in the model too (`Torn`) and is announced in
the same way; it takes a store of 32 bytes that is interrupted, while the window of
`mining_seed_race` is the whole calculation.

Two properties of `shares` describe what the code does rather than what one would
wish.  `OnlyChunkStarts`: `fetch_add` returns a multiple of `nonce_chunk`, so the
next test draws again, and of every 16384 nonces one is tried; a job's nonces come
round after 2^18 hashes of the two miners together.  `CreditedUntilReplaced`: an
answer is counted at the target `my_job` has when it arrives (`pool.cpp:192`), which
is the share's own until a job message, accepted or refused, has come in between.

Some properties of `streams` say less than one would wish, because the code does less.
`PoliteIsUnderstood`: a pool that sends a second message before the first is handled may be
taken for one that sends garbage, since two lines that arrive together are parsed as one
(`pool.cpp:103`); a partial line is no excuse for it, nor is a message that comes in several
reads or records.  `GetsThrough`: over TLS a record may stay inside OpenSSL until something
else arrives, because `SSL_read` is called once per read (`tls_interface.cpp:206`); an
answer that came as two records in one read may so be timed out although the pool was
polite.  `NoLineWaits` says that this is the one place where a message can be left.
`LinkHolds` and `GivenUpIsClosed`: `do_socket_write` never returns once `SSL_write` fails
(`tls_interface.cpp:233-243`), as it does for a result found after `close_notify`; and a
result that takes the last send buffer leaves none for `close_notify`
(`tls_interface.cpp:172`).  Both name these as exceptions, and say that nothing else leads
there.  `GivenUpIsClosed` excepts also a shutdown during which results are found again and
again, each of them a write the shutdown waits for.

### Bounds

`mining_*`: two miners, as in the program.  Two seeds and two epochs, so that a
job can keep or change either; the idle job and two more
(`MaxJobs = 3`), so that a dataset is replaced while the one before is asked for,
calculated, ready, locked or hashed.  Three jobs of the pool (`MaxJobs = 4`), among which
one changes a seed back, have been tried with the safety properties.
`TypeOK` and the safety theorems are proved without these bounds.

`pool_orderly`: three send buffers in place of four, three call slots in place of eight, and
four calls on a connection, so that slots are used again, with two miners, so that calls
differ. The other `pool_*` runs: two buffers, two slots and two calls, so that they do run
out. The number of connections, messages and errors is not bounded. Deadlock is not checked:
the system may stop, because the program has aborted or, with a refused request, waits for
good. In the `mining_*` runs it stops when the list is full.

`shares`: two miners and one pool target, four nonces in chunks of two and three
draws, so that the counter wraps; two job messages, so that one finds the miners
at work on the other; two shares found and not dropped.  `shares_delivery` has two
nonces and one draw per reset but three shares, so that a queue grows while it is
drained.  Connections, errors and answers are not bounded.  Deadlock is not
checked: at the bounds the miners stop.

`hash_log`: a ring of three and five records, so that it wraps and an old record is
overwritten; five units of time, a peak over two of them or more and periods of one
and two.

`streams`: buffers of three units with messages of one, two and four, so that a message
can be cut, a buffer be filled exactly, and a message be longer than it; OpenSSL takes
four units, so that an unread record fills it.  Two messages, as one read or two, on one
connection or on two, with the second one in its own record, in the record of the first,
or across a cut; three messages with sizes two and four have been tried for the safety
properties and add nothing of another kind.  Four send buffers, as in the code.
Connections, errors, results and timeouts are not bounded.  Deadlock is not checked: the
program may come to grief.

### Fairness

`Mining`: weak fairness for the loop thread inside `on_pool_new_job`, for the
calculation threads of each dataset and for each miner: threads that can run do
run, and a lock that stays free is taken.  Nothing is assumed of the pool.
`MiningStarts` therefore speaks of a job that stays current.

`PoolConnection`: weak fairness for each callback libuv owes, for the heartbeat
timer and for time.  Nothing is assumed of the pool's messages or of results.

`Shares`: weak fairness for a miner that is to signal, for the drain and for the
rest of a job message, and strong fairness for each `uv_async_t`: libuv serves all
handles signalled before it looks for other events, so none is passed over for
ever although the loop thread is busy again and again.  Nothing is assumed of
miners finding results or of the pool.

`Streams`: weak fairness for reading what has arrived, for the completion of writes and
for the shutdown and the close.  A `consume_loop` is not a matter of scheduling: it is one
callback, cut into steps by the model, and is taken to reach its end (`[]<>~looping`).
Nothing is assumed of the pool, of the miners or of a timeout.

## Proofs

`MiningProofs`, from `ConstantsAssumption` (identifiers, `InvalidId`, `Torn` and
`Free` are different things and each miner has one proof of work):

- `TypeCorrect`: `Spec => []TypeOK`.  The strengthening, `CallInProgress`, says
  that `on_pool_new_job` holds a job and has room for it from start to end.
- `EpochReadyIsTrue`: the epoch in `ready_id` is the epoch in memory, for all
  overlaps.  Inductive with: the thread that holds the lock computes its argument.
- `DatasetsAreStable`: the action property `DatasetStable`, from the
  readers-writer invariant `LockInv`.
- `RightDataset`, `ReadyIsTrueOfBoth`, `NothingIsAwaitedInVain`: without overlap,
  `WorksOnRightDataset`, `ReadyNamesContent` and `UnreadyIsInCalculation`.  None is
  inductive.  `SettledInv` adds that there is at most one calculation per dataset and it
  is for `loaded_id` (`OneCalculation`); that the seed equals `loaded_id` except while it
  is being stored, when nobody is calculating (`SeedIsLoaded`); that an announced dataset
  is loaded, in memory and quiet (`ReadyIsLoaded`); how far the call in progress has
  adjusted the datasets (`Adjusted`); and what a miner past `dataset_check_loop` may rely
  on (`MinersChecked`).  The hypothesis `~Overlap` is that of the run `mining_settled`;
  the runs `mining_seed_race` and `mining_lost_wait` show that it cannot be dropped.
`PoolConnectionProofs`, from `NetAssumption` and `PoolAssumption`, for any number of
buffers, slots, calls and miners.  The first of its inductive invariants holds under every
fault; the others ask for the absence of some:

- `FaultyInv` holds whatever libuv, the resolver, the pool and the clock do, until
  an assertion fails.  It ties `conn`, `sock`, `shutting_down`, `r_shutdown` and
  `g_call_id` together: a pending connection has an open socket, a live pool or
  working miners have a socket that is read or being closed unless a shutdown was refused,
  a request or a close under way is marked, writes in progress have their buffers.  From it
  `PoolTypeCorrect`, `LiveStateIsBacked`, `ShutdownIsSingle` and `ConnectingIsBacked`.
- `ClosedInv` holds without the faults of `LeavesOpen`: an attempt starts from a clean pool
  (`AttemptIsClean`), a socket given up is being closed (`GivenUpIsClosing`), and a
  connection that is gone has left no request behind (`NothingIsOut`).
- `SendInv` adds, without those of `Aborting`, that the three records of a send agree
  (`SendsAgree`) and that no assertion has failed.  From it `GuardedNeverAborts`.
- `CallInv` adds to `ClosedInv`, without those of `Misleading`, that open calls have
  distinct ids below `g_call_id` and every open request has its call
  (`CallsAreDistinct`).  From it `RepliesMatch`.

- `ConnectionIsSession`, from `FaultyInv`: each step, up to the first failed assertion, is
  one of `Session` or a stutter.  The invariant is what says that a job or a publication
  finds a connection, and that the close finds it being shut down.

`SharesProofs`, from `SharesAssumption` (the chunk divides the range of the counter, which
bounds it), for any miners, targets, jobs and bounds, with one inductive invariant,
`SharesInv`. Its parts: `ConnOK` and `CallsOK`, the pool's side and the answers under way;
`CountersOK`, the counters; `MinersOK`, the miners and their queues, with the rounds of the
counter they have seen bounded by its draws; `SessionInv`, that jobs and a job message in
progress need a connection; and `NoneLeftBehind` itself, which is inductive with the types.
`OneNonceOfAChunk` adds that the counter is a multiple of the chunk wherever it is
(`CounterStartsChunk`), also after it has gone round. From the invariant also
`SharesTypeCorrect`, `NothingIsLeftBehind` and `SharesUsesSession`, the refinement of
`Session`.

- `NoShareTwice`: `SubmittedOnce`, with a second inductive invariant on top, `OnceInv`.  The
  counter is reset under the miners whenever a job message is parsed, even one that is then
  refused, so a nonce says little; what grows is the *draw* a share comes from.  `JobsKnown`
  says which job every copy of one is of, `SharesKnown` that a share of the newest job
  has its target and was drawn before where the counter is, and `DrawnInOrder` that the
  shares of the newest job lie in the queues behind those submitted and in the order of
  their draws.  A hash then makes a share later than all of them.
- `CreditIsRight`: the action property `CreditedUntilReplaced`, from `OnceInv`: a share of
  the newest job still has the target of `my_job`, and only an answer counts one.
- `SharesDeliver`: each step is one of `Delivery` or a stutter.  That everything found is
  handed over in the end is the rest of `DeliversAll`, and TLC's.

`HashLogProofs`, from `HashLogAssumption`, for any size of the log, any periods and any
number of records. The assumption asks of `Word`, which is 2^64, that it is a multiple of
the size of the log and exceeds twice the time and the hashes of a lifetime: a clock in
milliseconds and fewer than 2^64 hashes. The invariant `LogInv` is `RingInv`, that
`hash_log[i]` is record `i` counted back from the newest, coded as `record_hashes` codes it,
and that what was never written is empty; and `ClockInv`, that records are made in the order
of time and of hashes, with no hashes without time. Neither report changes the state: from
`LogInv` alone follows, by induction over the rounds of the loops,

- `RateIsRight`: the unsigned sums of `get_hashrate` are those of the records (`Total` of the
  log against `Total` of the history, in which no difference wraps), and it stops where
  the property says;
- `PeakIsRight`: in each round `p` is a record and the peak so far is not above every
  average.  Whatever the signs of two coded times, their unsigned difference is never less
  than that of the times (`DeltaIsLong`), so that the rate of a round is never above the
  average between its two records;
- `LogTypeCorrect`.

`StreamsProofs`, from `StreamsAssumption`, for any sizes of buffers, handshakes and
messages, any number of messages and of connections, and any cut into reads and records. The
assumption says that OpenSSL takes a message before it is read (a record has at most 16 KiB,
and `BIO_new_bio_pair` makes buffers of 17), so that `BIO_write` alone never refuses one;
and that there are four send buffers or more, as the code has. Every safety property of the
run `streams` is a theorem: `StreamsTypeCorrect`, `MessagesInOrder`, `PoliteAreUnderstood`,
`NoLineIsLeft` and `LinkIsHeld`. Four of them follow from one inductive invariant,
`StreamsInv`, which TLC checked on the instance of the run before it was proved:

- `Shape`: types, what the loop is about while it runs, what a closed connection leaves;
- `OrderInv`: `Stream` is everything of the connection that is not handled, that is
  `pt_buf`, what OpenSSL holds, what `consume_loop` has before it and what is on its way,
  in this order.  `Flow(Stream, lo, hi)` says that it holds the messages after
  `lo`, those handled, up to `hi`, those sent, each complete and in order, as far as it
  has not been spoilt; two units of which neither is spoilt and which lie side by
  side belong together (`Linked`).  That is what makes a line that is taken for a message
  the next one;
- `PoliteInv`: while the link is in use nothing is spoilt, and of a pool that waits for
  each message to be handled there is one at most, which fits;
- `LineInv`: no complete line waits, except in the middle of the loop;
- `HelloInv`: during a handshake only its data is under way, and all or nothing of it;
- `LinkInv`: which states of the pool, of `ssl` and of the socket go together, and that
  close_notify is sent by a shutdown only.

`LinkIsHeld` needs a second one, `RoomInv`, which stands on `StreamsInv` and speaks of the
link alone: unless results have come too fast, a link that is up and in use has a send
buffer to spare for `close_notify`.  During the handshake `HelloInv` counts them.

Each step keeps `Stream` as it is (`StreamStays`), appends to it (`PoolSendsKeeps`), takes
a message or nothing off its front (`AfterConsume`, on `ConsumeKeepsFlow`) or spoils a part of
it (`SpoiltStep`, on `FlowFails`); the lemmas `...Keeps` say so of each action.

### Induction over data

The library's induction theorems have an operator for a parameter, which the provers cannot
instantiate.  `NumberFacts!InductionOver` has a set for one: a set that has zero, and with
every number its successor, has every number.  It follows from the order of the naturals
being well-founded, and is enough for what the recursive functions of `HashLog` compute and
for messages that lie in a row (`SingleMessage`).  No module with a theorem reaches a
`RECURSIVE` operator.

### Only model-checked

Liveness under fairness: `MiningStarts`, `OutdatedJobAbandoned`, `NoLimbo`,
`LossIdlesMiners`, `GetsThrough`, `GivenUpIsClosed`, and that everything found is handed over
in the end, in `DeliversAll`.  The prover does not reason about `ENABLED`, which weak and
strong fairness are made of.  Every invariant and every action property of the passing runs
is a theorem.

## Not modelled

- The configuration parser is never called.  Console and reports are output.
- Parsing of the host name: the address is a constant of `executor::run`, and an IPv6
  address in brackets, for which `net_interface.cpp:40-45` measures the length before it
  skips the bracket, does not occur.
- `thread_main` being called while the derived miner is still under construction
  (`miner.cpp:22-23`) is below the level of the model.
- What a job message must look like is reduced to "accepted" or "refused".
- TLS: a connection attempt that fails, whose `do_shutdown` gives OpenSSL null pointers
  (`tls_interface.cpp:250`); failures of OpenSSL to allocate; the pool's `close_notify`
  as distinct from its end of stream.  No timeout of a handshake is modelled because
  there is none: the heartbeat looks at calls of a connected pool only
  (`executor.cpp:107`).
- The conversions between text and numbers in `misc.hpp`: recursion over data, which
  could be checked but not proved, on values no property here depends on.

## Plan

Done: `Mining`, `NetInterface`, `PoolConnection`, `Session`, `Shares`, `Delivery`, `HashLog`,
`LineBuffer` and `Streams`, checked, and the theorems of all their safety properties.

1. `Streams` and `Session`: that the connection with its data keeps to `Session`, as the other
   two do.
2. A ring of `N` entries as an abstract specification of the hash log, and `HashLog` shown to
   implement it.
3. A share's credit across job messages, with more than one target.
4. The conversions of `misc.hpp` as operators, checked against reference definitions.
