# A TLA+ verification of the cloud-edge scene SDK

The modules here model the parts of the repository in which processes, threads,
files and databases have to agree: how a submission that an edge has accepted
survives crashes, reaches the cloud, is joined with the summaries of other edges
and comes back as a closed review; how repeats of a request are answered; how
plugins and model releases are exchanged under load; how deferred observations
reach the calibration monitor; and how files become events. TLC checks the
modules on small instances; TLAPS proves their safety properties, and that they
implement what they promise, for every instance.

| Module | What it is |
|---|---|
| `Aggregator` | the cloud's durable event-time join and its flush workers (`aggregation.py`, `cloud_service.py`) |
| `GroupJoin` | what that join promises the edges, abstractly |
| `CloudAnswer` | what the cloud answers about one summary: promised by `Aggregator`, used by `ReviewDelivery` |
| `AggregatorProofs` | safety and action properties; `Aggregator` implements `GroupJoin` and keeps its answers |
| `Handoff` | the journal between `/process` and the outbox (`handoff.py`, the fallback in `runtime.py`) |
| `DurableAccept` | what the handoff promises a caller, abstractly |
| `HandoffProofs` | types, durability, replayability and the refinement of `DurableAccept` |
| `ReviewDelivery`, `ReviewProofs` | outbox, polls, reviews and flushes (`reliability.py`, `review_tracking.py`, `runtime.py`, `replay.py`) |
| `Idempotency` | the store that runs a keyed operation once (`SQLiteIdempotencyStore` in `reliability.py`) |
| `AnswerOnce` | what one key of that store promises, abstractly |
| `IdempotencyProofs` | exclusion, replay, capacity and the refinement of `AnswerOnce` per key |
| `PluginSnapshots` | leases, reload and close of the plugin manager (`plugin_manager.py`) |
| `SnapshotPool` | what the manager promises its requests, abstractly |
| `PluginProofs` | single close, open leases, order of reloads and the refinement of `SnapshotPool` |
| `ReleaseServer` | release store and supervisor of a node (`release_store.py`, `serve_release.py`) |
| `ReleaseRollout` | the same with the scene plugins and the release watcher (`release_watcher.py`, `release_runtime.py`) |
| `CertifiedRelease` | what a node promises the readers of its release files, abstractly |
| `ReleaseProofs` | types, outputs of one revision, the receipt, failbacks and the refinement of `CertifiedRelease` |
| `CalibrationMonitor`, `MonitorProofs` | the deferred calibration monitor (`monitoring.py`) |
| `FileBridge` | files to events and back (`file_bridge.py`) |
| `EventDelivery` | what the bridge promises of an event, abstractly |
| `BridgeProofs` | files, places, decisions, outcomes and the refinement of `EventDelivery` |
| `MC*` and `*.cfg` | small instances for TLC |

`tlc -config MCAggregator.cfg MCAggregator` runs one of the checks,
`tlapm AggregatorProofs.tla` one of the proofs; `PROJECT.json` lists all of them
with the source lines every definition stands for. Definitions marked *mutant*
are wrong variants of the definition that follows; none is used by a
specification.

## 1. Inventory of the system

An edge process turns raw scene data into a semantic event, decides it locally
within a latency budget, and asks the cloud for a review. A cloud process
answers regular events at once; summaries of several edges it joins into groups
and coordinates each group with a model.

```
 files --> file bridge --HTTP--+       release store --> supervisor --> runtime outputs
                               v              |                              |
 request --> idempotency store --> process    +--> watcher --> plugin manager (snapshots)
                                     |   \--> calibration monitor (queue, worker, SQLite)
                                     +--> handoff journal --delivery thread--+
                                     |                                       v
                                     +--(fallback, direct append)--> SQLite outbox
                                     |                                       |
                                     +--(waits for the cloud)--+             | claim under a lease
                                                               v             v
                      review lifecycle (SQLite) <---- flush_pending (worker, POST /flush)
                                                               |
                                                          HTTP | at least once
                                                               v
                           cloud_service --> aggregator (SQLite) --> flush workers --> model
```

| Component | State | Operations | What is hard |
|---|---|---|---|
| Cloud aggregation (`aggregation.py`, `cloud_service.py`) | one row per group, one per accepted summary, both in SQLite; leases in the memory of the workers | `submit`, `claim_due`, `complete_many`, `release`, `get`; batch splitting and finality in the service | summaries that arrive while a lease is out, two flushers, a bad group in a batch, restarts |
| Durable handoff (`handoff.py`) | journal file under `flock`; reservations, queue, pending set in memory | open and replay, `submit`, writer thread, delivery thread, compaction, `close` | compaction against appends, time-outs, duplicate ids, crash at every write, successors |
| SQLite outbox (`reliability.py`) | pending, leased and completed rows; reconciliation rows | `append`, `claim`, `acknowledge`, `release`, `defer_aggregation_wait`, the same for polls | leases, the end of the wait for peers, two flushers |
| Idempotency store (`reliability.py`) | one row per key: in flight with a lease and an owner token, or a stored answer; lock objects per key in each process | `execute`, pruning to capacity | takeover of an expired lease while its owner still works; locks that leave the registry |
| Edge runtime (`runtime.py`) | none of its own | `process` in its routes, `flush_pending` | the order of writes to three stores; batches with partial failure |
| Replay worker, edge service (`replay.py`, `edge_service.py`) | one thread, statistics | wake-up, periodic flush, `POST /flush` | two flushes at a time |
| Review lifecycle (`review_tracking.py`) | one row per review in a database of its own | `queue`, `start`, `waiting`, `retry`, `complete` | a second database that is updated before or after the outbox |
| Plugin manager (`plugin_manager.py`) | snapshots, leases counted by generation | lease, `reload`, `close` | the last lease ends while a reload swaps; slow reloads |
| Release store (`edge_llm_factory/release_store.py`) | current release, history, revision under a file lock | promote, roll back, roll back if still active | a failback that must not undo a newer promotion |
| Release supervisor (`serve_release.py`), node launcher (`deploy_node.py`) | server process, receipt, two runtime outputs and a transaction journal | start a release, publish, fail back, poll, recover | a crash or fault between any two files; a store that moves during minutes of start-up |
| Release watcher, plugin loading (`release_watcher.py`, `release_runtime.py`) | last revision applied; what each plugin has read | poll, reload | loading while the outputs are being replaced |
| Calibration monitor (`monitoring.py`) | queue, table of observations, published status, flags of worker and close | observe, persist, evaluate, close | evaluations that overtake each other; a database that fails or blocks during close |
| File bridge (`file_bridge.py`) | input directory, archives, outbox, receipts; notes of the watcher | scan, ingest, deliver, restart | files that grow or reuse names, missed notifications, crashes between stores, lost answers |
| Scheduler, utility routing, performance (`scheduling.py`, ...) | latency windows | route an event under its budget | boundaries of budgets; sampling |
| Conflict resolution (`conflicts.py`) | none | merge of local and cloud decisions | precedence and ties |
| Artifacts, feedback, review queue, network monitor, metrics | files, windows, counters | append, sample, count | background writer of the feedback store |
| Transport, contracts, configuration, benchmarks, factory, scene models | none that interacts | I/O, validation, measurement, training | none a model checker reaches |

The properties that make the parts correct:

* aggregation: what is shown as final covers every expected member and stays;
  no accepted summary is lost or left behind in a closed group; one lease per
  group; results are only replaced by better ones; complete groups become
  final, timed-out groups get a result, whatever another group in the batch does.
* handoff: what `submit` confirmed survives every crash and reaches the outbox;
  the journal can always be replayed; every reservation ends.
* delivery: a row is not taken out of work before the cloud has it; two
  flushes never work on one row; a review is final only on the evidence of the
  whole group, never gets worse, and is closed in the end.
* idempotency: operations of one key do not overlap unless one outlasts its
  lease, a stale owner stores nothing, a repeat gets the stored answer, the
  cache keeps its capacity, every call ends.
* plugins: no request works with closed plugins; a replaced snapshot is closed
  once, and it is closed.
* release: the outputs are of one revision or the journal says how they were; the
  receipt tells the truth; only a failed candidate is undone; a node that stays
  up serves, and has loaded, what is active.
* monitor: an accepted observation is stored or visibly failed; close neither
  breaks nor leaks the connection; the published status follows the labels.
* bridge: no file is lost, no event archived without being queued; the edge
  decides once; outcome and receipts are true; every event ends.

## 2. Plan

In order of importance; the run of a component comes with its module.

| | Module | Instance for TLC | Proved |
|---|---|---|---|
| 1 | `Aggregator`, `GroupJoin`, `CloudAnswer` | 3 groups (one that cannot be coordinated), 3 members, 2 workers, restarts | all safety, refinement |
| 2 | `Handoff`, `DurableAccept` | 2 callers, 3 submissions, one close or crash | types for any number of instances; durability, replayability, refinement for one at a time |
| 3 | `ReviewDelivery` | 2 events, 2 flushers, 1 crash | all safety, the cloud's side of `CloudAnswer`; owners of reviews without crashes, outcomes for one flusher |
| 4 | `Idempotency`, `AnswerOnce` | 3 calls on one key, 2 processes, crashes | all safety, refinement |
| 5 | `PluginSnapshots`, `SnapshotPool` | 3 requests, 2 reloaders, close, 4 snapshots | all safety, refinement |
| 6 | `ReleaseServer`, `ReleaseRollout`, `CertifiedRelease` | 3 releases, 3 outside events | all safety, refinement |
| 7 | `CalibrationMonitor` | 2 events, queue of 1 | all safety |
| 8 | `FileBridge`, `EventDelivery` | 3 files, 1 crash | all safety, refinement |

All eight exist. What a continuation would add, in this order: the pure decision functions of the
scheduler and of conflict resolution as operators against a reference.

`ReviewDelivery` sees the handoff as the action that makes a row appear and the
aggregator as what the cloud knows of an event; `CloudAnswer` is that interface, and
both sides of it are proved (section 11). `FileBridge` sees the edge through
what `AnswerOnce` promises for its idempotency key. A composition of `Handoff`
and `ReviewDelivery` would only rename the action that makes a row appear.

Each component that can be proved has its type invariant, and some further
invariants, as theorems only; runs are kept for what is not proved and for the
properties that say most. Before they were proved they held in the same instances.

## 3. Aggregation

`Aggregator` has one action per method. Each method takes the aggregator's lock
and one SQLite transaction, so `SubmitStore`/`SubmitNoop` are `submit`
(`aggregation.py:235-384`), `ClaimDue` is `claim_due`, `CompleteBatch` is
`complete_many` with the finality rule of `cloud_service.py:416-522`,
`ReleaseGroup` is `release` and `SplitBatch` the halving of a failed batch. A
`submit` that raises is rolled back and is no step. `gstate`, `policy`,
`reason`, `revision`, `claimed`, `result` are the columns of the group row,
`rows` is the event table, `batches` the leases the workers still have to
coordinate. `acked` is a history variable.

Times are two booleans per group: the deadline has passed, the retry delay
runs. A result keeps the summaries it was computed from, its finality and
confirmation; whether the members agree is a free choice per group.

`GroupJoin` is the promise: summaries are accepted until the group is final,
each publication uses everything the one before it used, and it is shown as
final or partial exactly when it used everything accepted. The refinement maps
the event table to `accepted` and the view of `GET /aggregations` to
`published`.

`AnswersNeverGoBack` says what an edge may rely on that asks about its summary
(`Answer(s)`, a `CloudAnswer`): once held it is never unknown again, once decided
there is always a decision, and a final one stays.

| Run | Question |
|---|---|
| `agg_join` | 3 groups, `g3` in `BadGroups`, 2 workers, honest and conflicting summaries, deadlines, any number of restarts: `FinalCoversEveryMember`, `NoUnsupportedConfirmation`, `NoStrandedEvidence`, `AnswersNeverGoBack`, refinement of `GroupJoin`, `CompleteGroupBecomesFinal`, `MinimumGetsResult` (about 37,000 states) |
| `agg_restart` | violated: `RestartRecoversInflightGroups` |

Bounds. The three-member group has every interesting size (below the minimum,
at it, between minimum and complete, complete); the conflicting summaries are
one of each kind the code distinguishes. `BatchLimit` 2 makes full batches and
splits happen, and puts the bad group beside a good one. Nothing counts without
end: a revision needs new evidence, so the state space is finite by itself.

Fairness. The flush thread polls every 50 ms (`WorkerStep`), clocks advance,
and a coordination that is repeated for ever does not fail every time unless
the group is one of `BadGroups` (`SF` on `CompleteGroup`). It is a model
service behind HTTP that fails, not the group. A group that was in flight at a
restart is stranded (`agg_restart`); both liveness properties exempt it
(`Stranded`) and nothing else.

## 4. Durable handoff

`Handoff` models `DurableOutboxHandoff` at the grain of its condition variable:
each block under the condition is one action, and so is everything between two
blocks (the identity look-up, an fsync, an outbox append). An *instance* is one
object with a writer and a delivery thread; instances share the journal and the
outbox. Callers go through reserve, look-up, enqueue, wait; a call that raises
goes to `fallback`, which is what `process` does with it (`runtime.py:1659`).
The writer takes a batch, appends and fsyncs, publishes; the delivery thread
picks, appends to the outbox, acknowledges, clears, compacts. `CloseBegin`,
`CloseStop`, `CloseReturn` are `close`; the last thread to exit compacts and
releases the `flock` (`Leave`). A crash leaves any prefix of the batch under
way in the file.

A submission is an id and a payload: three submissions, of which two share an
id, tell everything apart that the code compares. Checksums are taken to be
right, so a torn record is an absent one. A failed write leaves the file as it
was (the code truncates back). Back-off delays are a free choice of what is
tried next.

`DurableAccept` promises that what was answered is durable, that durable
submissions stay durable, and that one submission per id reaches the outbox.
The refinement maps durability to "in the outbox or in the journal without an
ack".

| Run | Question | States |
|---|---|---|
| `handoff_safety` | one instance, 2 callers, 3 submissions, one close or crash: `AcceptedIsDurable`, `JournalIsReplayable`, refinement of `DurableAccept` | 295,641 (callers are symmetric) |
| `handoff_progress` | 2 submissions with ids of their own, one close or crash: `AcceptedReachesOutbox`, `ReservationEnds` | 119,119 |

Bounds. `MaxStops` 1 allows one close or crash and every reopening after it;
what a second one would meet is the state after the first replay, which the
first meets too. Two callers are enough to race on one id; `BatchLimit` 2 lets
a crash cut a batch.

Fairness. Both threads and all calls keep running; `close` returns; a stopped
process is started again; a repeated outbox append or ack succeeds at some time
(`SF`) unless the outbox refuses it, because another submission has the id; the
entry that was tried longest ago goes first (`handoff.py:443-450`), hence `SF`
on each pick.

## 5. Delivery and reviews

`ReviewDelivery` has the rows of the outbox and of the reconciliation polls,
the lifecycle of the reviews (another database), the requests that wait for the
cloud and the flushes. Every SQLite transaction and every answer of the cloud
is one action; a crash comes between any two.

A flush goes through `Sweep` (`sweep_expired_reconciliation`), `ClaimPolls`,
`ClaimRows`, `Prepare` (recover and start the reviews), then per item
`Ask`/`AskFails` and `Settle`, then one transaction per kind of outcome
(`Acknowledge`, `AcknowledgePolls`, `Release`, `Defer`, `DeferPolls`), then
`CloseReview` for every row whose wait is over, and `Finish`. `item[f][e]`
carries what became of the item: an answer, a verdict, or the closing it still
needs.

`row` and `poll` are `later` while the retry delay runs, `due` after it,
`inflight` under a lease, `completed` at the end. A lease is the set of rows of
one claim. `life` keeps the open states and the stage a review was closed at.
`cloud` is what the cloud knows: nothing, a stored summary, a partial or a final
result. For a summary it moves as `CloudAnswer` says, which is what `Aggregator`
does for every summary; a regular event is decided at once.

A request that waits for the cloud (`SyncBegin` to `SyncMark`) starts the
review, asks, and on failure or waiting appends the row afterwards. A repeat of
a request is answered by the idempotency store and is no step, unless the
first attempt was lost in a crash.

Abstractions. A claim takes everything due; the code takes a bounded number,
oldest first. The items of a batch are answered apart, which allows every
outcome of one HTTP call and more; that a refused summary fails all of its
neighbours in the call is kept (`Rejected`). A flush ends before its leases do.

| Run | Question | States |
|---|---|---|
| `review_safety` | a summary and a regular event, both also by waiting requests, 2 flushers, 1 crash: `CompletedWasAccepted`, `FinalIsBacked`, `WorkIsExclusive` | 610,550 (flushers are symmetric) |
| `review_progress` | the same events, 1 flusher, no crash: `OpenReviewHasOwner`, `ReviewsOnlyImprove`, `EveryRowIsReviewed`, `LateFinalIsAdopted` | 33,056 |

Bounds. Two events make batches of mixed outcome; one summary and one regular
event are the two kinds of answer. Leases, windows and deadlines may run out at
any moment the code allows. `CHECK_DEADLOCK FALSE` is set because the system
does stop: when every row is completed nothing is left to do.

Fairness. The worker flushes again and again (`replay.py:153-187`), delays and
deadlines run out, waiting requests return. `SF` on `Prepare` and `Ask`: neither
the lifecycle database nor the cloud fails every time it is used. No fairness
is assumed of the other edges (`CloudAdvances`): a peer may stay away for ever,
and `EveryRowIsReviewed` must hold all the same, by the end of the wait.

## 6. Idempotency

`Idempotency` is `SQLiteIdempotencyStore.execute`. A call registers with the lock
of its key in its own process (`_request_lock`), acquires it, claims the row in
one transaction (`Claim` with cleanup and takeover, `Wait`, `Replay`, `Refuse`),
runs the operation with nothing held but the lock of its process, and stores the
answer if it still owns the row (`Owns`: state and owner token), or withdraws the
claim. Each transaction is one action, and each may fail. `completed` is the
counter the triggers keep; `Write` changes table and counter together, as the
triggers do. A crash ends the calls of one process and empties its registry; the
table stays.

A lock object is named by the call that made it, so that the second lock of a key
is told from the first. A row has one clock, first the lease, then the time to
live. An operation that can outlast its 60 s lease is one of `SlowOperations`.
Keys are compared by value: hashing, compression and the migration of old tables
are left out.

`AnswerOnce` is what one key promises: it is bound to one request, one answer is
stored, every repeat gets that answer, another request is refused, until the key
is forgotten or its attempt failed. `KeysAreCells` maps every key to such a cell.

| Run | Question |
|---|---|
| `idempotency` | 3 calls on one key from 2 processes, one with another payload, one slow; an earlier answer on a second key that fills the cache (`MaxEntries` 1); failures, expiry, takeover, crashes: `KeyIsSerialized`, `OperationsRunAlone`, `CapacityIsKept`, `KeysAreCells`, `EveryCallEnds` |

Two of the three calls share a process, so both exclusions (lock, claim) are at
work; the earlier answer makes the first completion evict something. The run ends
when all calls have ended (`CHECK_DEADLOCK FALSE`). Fairness: threads run,
operations end because every call of a model or a peer has a deadline, leases run
out, and a lock that is free again and again is acquired (`SF` on `Acquire`:
Python's locks are not fair, but not adversarial).

## 7. Plugin snapshots

`PluginSnapshots` follows `PluginRuntimeManager` across its two locks: a lease and
its end are one action each under `_lock`; `reload` builds its candidate under
`_reload_lock` only (`BeginReload`, `BuildFails`, `Swap`, `EndReload`); snapshots
are closed by the thread that took them out (`doomed`) after the lock has been
released. `Shutdown` is `close`: the HTTP threads are daemons, so leases may be out
and a reload may be under way, and may still swap.

| Run | Question |
|---|---|
| `plugins` | 3 requests, 2 reloading threads (watcher and endpoint), one close, 4 snapshots: refinement of `SnapshotPool`, `ReplacedIsClosed` |

Four snapshots allow three swaps, hence a retired generation beside another one,
and generation 1 for a second time after the close. `SnapshotPool` has neither
generations nor counts nor locks: requests use the snapshot that is current, and a
snapshot is closed once, when it is neither current nor in use. That is about the
running service; after `close` the plugins of a late request are closed by design.
Fairness: requests end, loops that close go on. Nobody has to reload.

## 8. Releases

`ReleaseServer` has the registry of the release store (one step per call, which
holds a file lock and replaces one file), the supervisor's `apply_current` from the
look at the store over hashing, launch, startup gate, the two runtime outputs
under a transaction journal and the receipt to the second look at the store, the
failback and the convergence to a newer activation, and the node launcher
(`StartNode`, `StopNode`). A revision stands for what was made for it: process,
receipt and outputs are numbered by it.

`ReleaseRollout` adds the edge service of the node: plugins are loaded one after
the other (`LoadIndustrial`, `ReadRelease`, `ReadRuntime`, ...), and the watcher
compares revisions, looks again, reloads and marks what it applied.

| Run | Question |
|---|---|
| `rollout` | releases `a`, `b` (never starts), `c`; 3 events among promotions, rollbacks, failing reads, writes and starts, dying processes and crashes: `TypeOK`, refinement of `CertifiedRelease`, `ReceiptIsTrue`, `FailbackUndoesItsCandidate`, `Converges`, `WatcherCatchesUp` |
| `rollout_stale` | violated: `ScenesFollowRelease`, by one promotion |

`MaxEvents` 3 is enough for a bad promotion during which a good one is made, and a
fault on the way; the bound covers everything from outside, so what follows the
last event is the node left to itself, which the liveness properties speak of. The
state space is finite because a failback needs an activation to undo. The node may
be off for good (`CHECK_DEADLOCK FALSE`); both liveness properties are about nodes
that stay up. Fairness: supervisor and watcher poll for ever, a start that fails
ends the node.

## 9. Calibration monitor

`CalibrationMonitor` has a request that queues its observation (`Observe`), the
worker's loop with its database transactions (`Persist`), the registration that
counts events since the last evaluation, evaluation in its three locked steps
(`read`, `store`, `publish`) by the worker and by endpoint threads (`Request`,
`Evaluation`), the worker's failure (`Fail`, `Abandon`) and its exit, and `close`
with its deadline (`Drain`, `LeaveConnection`, `Stop`, `Join`). Of the statistics
one thing is kept, that enough labels with one against the prediction degrade a
scene; which figures degrade it does not matter to the order of steps.

| Run | Question | States |
|---|---|---|
| `monitor` | 2 events on a table with any content, a queue of 1, one endpoint thread, a database that may fail or block, a close at any moment: `WorkerHasConnection`, `OnTimeCloseDrains`, `AcceptedIsStored`, `StatusCatchesUp` | 494,918 |

`Interval` 2 and `MinLabelled` 2 put the evaluation and the verdict beyond the
first event. The monitor may be closed, after which nothing happens
(`CHECK_DEADLOCK FALSE`). Fairness: threads run and time passes; a call of the
worker to the database need not return (`InDatabase`), which is why a close has
to work without it.

## 10. File bridge

`FileBridge` is one loop in one process (`pc`): the first scan, the first delivery,
the watcher, then notes, periodic scans and deliveries. `Read`, `Enqueue` (one
transaction), `Move`, `Reject` ingest a file; `Claim`, `SendAnswered`,
`SendUnanswered`, `Settle`, `WriteReceipt` deliver a batch. Producers write a file
whole by a rename or grow it in place, and use names again. The edge answers,
refuses, or does not answer in time and may decide later (`stray`). `Crash` is
possible between any two steps; files, outbox and receipts survive.

The edge is modelled from what `AnswerOnce` promises for its key: one decision per
key, repeats get it, another body under the key is refused.

`EventDelivery` has no files, batches, leases or restarts: one body is taken for an
id, the edge decides on it at most once and while it is open, it is completed after
that or fails and is never decided, and receipts say which. Time-outs, repeats and
late decisions have to fit into that.

| Run | Question | States |
|---|---|---|
| `bridge` | 3 files: one event, the same id with another body, and a file written in place under the name of the second whose event the edge refuses; 1 crash: `NoFileIsLost`, `EdgeDecidesOnce`, refinement of `EventDelivery`, `EveryEventEnds` | 287,555 |

The three files meet every branch of the ingest: new, repeated, contradicting,
unfinished, refused, a name that is taken. `BatchLimit` 1 with two ids makes one
event wait behind another. Fairness: the loop never stops, both intervals keep
passing (`SF` on `Rescan`, `Deliver`: the loop alternates them with notes), leases
and delays end, and an edge that is asked again and again answers in the end (`SF`
on `SendAnswered`).

## 11. Proofs

All proofs hold for every value of the constants that satisfies the named
assumptions of the module (finite sets of members, calls, files; limits that are
positive; null values that are no members): any number of groups, workers,
submissions, callers, events, flushers, processes, requests, files, closes and
crashes.

**Aggregator.** `IInv` is inductive. It ties together three things the code
keeps apart: the table (`RowsInv`: one row per member and id, one policy per
group), the leases held outside every lock (`LeaseInv`: a lease still describes
its group, only summaries may have been added) and the published results
(`ResultInv`). The heart is `claimed[g] = Cardinality(MembersIn(l.events))`:
`complete_many` compares member *counts*, and `NothingArrived` shows that equal
counts mean equal sets of summaries, because summaries are only added and each
member has one. From `IInv` follow `TypeCorrect`, `FinalCovers`,
`ConfirmationIsSupported`, `EvidenceIsUsed`, `AcknowledgedIsDurable`,
`LeasesAreExclusive` and the action properties `RevisionsImprove` and
`FinalStays`. `Implements` maps the steps to `GroupJoin`: a stored summary is an
`Accept`, a committed batch a `Publish`, everything else invisible. `AnswersAreKept`
shows the same table from the side of one summary: it comes in while no result has
it (`NewSummaryIsHeld`), a result that replaces another covers what the other did,
and a final group takes no other (`FinalStep`), so what is known of a summary only
grows.

**Handoff.** `TypeCorrect` holds for any number of instances. The other theorems
assume `OneInstance`, that is, `close` of one has returned before the next opens
the journal; without it `AcceptedIsDurable` is false (section 12).
`DurableInv` is inductive. Its parts say where a submission is: `ReserveInv`, that
a reserved one is in a call, in the queue, in the writer's batch or pending, in one
of them only, and that ids are reserved once; `HandInv`, that what the delivery
thread holds is pending; `OutboxInv`, that what it acknowledges is in the outbox;
`DiskInv`, that the puts without an ack are just the pending entries and the batch
written but not yet published. Compaction is safe because of the first and the last
together (`CompactionKeeps`): nothing reserved means nothing unacknowledged.
`AcceptStep` maps a written batch, or the prefix of one a crash left, to `Persist`,
its publication to `Answer`, an append to the outbox to `Deliver`, and all else to
stutters, which is `ImplementsAccept`; `AcceptedStaysDurable` follows from it and
`PendingStaysDurable` from `DiskInv`. `JournalStaysReplayable` needs, besides, that
appending to a journal leaves its prefixes as they were (`ReplayPrefix`).

**ReviewDelivery.** `TypeCorrect` is inductive. `AcceptanceFirst` strengthens
`CompletedWasAccepted` by what items, marks and waiting calls say of the cloud
(`AcceptInv`); it rests on `CloudNeverForgets`. `FinalsAreBacked` is of the same
form (`FinalInv`). `NoTwoHands` proves `WorkIsExclusive`, which is not inductive:
that two flushes hold disjoint rows follows from rows in hand being in flight
under a running lease (`RowsAreLeased`, `PollsAreLeased`), from polls existing
only for completed rows (`PollFollowsRow`, so an event is never in hand as both)
and from empty hands before a claim (`PhaseInv`). Polls need the disjunct
"completed": the sweep of one flush may complete a poll that another holds.
`ReviewsAreOwned` assumes that nothing crashes, whatever the number of flushers:
`Owned` leaves out the request that only has to mark its row, since that row is
there, and becomes inductive with `RowsAreReviewed` (a completed row has a review)
and `ItemsArePrepared` (a flush works on no item whose review it has not started,
and acknowledges as complete only what is closed). `OutcomesOnlyImprove` assumes one
flusher, whatever crashes: a row whose review has still to be closed is completed,
and what is to be closed as provisional is not yet final (`LateInv`), because nobody
but this flush could have made it so, and a waiting request has no row yet
(`CallPrecedesRow`). Without that assumption `OneWayBack` says all that can happen:
an outcome is lost only when it was final, and only to a flush that still had to
record the end of a wait. `CloudIsCloudAnswer` shows that the cloud of this module
does for every summary what `AnswersAreKept` proves of the aggregator, and
`EveryDecisionIsCovered` that it leaves nothing out: every decision `CloudAnswer`
allows is a step of it. (A batch that decides several summaries at once is seen here
as one summary after another, which the edge, asking for one at a time, cannot tell.)

**Idempotency.** The exclusion of threads rests on `RegistryInv` (a registered
call uses the lock of its key, and the count of a key is the number of its
registered calls, so a lock that is dropped has no user) and `HoldInv` (who is
inside holds its lock, and no two hold one): `KeysSerialized`, `RegistryExact`.
The exclusion of processes rests on `ClaimInv`, that an operation which ends in
time owns its row under a running lease, together with `RowInv` (a row carries the
request of its owner) and `ToldInv` (results exist only after the end):
`OperationsAlone`, `AnswersFit`. `CapacityKept` needs that a write counts exactly
the completed rows it adds and removes. `KeysImplementCells` maps claim to `Bind`,
storing to an answer, takeover and withdrawal to their counterparts, and every
deletion by a call on another key to forgetting.

**PluginSnapshots.** Three invariants: `OwnInv`, a snapshot is kept by the manager,
or doomed by one thread, or closed once, and never two of these; `CountInv`, counts
by generation never exceed the leases that are out (a shutdown forgets leases,
nothing invents them) and a retired snapshot has a count; `Running`, until the
close, that generations number the snapshots, counts are exact and a leased
snapshot is active or retired. They give `SnapshotsClosedOnce`, `RetiredIsLeased`,
`LeasesStayOpen` and `ReloadsInOrder`; and `ManagerImplementsPool`, since a doomed
snapshot is one the pool may close (`DoomedIsFree`: installed, not active, not yet
closed, and while the service runs in nobody's use).

**Releases.** Numbers in the node name revisions, and the registry only grows, so a
revision names the same release for ever (`HistoryGrows`). `Inv` adds four facts to
the checked properties: numbers are of revisions that exist (`Numbered`); what was
applied, what there is to fall back to and a candidate beyond the gate can be served
(`Served`); there is a journal while outputs are written (`Journaled`); and from the
launch to the receipt there is no receipt and no server but the candidate's
(`Unproven`), which is why removing the receipt before the new server starts makes
`ReceiptIsTrue` inductive. Hence `OutputsAgree`, `ReceiptStaysTrue` and, with the
comparison of the revision in `rollback_if_active`, `FailbacksAreJust`.
`ReleasesAreCertified` is the refinement of `CertifiedRelease`, in which both outputs
are one variable that changes at once: they are seen through the journal
(`Recovered`: what a recovery would make of them), so that a write of one output and
a recovery are invisible (`RecoveryIsInvisible`) and the removal of the journal
(`Commit`) is the switch, which `Unproven` places before the receipt.

**CalibrationMonitor.** `Inv` is `TypeOK`, `Flow` (an observation is in the queue,
in the hand of a worker that is busy, in the table or counted) and `Ending` (close
refuses, drains and stops in this order; a worker leaves for a reason; the
connection is closed by a worker that is through or after its end). Hence
`AcceptedStaysVisible`, `WorkerKeepsConnection`, `CloseInTimeDrains`,
`NobodyIsQueuedForTheDead`.

**FileBridge.** `Inv` has six parts: types, the control state, what an ingest under
way knows, how rows are numbered, what a delivery under way knows, and what the
edge knows. Three arguments carry it. A free place exists for every file
(`FirstFreeIsFree`): there are as many numbers as files and one more, so a name
cannot be taken for all of them. A restart between the commit of the row and the
move of the file finds the same first free place again (`Expected`,
`FirstAccepted`), so that the row names the place the file will really have. Rows
are numbered in the order of their insertion, so the oldest ready rows are
determined and a batch is no larger than `batch_size`. They give `FilesKept`,
`ArchivedIsQueued`, `RejectionsAreJust`, `DecidedOnce`, `OutcomesAreTrue` and
`EndedStays`. That the edge decides once is not only the work of the edge's key: a
failed row must never have been decided, hence `stray` and the state of the row are
in the invariant together. `BridgeDelivers` is the refinement of `EventDelivery`. Its
three steps are `DecisionView` (a request that runs, in time or late, decides on an
event that is open and undecided, or changes nothing, because a completed row has
been decided and a failed one is of an event the edge refuses), `SettleView` and
`ReceiptView`; claims, leases, delays, crashes and everything about files are
stutters.

**Model-checked only.** Liveness under fairness, which is out of the prover's
reach: `CompleteGroupBecomesFinal`, `MinimumGetsResult`, `AcceptedReachesOutbox`,
`ReservationEnds`, `EveryRowIsReviewed`, `LateFinalIsAdopted`, `EveryCallEnds`,
`ReplacedIsClosed`, `Converges`, `WatcherCatchesUp`, `AcceptedIsStored`,
`StatusCatchesUp`, `EveryEventEnds`. Every safety and every action property of
the passing runs is a theorem, two of them (`OpenReviewHasOwner`,
`ReviewsOnlyImprove`) under the assumptions without which they are false, which
are those of their run.

## 12. What the models found

Two statements of the repository are contradicted by a run; `PROJECT.json` quotes
them.

* `agg_restart`: a group leased when the cloud stops stays `inflight`; reopening
  the database returns no group to `waiting`.
* `rollout_stale`: the watcher reloads while the supervisor is between the two
  outputs; the industrial plugin takes the old output without a check, the traffic
  plugin the new one, the reload counts as done, and the two scenes stay apart.

Further observations, made with the same models (other constants) or while
translating, without a run of their own:

*Handoff and delivery*

* A conflicting submission takes the fallback into the outbox (`runtime.py:1659`),
  overtakes the accepted one, and keeps it out for ever: `AcceptedReachesOutbox`
  fails when two submissions share an id.
* `close` compacts after the lock has been released (`handoff.py:639`) and can
  truncate a put its successor has confirmed: `AcceptedIsDurable` fails with two
  instances.
* A duplicate `submit` is answered on the strength of a reservation whose put
  may not be durable yet (`handoff.py:332`), and `process` reports it as durable.
  In the model the early answer (`AnswersDuplicate`) confirms nothing.
* If cutting back a failed write fails too (`handoff.py:565`) a torn record stays
  in the middle of the journal. The journal shrinks only when nothing at all is
  reserved (`handoff.py:583`), a moment that steady load may never bring.
* A crash between the end of the wait and the closing of the review, in two
  databases (`runtime.py:2591`), leaves the review open for ever:
  `EveryRowIsReviewed` fails with a crash.
* With two flushes the late closing by one (`review_tracking.py:440`) overwrites
  the final result another has adopted: `ReviewsOnlyImprove` fails, in the one way
  that `OneWayBack` leaves.
* One refused summary fails the call for the whole batch (`runtime.py:2200`,
  `cloud_service.py:606`), again and again, since the batch is claimed together.
* With `SyncEvents` and a crash `OpenReviewHasOwner` fails: a waiting request
  that dies between starting the review (`runtime.py:1307-1318`) and appending
  the row (`runtime.py:1437`, `1586`) leaves a review that no row will replay.
* An event in `Unrecoverable` keeps the reviews of its batch mates open: an
  exception in the recovery of one row (`runtime.py:2034`) ends the flush for all.
* `acknowledge`, `release` and `defer` look at neither state nor lease of a row
  (`reliability.py:640`), which matters to a flush that outlives its 30 s lease.

*Idempotency*

* A row left in flight by a dead owner is never cleaned up; requests with another
  payload are refused on it for ever.
* An operation slower than its lease (60 s) is run a second time.
* A refused call rolls its cleanup back, yet the time of the last cleanup advances.

*Plugins*

* `close` closes the plugins of requests that are still running, and a reload that
  races with it installs a snapshot nobody will close.
* An exception from `registry.close()` at the end of a lease hides the result of
  the request; plugins constructed by a configuration that then fails are leaked.

*Releases*

* A promotion during the first load of the plugins ends the node, and one before
  the watcher is made (`release_watcher.py:33-36`) counts as applied without a
  reload.
* The traffic plugin reads its runtime file again after it has compared it.
* A server whose supervisor was killed outright keeps running; it is not modelled.

*Monitor*

* A slow evaluation by an endpoint overwrites the newer status of the worker and
  resets the age it is judged by (`monitoring.py:803`), until the next evaluation.
* An observation accepted after the worker saw an empty queue and before `close`
  set its flag stays queued; `close` reports `timed_out`.
* At an expired deadline the worker may read the flag that tells it to close the
  connection before it is set: the connection stays open. Requests to the
  endpoints can meet a closed connection.

*Bridge*

* A file written in place and scanned while it grows is rejected although valid.
* A crash between settling a row and writing its receipt loses the receipt.
* A failed event that is sent in again is archived as accepted and not delivered.
* A batch of 32 posts of 2 s each exceeds the 30 s lease; with two bridges on one
  state directory a late `release` could open a completed row.
* A producer that replaces a file between its reading and its move has the second
  one archived unseen. The model assumes it does not.
* An answer cut short (`IncompleteRead`) or an `OSError` in a move ends the process.
* A restart with other conflict options sends another body under the same key; the
  edge refuses it and the row fails although decided. Ids that `_safe_name` maps to
  one name share a receipt.

*Elsewhere*

* The failure threshold of the network monitor (`networking.py:123-127`) has no
  effect: the count of failures is zero whenever the last sample succeeded, so one
  failed probe makes the cloud unavailable.
* `conflicts.py`: the success rate is 1.0 when the optimiser adds conflicts to
  none; later conflicts of a round are resolved from a list that has changed.

## 13. Not modelled

Within the modules: schema migrations; two processes on one aggregation database;
the bounded replay order of a batch (`ORDER BY`, limit) and `defer_waiting`; the
record of partial decisions and receipt times of a review; power loss, which the
databases with `synchronous=NORMAL` (reviews, idempotency) do not survive like the
outbox does; a flush that outlives its lease; the older supervisor with one output;
the forced reload by a request; drift statistics, the evaluation window and several
scenes of the monitor; two bridges on one state directory, and the error records
beside rejected files.

Outside them: scheduler, utility routing and conflict resolution are pure functions
of one input over real-valued scores and stay with the unit tests; the artifact
store writes one content under one name; the feedback store's loss or repeat of a
record is observed by no other part; the network monitor's answer is a free choice
wherever it matters. Transport, contracts, configuration, metrics, benchmarks, the
training factory and the models of the scenes make up most of the repository's
lines and have no protocol that a model checker reaches; the reasons stand in
`PROJECT.json` for each of them.
