-------------------------- MODULE CalibrationMonitor --------------------------
(***************************************************************************)
(* CalibrationDriftMonitor (monitoring.py): the requests of the edge       *)
(* service queue their observations and are answered with the status that  *)
(* was published last; one worker stores the observations and evaluates    *)
(* the scene now and then; the monitoring endpoints evaluate it on demand; *)
(* close drains the queue within a deadline.                               *)
(*                                                                         *)
(* One scene, whose rows fit into the evaluation window.  Of the           *)
(* evaluation only the calibration is kept: enough labels, one of them     *)
(* against the prediction, is a degraded scene.                            *)
(***************************************************************************)
EXTENDS Integers, Sequences, FiniteSets

CONSTANTS
    Events,         \* event ids; the same event may be observed again
    Requests,       \* threads of the monitoring endpoints
    Worker,         \* the worker thread
    NoEvent,        \* the worker has no observation in hand
    Capacity,       \* deferred_queue_size
    Interval,       \* evaluation_interval_events
    MinLabelled     \* min_labeled_samples

ASSUME ThreadsAssumption == Worker \notin Requests /\ NoEvent \notin Events
ASSUME PolicyAssumption ==
    /\ Capacity \in Nat \ {0}
    /\ Interval \in Nat \ {0}
    /\ MinLabelled \in Nat \ {0, 1}

VARIABLES
    table,      \* monitoring_observation: the label of each stored event
    queue,      \* the deferred queue
    hand,       \* the observation the worker is busy with
    pc, view,   \* of every thread: where it is, and the status it carries
    cache,      \* the last evaluation, its age, and the published status
    life,       \* flags of worker and close
    accepted,   \* history: events whose observation was accepted
    failed      \* events counted by _deferred_failed_count

vars == <<table, queue, hand, pc, view, cache, life, accepted, failed>>

Threads == Requests \cup {Worker}
Labels == {"right", "wrong"}
Statuses == {"none", "fine", "degraded"}

Rows == {e \in Events : table[e] # "absent"}
Labelled == {e \in Events : table[e] \in Labels}

\* scene_snapshot, without the figures.
Verdict ==
    IF Cardinality(Labelled) >= MinLabelled /\ \E e \in Labelled : table[e] = "wrong"
    THEN "degraded" ELSE "fine"

Unfinished == Len(queue) + IF hand = NoEvent THEN 0 ELSE 1
Dead == pc[Worker] = "dead"

\* Opening the database evaluates the scene if it has rows.
Warm == IF Rows = {} THEN "none" ELSE Verdict

Init ==
    /\ table \in [Events -> {"absent", "unlabelled"} \cup Labels]
    /\ queue = <<>>
    /\ hand = NoEvent
    /\ pc = [t \in Threads |-> IF t = Worker THEN "check" ELSE "idle"]
    /\ view = [t \in Threads |-> "none"]
    /\ cache = [status |-> Warm, published |-> Warm, lag |-> 0, aged |-> FALSE]
    /\ life = [accepting |-> TRUE, closing |-> FALSE, stop |-> FALSE, failed |-> FALSE,
               finalize |-> FALSE, closed |-> FALSE, closer |-> "open", late |-> FALSE,
               timedOut |-> FALSE]
    /\ accepted = {}
    /\ failed = {}

Goto(t, label) == pc' = [pc EXCEPT ![t] = label]

-----------------------------------------------------------------------------
(* A request.  It is answered with the published status; an observation    *)
(* that is not accepted changes nothing here and forces a review.          *)

Accepting == life.accepting /\ ~life.failed /\ ~Dead

Observe(e) ==
    /\ Accepting
    /\ Len(queue) < Capacity
    /\ queue' = Append(queue, e)
    /\ accepted' = accepted \cup {e}
    /\ UNCHANGED <<table, hand, pc, view, cache, life, failed>>

-----------------------------------------------------------------------------
(* An evaluation, by any thread: the rows are read, the result is stored   *)
(* and then published, each under a lock of its own.                       *)

ReadRows(t) ==
    /\ pc[t] = "read"
    /\ ~life.closed
    /\ view' = [view EXCEPT ![t] = Verdict]
    /\ Goto(t, "store")
    /\ UNCHANGED <<table, queue, hand, cache, life, accepted, failed>>

\* The database fails, or close has closed it under a request.
ReadFails(t) ==
    /\ pc[t] = "read"
    /\ Goto(t, IF t = Worker THEN "fail" ELSE "idle")
    /\ UNCHANGED <<table, queue, hand, view, cache, life, accepted, failed>>

Store(t) ==
    /\ pc[t] = "store"
    /\ cache' = [cache EXCEPT !.status = view[t], !.lag = 0, !.aged = FALSE]
    /\ Goto(t, "publish")
    /\ UNCHANGED <<table, queue, hand, view, life, accepted, failed>>

Publish(t) ==
    /\ pc[t] = "publish"
    /\ cache' = [cache EXCEPT !.published = view[t]]
    /\ view' = [view EXCEPT ![t] = "none"]
    /\ Goto(t, IF t = Worker THEN "done" ELSE "idle")
    /\ UNCHANGED <<table, queue, hand, life, accepted, failed>>

\* GET /monitoring and setting a reference.
Evaluate(t) ==
    /\ pc[t] = "idle"
    /\ ~life.closed
    /\ Goto(t, "read")
    /\ UNCHANGED <<table, queue, hand, view, cache, life, accepted, failed>>

\* record_outcome: the label is stored, then the scene is evaluated.
Label(t, e, label) ==
    /\ pc[t] = "idle"
    /\ ~life.closed
    /\ e \in Rows
    /\ table' = [table EXCEPT ![e] = label]
    /\ Goto(t, "read")
    /\ UNCHANGED <<queue, hand, view, cache, life, accepted, failed>>

Request(t) == Evaluate(t) \/ \E e \in Events, label \in Labels : Label(t, e, label)
Evaluation(t) == ReadRows(t) \/ ReadFails(t) \/ Store(t) \/ Publish(t)

-----------------------------------------------------------------------------
(* The worker.                                                             *)

Check ==
    /\ pc[Worker] = "check"
    /\ Goto(Worker, IF life.stop THEN "exit" ELSE "get")
    /\ UNCHANGED <<table, queue, hand, view, cache, life, accepted, failed>>

Take ==
    /\ pc[Worker] = "get"
    /\ queue # <<>>
    /\ hand' = Head(queue)
    /\ queue' = Tail(queue)
    /\ Goto(Worker, "persist")
    /\ UNCHANGED <<table, view, cache, life, accepted, failed>>

\* Waiting for an observation times out ...
FindEmpty ==
    /\ pc[Worker] = "get"
    /\ queue = <<>>
    /\ Goto(Worker, "empty")
    /\ UNCHANGED <<table, queue, hand, view, cache, life, accepted, failed>>

\* ... and only then close is looked for.
LeaveIfClosing ==
    /\ pc[Worker] = "empty"
    /\ Goto(Worker, IF life.closing THEN "exit" ELSE "check")
    /\ UNCHANGED <<table, queue, hand, view, cache, life, accepted, failed>>

\* INSERT OR IGNORE; the database may fail.
Persist ==
    /\ pc[Worker] = "persist"
    /\ \/ hand \notin Rows /\ table' = [table EXCEPT ![hand] = "unlabelled"]
                           /\ Goto(Worker, "register")
       \/ hand \in Rows /\ Goto(Worker, "snapshot") /\ UNCHANGED table
       \/ Goto(Worker, "fail") /\ UNCHANGED table
    /\ UNCHANGED <<queue, hand, view, cache, life, accepted, failed>>

Register ==
    /\ pc[Worker] = "register"
    /\ cache' = [cache EXCEPT !.lag = @ + 1]
    /\ Goto(Worker, "snapshot")
    /\ UNCHANGED <<table, queue, hand, view, life, accepted, failed>>

\* Mutant of Stale: the age of the evaluation does not count.
StaleByCount == cache.status = "none" \/ cache.lag >= Interval

Stale == cache.status = "none" \/ cache.lag >= Interval \/ cache.aged

\* _runtime_scene_snapshot: evaluate, or publish the last evaluation again.
RuntimeSnapshot ==
    /\ pc[Worker] = "snapshot"
    /\ \/ Stale /\ Goto(Worker, "read") /\ UNCHANGED view
       \/ ~Stale /\ view' = [view EXCEPT ![Worker] = cache.status] /\ Goto(Worker, "publish")
    /\ UNCHANGED <<table, queue, hand, cache, life, accepted, failed>>

\* processed is counted, task_done.
Done ==
    /\ pc[Worker] = "done"
    /\ hand' = NoEvent
    /\ Goto(Worker, "check")
    /\ UNCHANGED <<table, queue, view, cache, life, accepted, failed>>

\* Mutant of Fail: the worker goes on with the next observation.
FailAndContinue ==
    /\ pc[Worker] = "fail"
    /\ Goto(Worker, "done")
    /\ UNCHANGED <<table, queue, hand, view, cache, life, accepted, failed>>

Fail ==
    /\ pc[Worker] = "fail"
    /\ life' = [life EXCEPT !.failed = TRUE]
    /\ failed' = failed \cup {hand}
    /\ Goto(Worker, "abandon")
    /\ UNCHANGED <<table, queue, hand, view, cache, accepted>>

\* The finally clause: task_done.
Abandon ==
    /\ pc[Worker] = "abandon"
    /\ hand' = NoEvent
    /\ Goto(Worker, "exit")
    /\ UNCHANGED <<table, queue, view, cache, life, accepted, failed>>

\* The outer finally clause: a worker nobody has stopped has failed, and it
\* asks whether close has left the connection to it.
Exit ==
    /\ pc[Worker] = "exit"
    /\ life' = [life EXCEPT !.failed = @ \/ ~(life.closing \/ life.stop)]
    /\ Goto(Worker, IF life.finalize THEN "finalize" ELSE "ending")
    /\ UNCHANGED <<table, queue, hand, view, cache, accepted, failed>>

Finalize ==
    /\ pc[Worker] = "finalize"
    /\ life' = [life EXCEPT !.closed = TRUE]
    /\ Goto(Worker, "ending")
    /\ UNCHANGED <<table, queue, hand, view, cache, accepted, failed>>

End ==
    /\ pc[Worker] = "ending"
    /\ Goto(Worker, "dead")
    /\ UNCHANGED <<table, queue, hand, view, cache, life, accepted, failed>>

WorkerStep ==
    \/ Check \/ Take \/ FindEmpty \/ LeaveIfClosing
    \/ Persist \/ Register \/ RuntimeSnapshot \/ Evaluation(Worker) \/ Done
    \/ Fail \/ Abandon \/ Exit \/ Finalize \/ End

-----------------------------------------------------------------------------
(* close, and time.                                                        *)

CloserGoto(label) == life' = [life EXCEPT !.closer = label]

Close ==
    /\ life.closer = "open"
    /\ life' = [life EXCEPT !.accepting = FALSE, !.closing = TRUE, !.closer = "drain"]
    /\ UNCHANGED <<table, queue, hand, pc, view, cache, accepted, failed>>

Drained == Unfinished = 0 \/ Dead \/ life.late

Drain ==
    /\ life.closer = "drain"
    /\ Drained
    /\ CloserGoto("leave")
    /\ UNCHANGED <<table, queue, hand, pc, view, cache, accepted, failed>>

LeaveConnection ==
    /\ life.closer = "leave"
    /\ life' = [life EXCEPT !.finalize = TRUE, !.closer = "stop"]
    /\ UNCHANGED <<table, queue, hand, pc, view, cache, accepted, failed>>

Stop ==
    /\ life.closer = "stop"
    /\ life' = [life EXCEPT !.stop = TRUE, !.closer = "join"]
    /\ UNCHANGED <<table, queue, hand, pc, view, cache, accepted, failed>>

\* Mutant of Join: the connection is closed whether the worker lives or not.
JoinAndClose ==
    /\ life.closer = "join"
    /\ Dead \/ life.late
    /\ life' = [life EXCEPT !.closer = "closed", !.timedOut = ~Dead \/ Unfinished > 0,
                            !.closed = TRUE]
    /\ UNCHANGED <<table, queue, hand, pc, view, cache, accepted, failed>>

\* Mutant of Join: a dead worker counts as a drained queue.
JoinWithoutCount ==
    /\ life.closer = "join"
    /\ Dead \/ life.late
    /\ life' = [life EXCEPT !.closer = "closed", !.timedOut = ~Dead, !.closed = @ \/ Dead]
    /\ UNCHANGED <<table, queue, hand, pc, view, cache, accepted, failed>>

\* A worker that is alive at the deadline closes the connection itself.
Join ==
    /\ life.closer = "join"
    /\ Dead \/ life.late
    /\ life' = [life EXCEPT !.closer = "closed", !.timedOut = ~Dead \/ Unfinished > 0,
                            !.closed = @ \/ Dead]
    /\ UNCHANGED <<table, queue, hand, pc, view, cache, accepted, failed>>

CloserStep == Drain \/ LeaveConnection \/ Stop \/ Join

DeadlinePasses ==
    /\ life.closer \notin {"open", "closed"}
    /\ ~life.late
    /\ life' = [life EXCEPT !.late = TRUE]
    /\ UNCHANGED <<table, queue, hand, pc, view, cache, accepted, failed>>

\* evaluation_max_staleness_ms have passed since the last evaluation.
Age ==
    /\ cache.status # "none" /\ ~cache.aged
    /\ cache' = [cache EXCEPT !.aged = TRUE]
    /\ UNCHANGED <<table, queue, hand, pc, view, life, accepted, failed>>

Next ==
    \/ \E e \in Events : Observe(e)
    \/ \E t \in Requests : Request(t) \/ Evaluation(t)
    \/ WorkerStep
    \/ Close \/ CloserStep
    \/ DeadlinePasses \/ Age

Spec == Init /\ [][Next]_vars

\* Threads run and time passes; nobody has to ask, to observe or to close,
\* and a call of the worker to the database need not return.
InDatabase == pc[Worker] \in {"persist", "read"}

Fairness ==
    /\ WF_vars(WorkerStep /\ ~InDatabase)
    /\ \A t \in Requests : WF_vars(Evaluation(t))
    /\ WF_vars(CloserStep)
    /\ WF_vars(DeadlinePasses)
    /\ WF_vars(Age)

FairSpec == Spec /\ Fairness

-----------------------------------------------------------------------------
WorkerLabels == {"check", "get", "empty", "persist", "register", "snapshot", "read", "store",
                 "publish", "done", "fail", "abandon", "exit", "finalize", "ending", "dead"}

(* Type invariant.                                                         *)
TypeOK ==
    /\ table \in [Events -> {"absent", "unlabelled"} \cup Labels]
    /\ queue \in Seq(Events) /\ Len(queue) <= Capacity
    /\ hand \in Events \cup {NoEvent}
    /\ pc \in [Threads -> {"idle"} \cup WorkerLabels]
    /\ view \in [Threads -> Statuses]
    /\ cache \in [status: Statuses, published: Statuses, lag: Nat, aged: BOOLEAN]
    /\ life \in [accepting: BOOLEAN, closing: BOOLEAN, stop: BOOLEAN, failed: BOOLEAN,
                 finalize: BOOLEAN, closed: BOOLEAN, late: BOOLEAN, timedOut: BOOLEAN,
                 closer: {"open", "drain", "leave", "stop", "join", "closed"}]
    /\ accepted \subseteq Events
    /\ failed \subseteq Events

(* What was accepted is stored, waiting, in work or counted as failed: at  *)
(* no point of the worker's failure or of a close that runs out of time    *)
(* does an observation drop out of deferred_snapshot.                      *)
AcceptedIsVisible ==
    \A e \in accepted :
        \/ e \in Rows \cup failed
        \/ e = hand
        \/ \E i \in 1..Len(queue) : queue[i] = e

(* The worker never finds its connection closed: close leaves it alone     *)
(* until the worker is gone, or leaves closing it to the worker.           *)
WorkerHasConnection ==
    pc[Worker] \in {"persist", "register", "snapshot", "read", "store", "publish"} => ~life.closed

(* A close that does not report a timeout has drained the queue, closed    *)
(* the connection and left no observation behind.                          *)
OnTimeCloseDrains ==
    life.closer = "closed" /\ ~life.timedOut =>
        life.closed /\ accepted \subseteq Rows \cup failed

(* No observation is queued for a worker that has left its loop: requests  *)
(* fail closed before the worker ends (observe_deferred).                  *)
NobodyQueuesForTheDead ==
    [][Len(queue') > Len(queue) => pc[Worker] \notin {"exit", "finalize", "ending", "dead"}]_vars

(* If the database always returns, an accepted observation is stored in    *)
(* the end, unless the worker has failed, which every later request is     *)
(* told, or the monitor is closed.                                         *)
AcceptedIsStored ==
    []<>~InDatabase =>
        \A e \in Events : e \in accepted ~> e \in Rows \/ life.failed \/ life.closing

(* Whatever evaluations overtook each other, once the labels stay as they  *)
(* are, nobody evaluates on demand and observations keep coming, the       *)
(* published status ends up at the verdict on the rows.                    *)
StatusCatchesUp ==
    \A status \in Statuses :
        (/\ <>[](Verdict = status /\ \A t \in Requests : pc[t] = "idle")
         /\ []<>(pc[Worker] = "done"))
        => <>[](cache.published = status)

=============================================================================
