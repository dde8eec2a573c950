---------------------------- MODULE ReviewDelivery ----------------------------
(***************************************************************************)
(* From the SQLite outbox to a closed review: the rows of the outbox, the  *)
(* rows that poll for a late result, the review lifecycle in a database of *)
(* its own, and the flushes (flush_pending) that move them along.          *)
(*                                                                         *)
(* A flush sweeps expired polls, claims polls and rows under a lease,      *)
(* prepares the lifecycle, asks the cloud, settles the lifecycle of every  *)
(* item, writes the outcome back to the outbox and closes the reviews      *)
(* whose wait is over.  The background worker and POST /flush run it side  *)
(* by side.  Every transaction is one action; the process may stop before  *)
(* or after each of them.                                                  *)
(*                                                                         *)
(* Abstractions: clocks become the actions of the last section; a batch    *)
(* takes everything that is due; replies to the items of one batch are     *)
(* taken apart, which allows every outcome of the batch and more.          *)
(***************************************************************************)
EXTENDS Naturals, FiniteSets

CONSTANTS
  Events,         \* cloud submissions
  Regular,        \* those the cloud answers at once (operation coordinate)
  SyncEvents,     \* those whose request may wait for the cloud
  Unrecoverable,  \* those whose lifecycle row cannot be recovered
  Rejected,       \* summaries the cloud refuses: their group has another member
  Flushers,       \* threads that run flush_pending
  MaxCrashes      \* bound: how often the process stops

ASSUME EventsAssumption ==
  /\ Regular \subseteq Events /\ Rejected \subseteq Events \ Regular
  /\ SyncEvents \subseteq Events /\ Unrecoverable \subseteq Events
ASSUME MaxCrashesAssumption == MaxCrashes \in Nat

VARIABLES
  row,         \* event -> state of its outbox row; "later" and "due" are pending
  submitted,   \* events with aggregation_wait_started_at_ms
  waited,      \* submitted events whose wait window is over
  leases,      \* sets of rows whose common lease runs
  poll,        \* event -> state of its reconciliation row
  overdue,     \* events whose reconciliation deadline has passed
  pollLeases,  \* sets of reconciliation rows whose common lease runs
  life,        \* event -> lifecycle: open states, or the stage it was closed at
  cloud,       \* event -> what the cloud knows and would answer
  call,        \* event -> where the request that waits for the cloud is
  pc,          \* flusher -> how far it has got
  item,        \* flusher -> event -> what became of it in this flush
  polls,       \* flusher -> events it polls for
  crashes

rowVars == <<row, submitted, waited, leases>>
pollVars == <<poll, overdue, pollLeases>>
flushVars == <<pc, item, polls>>
vars == <<rowVars, pollVars, life, cloud, call, flushVars, crashes>>

RowStates == {"absent", "later", "due", "inflight", "completed"}
Active == {"later", "due", "inflight"}
Closed == {"partial", "local", "final"}
Replies == {"error", "broken", "held", "partial", "final"}
Verdicts == {"complete", "retry", "wait", "partialWait"}
Closing == {"closePartial", "closeLocal"}

TypeOK ==
  /\ row \in [Events -> RowStates]
  /\ submitted \subseteq Events
  /\ waited \subseteq submitted
  /\ leases \subseteq SUBSET Events
  /\ poll \in [Events -> RowStates]
  /\ overdue \subseteq Events
  /\ pollLeases \subseteq SUBSET Events
  /\ life \in [Events -> {"absent", "queued", "inflight"} \cup Closed]
  /\ cloud \in [Events -> {"unknown", "held", "partial", "final"}]
  /\ call \in [Events -> {"idle", "asking", "append", "appendMark", "mark"}]
  /\ pc \in [Flushers -> {"idle", "swept", "polled", "claimed", "working"}]
  /\ item \in [Flushers -> [Events -> {"none", "ask", "done"} \cup Replies \cup Verdicts \cup Closing]]
  /\ polls \in [Flushers -> SUBSET Events]
  /\ crashes \in 0 .. MaxCrashes

NoItems == [e \in Events |-> "none"]

Init ==
  /\ row = [e \in Events |-> "absent"]
  /\ submitted = {} /\ waited = {} /\ leases = {}
  /\ poll = [e \in Events |-> "absent"]
  /\ overdue = {} /\ pollLeases = {}
  /\ life = [e \in Events |-> "absent"]
  /\ cloud = [e \in Events |-> "unknown"]
  /\ call = [e \in Events |-> "idle"]
  /\ pc = [f \in Flushers |-> "idle"]
  /\ item = [f \in Flushers |-> NoItems]
  /\ polls = [f \in Flushers |-> {}]
  /\ crashes = 0

-----------------------------------------------------------------------------
(* Helpers on rows, reviews and the cloud.                                 *)

\* f with value v for every event of S.
Assign(f, S, v) == [e \in Events |-> IF e \in S THEN v ELSE f[e]]

\* lease_until_ms=NULL for the rows of S.
Unlease(L, S) == { l \ S : l \in L } \ {{}}

\* Mutant of Ready: a claim takes rows whose lease still runs.
ReadyInLease(r, L) == { e \in Events : r[e] \in {"due", "inflight"} }

\* Rows a claim takes: due ones, and those whose lease has run out.
Ready(r, L) == { e \in Events : r[e] = "due" \/ (r[e] = "inflight" /\ e \notin UNION L) }

\* Mutant of Requeued: the update lacks state!='completed'.
RequeuedAlways(l) == IF l = "absent" THEN l ELSE "queued"

\* ReviewLifecycleStore.queue, start, waiting and retry, complete.
Queued(l) == IF l = "absent" THEN "queued" ELSE l
Started(l) == IF l \in Closed \cup {"absent"} THEN l ELSE "inflight"
Requeued(l) == IF l \in Closed \cup {"absent"} THEN l ELSE "queued"
Completed(l, stage) == IF l = "absent" THEN l ELSE stage

\* A summary is stored with its group; a regular event is decided at once.
Accepted(e) ==
  IF e \in Regular THEN "final" ELSE IF cloud[e] = "unknown" THEN "held" ELSE cloud[e]

-----------------------------------------------------------------------------
(* Requests.                                                               *)

\* A submission that does not wait for the cloud reaches the outbox, from the
\* handoff or from the request itself; only the latter queues the review.
AppendRow(e) ==
  /\ call[e] = "idle" /\ row[e] = "absent" /\ life[e] \notin Closed
  /\ row' = [row EXCEPT ![e] = "due"]
  /\ UNCHANGED <<submitted, waited, leases, pollVars, life, cloud, call, flushVars, crashes>>

QueueReview(e) ==
  /\ row[e] # "absent" /\ life[e] = "absent"
  /\ e \notin Unrecoverable
  /\ life' = [life EXCEPT ![e] = Queued(@)]
  /\ UNCHANGED <<rowVars, pollVars, cloud, call, flushVars, crashes>>

\* A request that waits for the cloud queues and starts its review first.
\* Repeats are answered by the idempotency store, unless the first was lost.
SyncBegin(e) ==
  /\ e \in SyncEvents /\ call[e] = "idle"
  /\ row[e] = "absent" /\ life[e] \notin Closed
  /\ life' = [life EXCEPT ![e] = Started(Queued(@))]
  /\ call' = [call EXCEPT ![e] = "asking"]
  /\ UNCHANGED <<rowVars, pollVars, cloud, flushVars, crashes>>

\* A summary is accepted first; the request then polls for the group's result.
SyncSubmit(e) ==
  /\ call[e] = "asking" /\ cloud[e] = "unknown" /\ e \notin Regular \cup Rejected
  /\ cloud' = [cloud EXCEPT ![e] = Accepted(e)]
  /\ UNCHANGED <<rowVars, pollVars, life, call, flushVars, crashes>>

SyncFinal(e) ==
  /\ call[e] = "asking" /\ Accepted(e) = "final"
  /\ cloud' = [cloud EXCEPT ![e] = "final"]
  /\ life' = [life EXCEPT ![e] = Completed(@, "final")]
  /\ call' = [call EXCEPT ![e] = "idle"]
  /\ UNCHANGED <<rowVars, pollVars, flushVars, crashes>>

\* The group is not complete in time.
SyncWaits(e) ==
  /\ call[e] = "asking" /\ cloud[e] # "unknown" /\ e \notin Regular
  /\ life' = [life EXCEPT ![e] = Requeued(@)]
  /\ call' = [call EXCEPT ![e] = "appendMark"]
  /\ UNCHANGED <<rowVars, pollVars, cloud, flushVars, crashes>>

\* Mutant of SyncFails: the review is requeued, the row is not appended.
SyncFailsUnqueued(e) ==
  /\ call[e] = "asking"
  /\ life' = [life EXCEPT ![e] = Requeued(@)]
  /\ call' = [call EXCEPT ![e] = "idle"]
  /\ UNCHANGED <<rowVars, pollVars, cloud, flushVars, crashes>>

\* The call fails or comes too late; the cloud may have decided the event.
SyncFails(e) ==
  /\ call[e] = "asking"
  /\ cloud' \in {cloud, IF e \in Regular THEN [cloud EXCEPT ![e] = Accepted(e)] ELSE cloud}
  /\ life' = [life EXCEPT ![e] = Requeued(@)]
  /\ call' = [call EXCEPT ![e] = "append"]
  /\ UNCHANGED <<rowVars, pollVars, flushVars, crashes>>

SyncAppend(e) ==
  /\ call[e] \in {"append", "appendMark"}
  /\ row' = [row EXCEPT ![e] = IF @ = "absent" THEN "due" ELSE @]
  /\ call' = [call EXCEPT ![e] = IF @ = "appendMark" THEN "mark" ELSE "idle"]
  /\ UNCHANGED <<submitted, waited, leases, pollVars, life, cloud, flushVars, crashes>>

\* mark_aggregation_submitted: the wait window starts here at the latest.
SyncMark(e) ==
  /\ call[e] = "mark"
  /\ submitted' = submitted \cup {e}
  /\ call' = [call EXCEPT ![e] = "idle"]
  /\ UNCHANGED <<row, waited, leases, pollVars, life, cloud, flushVars, crashes>>

-----------------------------------------------------------------------------
(* A flush: claiming.                                                      *)

HasWork == \E e \in Events : row[e] \in Active \/ poll[e] \in Active

\* sweep_expired_reconciliation.
Sweep(f) ==
  LET expired == { e \in overdue : poll[e] \in Active } IN
  /\ pc[f] = "idle" /\ HasWork
  /\ poll' = Assign(poll, expired, "completed")
  /\ pollLeases' = Unlease(pollLeases, expired)
  /\ pc' = [pc EXCEPT ![f] = "swept"]
  /\ UNCHANGED <<rowVars, overdue, life, cloud, call, item, polls, crashes>>

ClaimPolls(f) ==
  LET ready == Ready(poll, pollLeases) \ overdue IN
  /\ pc[f] = "swept"
  /\ poll' = Assign(poll, ready, "inflight")
  /\ pollLeases' = (pollLeases \cup {ready}) \ {{}}
  /\ item' = [item EXCEPT ![f] = Assign(@, ready, "ask")]
  /\ polls' = [polls EXCEPT ![f] = ready]
  /\ pc' = [pc EXCEPT ![f] = "polled"]
  /\ UNCHANGED <<rowVars, overdue, life, cloud, call, crashes>>

ClaimRows(f) ==
  LET ready == Ready(row, leases) IN
  /\ pc[f] = "polled"
  /\ row' = Assign(row, ready, "inflight")
  /\ leases' = (leases \cup {ready}) \ {{}}
  /\ item' = [item EXCEPT ![f] = Assign(@, ready, "ask")]
  /\ pc' = [pc EXCEPT ![f] = IF ready \cup polls[f] = {} THEN "idle" ELSE "claimed"]
  /\ UNCHANGED <<submitted, waited, pollVars, life, cloud, call, polls, crashes>>

Batch(f) == { e \in Events : item[f][e] # "none" }

\* The lifecycle rows of the batch are recovered and started.
Prepare(f) ==
  /\ pc[f] = "claimed"
  /\ Batch(f) \cap Unrecoverable = {}
  /\ life' = [e \in Events |-> IF e \in Batch(f) THEN Started(Queued(life[e])) ELSE life[e]]
  /\ pc' = [pc EXCEPT ![f] = "working"]
  /\ UNCHANGED <<rowVars, pollVars, cloud, call, item, polls, crashes>>

\* A row that cannot be recovered, or an error of the lifecycle database, ends
\* the flush for the whole batch; what was claimed stays leased.
PrepareFails(f) ==
  /\ pc[f] = "claimed"
  /\ \E S \in SUBSET (Batch(f) \ Unrecoverable) :
       life' = [e \in Events |-> IF e \in S THEN Queued(life[e]) ELSE life[e]]
  /\ pc' = [pc EXCEPT ![f] = "idle"]
  /\ item' = [item EXCEPT ![f] = NoItems]
  /\ polls' = [polls EXCEPT ![f] = {}]
  /\ UNCHANGED <<rowVars, pollVars, cloud, call, crashes>>

-----------------------------------------------------------------------------
(* A flush: asking the cloud and settling the lifecycle.                   *)

\* Summaries the cloud has not acknowledged are submitted, others are only
\* looked up, which fails when the cloud knows nothing of them.
Submits(f, e) == e \notin submitted \cup polls[f]

\* New summaries travel in one call, which fails as a whole when one of them
\* is refused.
Refused(f, e) ==
  /\ Submits(f, e) /\ e \notin Regular
  /\ \E g \in Rejected : item[f][g] # "none" /\ Submits(f, g)

Ask(f, e) ==
  /\ pc[f] = "working" /\ item[f][e] = "ask"
  /\ ~Refused(f, e)
  /\ Submits(f, e) \/ cloud[e] # "unknown"
  /\ cloud' = IF Submits(f, e) THEN [cloud EXCEPT ![e] = Accepted(e)] ELSE cloud
  /\ item' = [item EXCEPT ![f][e] = cloud'[e]]
  /\ UNCHANGED <<rowVars, pollVars, life, call, pc, polls, crashes>>

\* No usable answer, although the cloud may have accepted the summary; or a
\* coordination that lacks the decision of a later event of the batch.
AskFails(f, e) ==
  /\ pc[f] = "working" /\ item[f][e] = "ask"
  /\ \/ /\ \/ UNCHANGED cloud
           \/ /\ Submits(f, e) /\ e \notin Rejected
              /\ cloud' = [cloud EXCEPT ![e] = Accepted(e)]
        /\ item' = [item EXCEPT ![f][e] = "error"]
     \/ /\ e \in Regular
        /\ cloud' = [cloud EXCEPT ![e] = Accepted(e)]
        /\ item' = [item EXCEPT ![f][e] = "broken"]
  /\ UNCHANGED <<rowVars, pollVars, life, call, pc, polls, crashes>>

\* Mutant of Verdict: a failed call counts as waiting for peers.
VerdictErrorWaits(f, e) ==
  CASE item[f][e] = "final" -> "complete"
    [] item[f][e] = "partial" /\ e \notin polls[f] -> "partialWait"
    [] OTHER -> "wait"

\* What becomes of an item: a poll that found nothing final leaves the review
\* alone, a row puts it back to queued.
Verdict(f, e) ==
  CASE item[f][e] = "final" -> "complete"
    [] item[f][e] \in {"error", "broken"} -> "retry"
    [] item[f][e] = "partial" /\ e \notin polls[f] -> "partialWait"
    [] OTHER -> "wait"

\* Mutant of Reviewed: the evidence need not be complete.
ReviewedPartial(f, e) ==
  IF item[f][e] \in {"final", "broken", "partial"} THEN Completed(life[e], "final")
  ELSE IF e \in polls[f] THEN life[e] ELSE Requeued(life[e])

Reviewed(f, e) ==
  IF item[f][e] \in {"final", "broken"} THEN Completed(life[e], "final")
  ELSE IF e \in polls[f] THEN life[e] ELSE Requeued(life[e])

Settle(f, e) ==
  /\ pc[f] = "working" /\ item[f][e] \in Replies
  /\ life' = [life EXCEPT ![e] = Reviewed(f, e)]
  /\ item' = [item EXCEPT ![f][e] = Verdict(f, e)]
  /\ UNCHANGED <<rowVars, pollVars, cloud, call, pc, polls, crashes>>

-----------------------------------------------------------------------------
(* A flush: the outcome is written back, one transaction per kind.         *)

Settled(f) == pc[f] = "working" /\ \A e \in Events : item[f][e] \notin {"ask"} \cup Replies

RowsWith(f, v) == { e \in Events \ polls[f] : item[f][e] = v }
PollsWith(f, v) == { e \in polls[f] : item[f][e] = v }

Acknowledge(f) ==
  LET ids == RowsWith(f, "complete") IN
  /\ Settled(f) /\ ids # {}
  /\ row' = Assign(row, ids, "completed")
  /\ leases' = Unlease(leases, ids)
  /\ item' = [item EXCEPT ![f] = Assign(@, ids, "done")]
  /\ UNCHANGED <<submitted, waited, pollVars, life, cloud, call, pc, polls, crashes>>

AcknowledgePolls(f) ==
  LET ids == PollsWith(f, "complete") IN
  /\ Settled(f) /\ ids # {}
  /\ poll' = Assign(poll, ids, "completed")
  /\ pollLeases' = Unlease(pollLeases, ids)
  /\ item' = [item EXCEPT ![f] = Assign(@, ids, "done")]
  /\ UNCHANGED <<rowVars, overdue, life, cloud, call, pc, polls, crashes>>

Release(f) ==
  LET ids == RowsWith(f, "retry") IN
  /\ Settled(f) /\ ids # {}
  /\ row' = Assign(row, ids, "later")
  /\ leases' = Unlease(leases, ids)
  /\ item' = [item EXCEPT ![f] = Assign(@, ids, "done")]
  /\ UNCHANGED <<submitted, waited, pollVars, life, cloud, call, pc, polls, crashes>>

\* Mutant of Expired: every answer starts the window afresh.
ExpiredNever(ids) == {}

\* defer_aggregation_wait: the window starts with the first answer; when it is
\* over the row is completed and a poll for the late result takes its place.
Expired(ids) == ids \cap submitted \cap waited

DeferRows(f, v, closing) ==
  LET ids == RowsWith(f, v) IN
  /\ Settled(f) /\ ids # {}
  /\ row' = [e \in Events |-> IF e \in Expired(ids) THEN "completed"
                              ELSE IF e \in ids THEN "later" ELSE row[e]]
  /\ leases' = Unlease(leases, ids)
  /\ submitted' = submitted \cup ids
  /\ poll' = Assign(poll, Expired(ids), "later")
  /\ overdue' = overdue \ Expired(ids)
  /\ pollLeases' = Unlease(pollLeases, Expired(ids))
  /\ item' = [item EXCEPT ![f] = [e \in Events |-> IF e \in Expired(ids) THEN closing
                                                   ELSE IF e \in ids THEN "done" ELSE @[e]]]
  /\ UNCHANGED <<waited, life, cloud, call, pc, polls, crashes>>

Defer(f) == DeferRows(f, "wait", "closeLocal") \/ DeferRows(f, "partialWait", "closePartial")

\* Mutant of DeferPolls: a poll is made only once.
DeferPollsOnce(f, v) ==
  LET ids == PollsWith(f, v) IN
  /\ Settled(f) /\ ids # {}
  /\ poll' = Assign(poll, ids, "completed")
  /\ pollLeases' = Unlease(pollLeases, ids)
  /\ item' = [item EXCEPT ![f] = Assign(@, ids, "done")]
  /\ UNCHANGED <<rowVars, overdue, life, cloud, call, pc, polls, crashes>>

\* defer_reconciliation, release_reconciliation.
DeferPolls(f, v) ==
  LET ids == PollsWith(f, v) IN
  /\ Settled(f) /\ ids # {}
  /\ poll' = [e \in Events |-> IF e \in ids \cap overdue THEN "completed"
                               ELSE IF e \in ids THEN "later" ELSE poll[e]]
  /\ pollLeases' = Unlease(pollLeases, ids)
  /\ item' = [item EXCEPT ![f] = Assign(@, ids, "done")]
  /\ UNCHANGED <<rowVars, overdue, life, cloud, call, pc, polls, crashes>>

Booked(f) == Settled(f) /\ \A e \in Events : item[f][e] \notin Verdicts

\* The reviews of rows whose wait is over are closed one by one.
CloseReview(f, e) ==
  /\ Booked(f) /\ item[f][e] \in Closing
  /\ life' = [life EXCEPT ![e] =
                Completed(@, IF item[f][e] = "closePartial" THEN "partial" ELSE "local")]
  /\ item' = [item EXCEPT ![f][e] = "done"]
  /\ UNCHANGED <<rowVars, pollVars, cloud, call, pc, polls, crashes>>

Finish(f) ==
  /\ Booked(f) /\ \A e \in Events : item[f][e] \in {"none", "done"}
  /\ pc' = [pc EXCEPT ![f] = "idle"]
  /\ item' = [item EXCEPT ![f] = NoItems]
  /\ polls' = [polls EXCEPT ![f] = {}]
  /\ UNCHANGED <<rowVars, pollVars, life, cloud, call, crashes>>

-----------------------------------------------------------------------------
(* Time, the other edges, and crashes.                                     *)

RowDue(e) ==
  /\ row[e] = "later"
  /\ row' = [row EXCEPT ![e] = "due"]
  /\ UNCHANGED <<submitted, waited, leases, pollVars, life, cloud, call, flushVars, crashes>>

PollDue(e) ==
  /\ poll[e] = "later"
  /\ poll' = [poll EXCEPT ![e] = "due"]
  /\ UNCHANGED <<rowVars, overdue, pollLeases, life, cloud, call, flushVars, crashes>>

WindowCloses(e) ==
  /\ e \in submitted \ waited /\ row[e] \in Active
  /\ waited' = waited \cup {e}
  /\ UNCHANGED <<row, submitted, leases, pollVars, life, cloud, call, flushVars, crashes>>

DeadlinePasses(e) ==
  /\ poll[e] \in Active /\ e \notin overdue
  /\ overdue' = overdue \cup {e}
  /\ UNCHANGED <<rowVars, poll, pollLeases, life, cloud, call, flushVars, crashes>>

\* A flush is over long before its leases are.
Held(f) == { e \in Events : item[f][e] \in {"ask"} \cup Replies \cup Verdicts }

LeaseEnds(l) ==
  /\ l \in leases /\ \A f \in Flushers : Held(f) \cap l \subseteq polls[f]
  /\ leases' = leases \ {l}
  /\ UNCHANGED <<row, submitted, waited, pollVars, life, cloud, call, flushVars, crashes>>

PollLeaseEnds(l) ==
  /\ l \in pollLeases /\ \A f \in Flushers : Held(f) \cap l \cap polls[f] = {}
  /\ pollLeases' = pollLeases \ {l}
  /\ UNCHANGED <<rowVars, poll, overdue, life, cloud, call, flushVars, crashes>>

\* The cloud closes the group by its timeout, or all members have arrived.
CloudAdvances(e) ==
  /\ e \notin Regular /\ cloud[e] \in {"held", "partial"}
  /\ \E result \in {"partial", "final"} : cloud' = [cloud EXCEPT ![e] = result]
  /\ UNCHANGED <<rowVars, pollVars, life, call, flushVars, crashes>>

Crash ==
  /\ crashes < MaxCrashes
  /\ crashes' = crashes + 1
  /\ call' = [e \in Events |-> "idle"]
  /\ pc' = [f \in Flushers |-> "idle"]
  /\ item' = [f \in Flushers |-> NoItems]
  /\ polls' = [f \in Flushers |-> {}]
  /\ UNCHANGED <<rowVars, pollVars, life, cloud>>

-----------------------------------------------------------------------------
FlushStep(f) ==
  \/ Sweep(f) \/ ClaimPolls(f) \/ ClaimRows(f) \/ Prepare(f) \/ PrepareFails(f)
  \/ \E e \in Events : Ask(f, e) \/ AskFails(f, e) \/ Settle(f, e) \/ CloseReview(f, e)
  \/ Acknowledge(f) \/ AcknowledgePolls(f) \/ Release(f) \/ Defer(f)
  \/ DeferPolls(f, "wait") \/ DeferPolls(f, "retry") \/ Finish(f)

CallStep(e) ==
  SyncSubmit(e) \/ SyncFinal(e) \/ SyncWaits(e) \/ SyncFails(e) \/ SyncAppend(e) \/ SyncMark(e)

RequestStep(e) == AppendRow(e) \/ QueueReview(e) \/ SyncBegin(e) \/ CallStep(e)

ClockStep(e) == RowDue(e) \/ PollDue(e) \/ WindowCloses(e) \/ DeadlinePasses(e)

Next ==
  \/ \E e \in Events : RequestStep(e) \/ ClockStep(e) \/ CloudAdvances(e)
  \/ \E f \in Flushers : FlushStep(f)
  \/ \E l \in SUBSET Events : LeaseEnds(l) \/ PollLeaseEnds(l)
  \/ Crash

Spec == Init /\ [][Next]_vars

\* The worker keeps flushing, time passes, and neither the lifecycle database
\* nor the cloud fails every time.
Fairness ==
  /\ \A f \in Flushers : WF_vars(FlushStep(f)) /\ SF_vars(Prepare(f)) /\ \A e \in Events : SF_vars(Ask(f, e))
  /\ \A e \in Events : WF_vars(RowDue(e)) /\ WF_vars(PollDue(e)) /\ WF_vars(WindowCloses(e))
                       /\ WF_vars(DeadlinePasses(e)) /\ WF_vars(CallStep(e))
  /\ \A l \in SUBSET Events : WF_vars(LeaseEnds(l)) /\ WF_vars(PollLeaseEnds(l))

FairSpec == Spec /\ Fairness

-----------------------------------------------------------------------------
(***************************************************************************)
(* Properties.                                                             *)
(***************************************************************************)

\* At-least-once delivery: no row is taken out of work before the cloud has
\* accepted its submission, whatever timed out, failed or crashed.
CompletedWasAccepted == \A e \in Events : row[e] = "completed" => cloud[e] # "unknown"

\* The cloud of this module is the one the aggregator implements: what is
\* known of a summary changes as CloudAnswer says, whoever submits it, how
\* often, and whichever answer is lost.
Cloud(e) == INSTANCE CloudAnswer WITH answer <- cloud[e]

CloudIsAnAggregator ==
  /\ \A e \in Events \ Regular : Cloud(e)!AnswerInit
  /\ [][\A e \in Events \ Regular : Cloud(e)!AnswerNext \/ UNCHANGED cloud[e]]_vars

\* A review is closed as final only with a result of the whole group.
FinalIsBacked == \A e \in Events : life[e] = "final" => cloud[e] = "final"

\* Two flushes never work on one row or on one poll.
WorkIsExclusive ==
  \A f, g \in Flushers : f # g =>
    /\ (Held(f) \ polls[f]) \cap (Held(g) \ polls[g]) = {}
    /\ Held(f) \cap polls[f] \cap Held(g) \cap polls[g] = {}

\* An open review has someone who will close it: a row in work, a request that
\* waits for the cloud, or a flush about to close it.
OpenReviewHasOwner ==
  \A e \in Events : life[e] \in {"queued", "inflight"} =>
    \/ row[e] \in Active \/ call[e] # "idle"
    \/ \E f \in Flushers : item[f][e] \in Closing

\* Reviews go from open over a provisional outcome to the final one and never
\* back.
Rank(l) == CASE l = "absent" -> 0 [] l \in {"queued", "inflight"} -> 1
             [] l \in {"partial", "local"} -> 2 [] OTHER -> 3

ReviewsOnlyImprove == [][\A e \in Events : Rank(life[e]) <= Rank(life'[e])]_vars

\* Every row leads to a closed review, save those that cannot be delivered.
EveryRowIsReviewed ==
  \A e \in Events \ (Unrecoverable \cup Rejected) : row[e] # "absent" ~> life[e] \in Closed

\* A final result that comes after the timeout still reaches the edge, unless
\* the reconciliation deadline passes first.
LateFinalIsAdopted ==
  \A e \in Events : (poll[e] \in Active /\ cloud[e] = "final") ~> (life[e] = "final" \/ e \in overdue)
=============================================================================
