----------------------------- MODULE ReviewProofs -----------------------------
(***************************************************************************)
(* Proofs about ReviewDelivery: type correctness, delivery before          *)
(* completion, final reviews backed by final results, and exclusive work.  *)
(* The second and third rest on what the items, marks and calls of an      *)
(* event say of the cloud, which never forgets; the exclusion of flushes   *)
(* is carried by leases, by the order of row and poll, and by what a flush *)
(* may hold in each phase.  Without crashes every open review has an       *)
(* owner; with one flusher outcomes only improve, and with several they    *)
(* are lost in one way only.  The cloud moves as CloudAnswer says.         *)
(***************************************************************************)
EXTENDS ReviewDelivery, TLAPS

\* Assign returns a function of the type of the one it changes.
LEMMA AssignType ==
  ASSUME NEW T, NEW g \in [Events -> T], NEW S, NEW v \in T
  PROVE  Assign(g, S, v) \in [Events -> T]
BY DEF Assign

\* Taking rows out of leases leaves sets of events.
LEMMA UnleaseType ==
  ASSUME NEW L \in SUBSET SUBSET Events, NEW S
  PROVE  Unlease(L, S) \in SUBSET SUBSET Events
BY DEF Unlease

\* The ranges of TypeOK, named.
ItemStates == {"none", "ask", "done"} \cup Replies \cup Verdicts \cup Closing
CloudStates == {"unknown", "held", "partial", "final"}

\* Giving the items of one flush the same state keeps the type of item.
LEMMA ItemsType ==
  ASSUME TypeOK, NEW f \in Flushers, NEW S, NEW v \in ItemStates
  PROVE  [item EXCEPT ![f] = Assign(@, S, v)] \in [Flushers -> [Events -> ItemStates]]
BY DEF TypeOK, Assign, ItemStates

\* Rows, polls, reviews, leases and the progress of every flush keep their
\* types: the wait window in particular only closes for submitted events.
THEOREM TypeCorrect == Spec => []TypeOK
<1>1. Init => TypeOK
  BY MaxCrashesAssumption DEF Init, TypeOK, NoItems, RowStates
<1>2. TypeOK /\ [Next]_vars => TypeOK'
  <2> SUFFICES ASSUME TypeOK, [Next]_vars PROVE TypeOK'
    OBVIOUS
  <2> USE MaxCrashesAssumption DEF rowVars, pollVars, flushVars, vars
  <2>1. ASSUME NEW e \in Events, RequestStep(e) PROVE TypeOK'
    <3>1. CASE AppendRow(e) BY <3>1 DEF AppendRow, TypeOK, RowStates
    <3>2. CASE QueueReview(e) BY <3>2 DEF QueueReview, TypeOK, Queued, Closed
    <3>3. CASE SyncBegin(e) BY <3>3 DEF SyncBegin, TypeOK, Started, Queued, Closed
    <3>4. CASE SyncSubmit(e) BY <3>4 DEF SyncSubmit, TypeOK, Accepted
    <3>5. CASE SyncFinal(e) BY <3>5 DEF SyncFinal, TypeOK, Completed, Closed
    <3>6. CASE SyncWaits(e) BY <3>6 DEF SyncWaits, TypeOK, Requeued, Closed
    <3>7. CASE SyncFails(e) BY <3>7 DEF SyncFails, TypeOK, Requeued, Closed, Accepted
    <3>8. CASE SyncAppend(e) BY <3>8 DEF SyncAppend, TypeOK, RowStates
    <3>9. CASE SyncMark(e) BY <3>9 DEF SyncMark, TypeOK
    <3> QED BY <2>1, <3>1, <3>2, <3>3, <3>4, <3>5, <3>6, <3>7, <3>8, <3>9 DEF RequestStep, CallStep
  <2>2. ASSUME NEW e \in Events, ClockStep(e) PROVE TypeOK'
    BY <2>2 DEF ClockStep, RowDue, PollDue, WindowCloses, DeadlinePasses, TypeOK, RowStates
  <2>3. ASSUME NEW e \in Events, CloudAdvances(e) PROVE TypeOK'
    BY <2>3 DEF CloudAdvances, TypeOK
  <2>4. ASSUME NEW f \in Flushers, FlushStep(f) PROVE TypeOK'
    <3>1. CASE Sweep(f)
      BY <3>1, UnleaseType DEF Sweep, TypeOK, Assign, RowStates
    <3>2. CASE ClaimPolls(f)
      BY <3>2, ItemsType DEF ClaimPolls, TypeOK, Assign, RowStates, Ready, ItemStates
    <3>3. CASE ClaimRows(f)
      BY <3>3, ItemsType DEF ClaimRows, TypeOK, Assign, RowStates, Ready, ItemStates
    <3>4. CASE Prepare(f)
      BY <3>4 DEF Prepare, TypeOK, Started, Queued, Closed
    <3>5. CASE PrepareFails(f)
      BY <3>5 DEF PrepareFails, TypeOK, Queued, Closed, NoItems
    <3>6. ASSUME NEW e \in Events, Ask(f, e) PROVE TypeOK'
      BY <3>6 DEF Ask, TypeOK, Accepted, Replies
    <3>7. ASSUME NEW e \in Events, AskFails(f, e) PROVE TypeOK'
      <4>1. cloud' \in [Events -> CloudStates]
        BY <3>7 DEF AskFails, TypeOK, Accepted, CloudStates
      <4>2. item' \in [Flushers -> [Events -> ItemStates]]
        <5>1. PICK v \in {"error", "broken"} : item' = [item EXCEPT ![f][e] = v]
          BY <3>7 DEF AskFails
        <5> QED BY <5>1 DEF TypeOK, ItemStates, Replies
      <4> QED BY <3>7, <4>1, <4>2 DEF AskFails, TypeOK, CloudStates, ItemStates
    <3>8. ASSUME NEW e \in Events, Settle(f, e) PROVE TypeOK'
      BY <3>8 DEF Settle, TypeOK, Reviewed, Verdict, Verdicts, Completed, Requeued, Closed
    <3>9. ASSUME NEW e \in Events, CloseReview(f, e) PROVE TypeOK'
      BY <3>9 DEF CloseReview, TypeOK, Completed, Closed
    <3>10. CASE Acknowledge(f)
      BY <3>10, UnleaseType, ItemsType DEF Acknowledge, TypeOK, Assign, RowStates, ItemStates
    <3>11. CASE AcknowledgePolls(f)
      BY <3>11, UnleaseType, ItemsType DEF AcknowledgePolls, TypeOK, Assign, RowStates, ItemStates
    <3>12. CASE Release(f)
      BY <3>12, UnleaseType, ItemsType DEF Release, TypeOK, Assign, RowStates, ItemStates
    <3>13. ASSUME NEW v, NEW closing \in Closing, DeferRows(f, v, closing) PROVE TypeOK'
      BY <3>13, UnleaseType DEF DeferRows, TypeOK, Assign, RowStates, RowsWith, Expired
    <3>14. ASSUME NEW v, DeferPolls(f, v) PROVE TypeOK'
      BY <3>14, UnleaseType, ItemsType DEF DeferPolls, TypeOK, RowStates, ItemStates
    <3>15. CASE Finish(f)
      BY <3>15 DEF Finish, TypeOK, NoItems
    <3> QED
      BY <2>4, <3>1, <3>2, <3>3, <3>4, <3>5, <3>6, <3>7, <3>8, <3>9, <3>10, <3>11, <3>12,
         <3>13, <3>14, <3>15 DEF FlushStep, Defer, Closing
  <2>5. ASSUME NEW l \in SUBSET Events, LeaseEnds(l) \/ PollLeaseEnds(l) PROVE TypeOK'
    BY <2>5 DEF LeaseEnds, PollLeaseEnds, TypeOK
  <2>6. CASE Crash
    BY <2>6 DEF Crash, TypeOK, NoItems
  <2>7. CASE UNCHANGED vars
    BY <2>7 DEF TypeOK
  <2> QED BY <2>1, <2>2, <2>3, <2>4, <2>5, <2>6, <2>7 DEF Next
<1> QED BY <1>1, <1>2, PTL DEF Spec

\* The cloud has the submission.
Known(e) == cloud[e] # "unknown"

\* Whatever rests on an acceptance by the cloud has one.
AcceptInv ==
  /\ \A e \in Events : row[e] = "completed" => Known(e)
  /\ \A e \in submitted : Known(e)
  /\ \A f \in Flushers, e \in Events :
       item[f][e] \in {"held", "partial", "final", "broken", "complete", "wait", "partialWait"} => Known(e)
  /\ \A e \in Events : call[e] \in {"appendMark", "mark"} => Known(e)

\* Whatever rests on a result of the whole group has one.
FinalInv ==
  /\ \A e \in Events : life[e] = "final" => cloud[e] = "final"
  /\ \A f \in Flushers, e \in Events :
       item[f][e] \in {"final", "broken"} => cloud[e] = "final"

\* Storing a summary, or deciding a regular event, makes it known to the cloud
\* and takes no final result back.
LEMMA CloudAccepts ==
  ASSUME TypeOK, NEW e \in Events, cloud' = [cloud EXCEPT ![e] = Accepted(e)]
  PROVE  /\ \A d \in Events : Known(d) => Known(d)'
         /\ \A d \in Events : cloud[d] = "final" => cloud'[d] = "final"
         /\ Known(e)'
         /\ e \in Regular => cloud'[e] = "final"
BY DEF TypeOK, Accepted, Known

\* No step of the edge or the cloud forgets a submission or a final result.
LEMMA CloudNeverForgets ==
  ASSUME TypeOK, [Next]_vars
  PROVE  \A d \in Events : (Known(d) => Known(d)') /\ (cloud[d] = "final" => cloud'[d] = "final")
<1> USE DEF rowVars, pollVars, flushVars, vars
<1>1. CASE cloud' = cloud
  BY <1>1 DEF Known
<1>2. ASSUME NEW e \in Events, cloud' = [cloud EXCEPT ![e] = Accepted(e)]
      PROVE  \A d \in Events : (Known(d) => Known(d)') /\ (cloud[d] = "final" => cloud'[d] = "final")
  BY <1>2, CloudAccepts
<1>3. ASSUME NEW e \in Events, NEW v \in {"partial", "final"}, cloud[e] # "final",
             cloud' = [cloud EXCEPT ![e] = v]
      PROVE  \A d \in Events : (Known(d) => Known(d)') /\ (cloud[d] = "final" => cloud'[d] = "final")
  BY <1>3 DEF TypeOK, Known
<1>4. ASSUME NEW e \in Events, SyncFinal(e)
      PROVE  \A d \in Events : (Known(d) => Known(d)') /\ (cloud[d] = "final" => cloud'[d] = "final")
  BY <1>4 DEF TypeOK, Known, SyncFinal
<1>5. ASSUME NEW e \in Events, RequestStep(e)
      PROVE  cloud' = cloud \/ cloud' = [cloud EXCEPT ![e] = Accepted(e)] \/ SyncFinal(e)
  BY <1>5 DEF RequestStep, CallStep, AppendRow, QueueReview, SyncBegin, SyncSubmit, SyncWaits,
              SyncFails, SyncAppend, SyncMark
<1>6. ASSUME NEW f \in Flushers, FlushStep(f)
      PROVE  cloud' = cloud \/ \E e \in Events : cloud' = [cloud EXCEPT ![e] = Accepted(e)]
  BY <1>6 DEF FlushStep, Sweep, ClaimPolls, ClaimRows, Prepare, PrepareFails, Ask, AskFails, Settle,
              CloseReview, Acknowledge, AcknowledgePolls, Release, Defer, DeferRows, DeferPolls, Finish
<1>7. ASSUME NEW e \in Events, CloudAdvances(e)
      PROVE  \E v \in {"partial", "final"} : cloud[e] # "final" /\ cloud' = [cloud EXCEPT ![e] = v]
  BY <1>7 DEF CloudAdvances
<1>8. CASE \E e \in Events : ClockStep(e)
  BY <1>1, <1>8 DEF ClockStep, RowDue, PollDue, WindowCloses, DeadlinePasses
<1>9. CASE (\E l \in SUBSET Events : LeaseEnds(l) \/ PollLeaseEnds(l)) \/ Crash \/ UNCHANGED vars
  BY <1>1, <1>9 DEF LeaseEnds, PollLeaseEnds, Crash
<1> QED
  BY <1>1, <1>2, <1>3, <1>4, <1>5, <1>6, <1>7, <1>8, <1>9 DEF Next

\* Every step keeps AcceptInv: what is booked as accepted was accepted.
LEMMA AcceptStep ==
  ASSUME TypeOK, AcceptInv, [Next]_vars
  PROVE  AcceptInv'
<1> USE DEF rowVars, pollVars, flushVars, vars
<1>0. \A d \in Events : Known(d) => Known(d)'
  BY CloudNeverForgets
<1> DEFINE Answered == {"held", "partial", "final", "broken", "complete", "wait", "partialWait"}
<1>a. /\ \A e \in Events : row[e] = "completed" => Known(e)'
      /\ \A e \in submitted : Known(e)'
      /\ \A f \in Flushers, e \in Events : item[f][e] \in Answered => Known(e)'
      /\ \A e \in Events : call[e] \in {"appendMark", "mark"} => Known(e)'
  BY <1>0 DEF AcceptInv, TypeOK
\* A step is harmless when all it adds to rows, marks, items and calls is known.
<1>b. ASSUME \A e \in Events : row'[e] = "completed" => row[e] = "completed" \/ Known(e)',
             \A e \in submitted' : e \in submitted \/ Known(e)',
             \A f \in Flushers, e \in Events : item'[f][e] \in Answered => item[f][e] \in Answered \/ Known(e)',
             \A e \in Events : call'[e] \in {"appendMark", "mark"} => call[e] \in {"appendMark", "mark"} \/ Known(e)',
             submitted' \subseteq Events
      PROVE  AcceptInv'
  BY <1>a, <1>b DEF AcceptInv, Known
<1>1. ASSUME NEW e \in Events, RequestStep(e) PROVE AcceptInv'
  <2>1. item' = item /\ \A d \in Events : row'[d] = "completed" => row[d] = "completed"
    BY <1>1 DEF TypeOK, RequestStep, CallStep, AppendRow, QueueReview, SyncBegin, SyncSubmit, SyncFinal, SyncWaits,
                SyncFails, SyncAppend, SyncMark
  <2>2. submitted' = submitted \/ (submitted' = submitted \cup {e} /\ call[e] = "mark")
    BY <1>1 DEF RequestStep, CallStep, AppendRow, QueueReview, SyncBegin, SyncSubmit, SyncFinal, SyncWaits,
                SyncFails, SyncAppend, SyncMark
  <2>3. \A d \in Events : call'[d] \in {"appendMark", "mark"} =>
          call[d] \in {"appendMark", "mark"} \/ (d = e /\ Known(e))
    BY <1>1 DEF TypeOK, RequestStep, CallStep, AppendRow, QueueReview, SyncBegin, SyncSubmit, SyncFinal, SyncWaits,
                SyncFails, SyncAppend, SyncMark, Known
  <2>4. submitted \subseteq Events
    BY DEF TypeOK
  <2> QED BY <2>1, <2>2, <2>3, <2>4, <1>0, <1>a, <1>b
<1>2. CASE \E e \in Events : ClockStep(e) \/ CloudAdvances(e)
  <2>1. /\ submitted' = submitted /\ item' = item /\ call' = call
        /\ \A d \in Events : row'[d] = "completed" => row[d] = "completed"
    BY <1>2 DEF TypeOK, ClockStep, RowDue, PollDue, WindowCloses, DeadlinePasses, CloudAdvances
  <2>2. submitted \subseteq Events
    BY DEF TypeOK
  <2> QED BY <2>1, <2>2, <1>b
<1>3. ASSUME NEW f \in Flushers, FlushStep(f) PROVE AcceptInv'
  <2>0. call' = call /\ submitted \subseteq Events
    BY <1>3 DEF TypeOK, FlushStep, Sweep, ClaimPolls, ClaimRows, Prepare, PrepareFails, Ask, AskFails, Settle,
                CloseReview, Acknowledge, AcknowledgePolls, Release, Defer, DeferRows, DeferPolls, Finish
  <2>1. CASE Sweep(f) \/ Prepare(f)
    <3>1. row' = row /\ submitted' = submitted /\ item' = item
      BY <2>1 DEF Sweep, Prepare
    <3> QED BY <3>1, <2>0, <1>b
  <2>2. ASSUME NEW S, NEW v \in {"ask", "done"}, submitted' = submitted,
               \A d \in Events : row'[d] = "completed" => row[d] = "completed" \/ Known(d)',
               item' = [item EXCEPT ![f] = Assign(@, S, v)]
        PROVE  AcceptInv'
    <3>1. \A g \in Flushers, d \in Events : item'[g][d] \in Answered => item[g][d] \in Answered
      BY <2>2 DEF TypeOK, Assign
    <3> QED BY <2>2, <3>1, <2>0, <1>b
  <2>3. CASE ClaimPolls(f)
    <3>1. row' = row /\ submitted' = submitted
          /\ item' = [item EXCEPT ![f] = Assign(@, Ready(poll, pollLeases) \ overdue, "ask")]
      BY <2>3 DEF ClaimPolls
    <3> QED BY <3>1, <2>2
  <2>4. CASE ClaimRows(f)
    <3>1. submitted' = submitted /\ item' = [item EXCEPT ![f] = Assign(@, Ready(row, leases), "ask")]
      BY <2>4 DEF ClaimRows
    <3>2. \A d \in Events : row'[d] = "completed" => row[d] = "completed"
      BY <2>4 DEF ClaimRows, Assign
    <3> QED BY <3>1, <3>2, <2>2
  <2>5. CASE PrepareFails(f) \/ Finish(f)
    <3>1. row' = row /\ submitted' = submitted /\ item' = [item EXCEPT ![f] = NoItems]
      BY <2>5 DEF PrepareFails, Finish
    <3>2. \A g \in Flushers, d \in Events : item'[g][d] \in Answered => item[g][d] \in Answered
      BY <3>1 DEF TypeOK, NoItems
    <3> QED BY <3>1, <3>2, <2>0, <1>b
  <2>6. ASSUME NEW e \in Events, NEW v, row' = row, submitted' = submitted,
               item' = [item EXCEPT ![f][e] = v], v \in Answered => Known(e)'
        PROVE  AcceptInv'
    <3>1. \A g \in Flushers, d \in Events : item'[g][d] \in Answered => item[g][d] \in Answered \/ Known(d)'
      BY <2>6 DEF TypeOK
    <3> QED BY <2>6, <3>1, <2>0, <1>b
  <2>7. ASSUME NEW e \in Events, Ask(f, e) PROVE AcceptInv'
    <3>1. row' = row /\ submitted' = submitted /\ item' = [item EXCEPT ![f][e] = cloud'[e]]
      BY <2>7 DEF Ask
    <3>2. Known(e)'
      <4>1. CASE Submits(f, e)
        BY <4>1, <2>7, CloudAccepts DEF Ask
      <4>2. CASE ~ Submits(f, e)
        BY <4>2, <2>7 DEF Ask, Known
      <4> QED BY <4>1, <4>2
    <3> QED BY <3>1, <3>2, <2>6
  <2>8. ASSUME NEW e \in Events, AskFails(f, e) PROVE AcceptInv'
    <3>1. row' = row /\ submitted' = submitted
      BY <2>8 DEF AskFails
    <3>2. PICK v : item' = [item EXCEPT ![f][e] = v] /\ (v \in Answered => cloud' = [cloud EXCEPT ![e] = Accepted(e)])
      BY <2>8 DEF AskFails
    <3> QED BY <3>1, <3>2, <2>6, CloudAccepts
  <2>9. ASSUME NEW e \in Events, Settle(f, e) PROVE AcceptInv'
    <3>1. row' = row /\ submitted' = submitted /\ item' = [item EXCEPT ![f][e] = Verdict(f, e)]
      BY <2>9 DEF Settle
    <3>2. Verdict(f, e) \in Answered => item[f][e] \in Answered
      BY <2>9 DEF Settle, Verdict, Replies
    <3> QED BY <3>1, <3>2, <2>6, <1>a
  <2>10. ASSUME NEW e \in Events, CloseReview(f, e) PROVE AcceptInv'
    <3>1. row' = row /\ submitted' = submitted /\ item' = [item EXCEPT ![f][e] = "done"]
      BY <2>10 DEF CloseReview
    <3> QED BY <3>1, <2>6
  <2>11. CASE Acknowledge(f)
    <3>1. submitted' = submitted /\ item' = [item EXCEPT ![f] = Assign(@, RowsWith(f, "complete"), "done")]
      BY <2>11 DEF Acknowledge
    <3>2. \A d \in Events : row'[d] = "completed" => row[d] = "completed" \/ item[f][d] = "complete"
      BY <2>11 DEF Acknowledge, Assign, RowsWith
    <3> QED BY <3>1, <3>2, <2>2, <1>a
  <2>12. CASE AcknowledgePolls(f)
    <3>1. row' = row /\ submitted' = submitted
          /\ item' = [item EXCEPT ![f] = Assign(@, PollsWith(f, "complete"), "done")]
      BY <2>12 DEF AcknowledgePolls
    <3> QED BY <3>1, <2>2
  <2>13. CASE Release(f)
    <3>1. submitted' = submitted /\ item' = [item EXCEPT ![f] = Assign(@, RowsWith(f, "retry"), "done")]
      BY <2>13 DEF Release
    <3>2. \A d \in Events : row'[d] = "completed" => row[d] = "completed"
      BY <2>13 DEF Release, Assign
    <3> QED BY <3>1, <3>2, <2>2
  <2>14. ASSUME NEW v \in {"wait", "partialWait"}, NEW closing \in Closing, DeferRows(f, v, closing)
         PROVE  AcceptInv'
    <3>1. \A d \in RowsWith(f, v) : d \in Events /\ Known(d)'
      BY <1>a DEF RowsWith
    <3>2. \A d \in Events : row'[d] = "completed" => row[d] = "completed" \/ d \in RowsWith(f, v)
      BY <2>14 DEF DeferRows, Expired
    <3>3. submitted' = submitted \cup RowsWith(f, v)
      BY <2>14 DEF DeferRows
    <3>4. \A g \in Flushers, d \in Events : item'[g][d] \in Answered => item[g][d] \in Answered
      BY <2>14 DEF DeferRows, TypeOK, Closing
    <3> QED BY <3>1, <3>2, <3>3, <3>4, <2>0, <1>b
  <2>15. ASSUME NEW v \in {"wait", "retry"}, DeferPolls(f, v) PROVE AcceptInv'
    <3>1. row' = row /\ submitted' = submitted /\ item' = [item EXCEPT ![f] = Assign(@, PollsWith(f, v), "done")]
      BY <2>15 DEF DeferPolls
    <3> QED BY <3>1, <2>2
  <2> QED
    BY <1>3, <2>1, <2>3, <2>4, <2>5, <2>7, <2>8, <2>9, <2>10, <2>11, <2>12, <2>13, <2>14, <2>15
    DEF FlushStep, Defer, Closing
<1>4. CASE (\E l \in SUBSET Events : LeaseEnds(l) \/ PollLeaseEnds(l)) \/ UNCHANGED vars
  <2>1. row' = row /\ submitted' = submitted /\ item' = item /\ call' = call /\ submitted \subseteq Events
    BY <1>4 DEF LeaseEnds, PollLeaseEnds, TypeOK
  <2> QED BY <2>1, <1>b
<1>5. CASE Crash
  <2>1. row' = row /\ submitted' = submitted /\ submitted \subseteq Events
    BY <1>5 DEF Crash, TypeOK
  <2>2. /\ \A f \in Flushers, e \in Events : item'[f][e] \notin Answered
        /\ \A e \in Events : call'[e] \notin {"appendMark", "mark"}
    BY <1>5 DEF Crash, NoItems
  <2> QED BY <2>1, <2>2, <1>b
<1> QED BY <1>1, <1>2, <1>3, <1>4, <1>5 DEF Next

\* Every step keeps FinalInv: what is booked as final is final in the cloud.
LEMMA FinalStep ==
  ASSUME TypeOK, FinalInv, [Next]_vars
  PROVE  FinalInv'
<1> USE DEF rowVars, pollVars, flushVars, vars
<1>0. /\ \A e \in Events : life[e] = "final" => cloud'[e] = "final"
      /\ \A f \in Flushers, e \in Events : item[f][e] \in {"final", "broken"} => cloud'[e] = "final"
  BY CloudNeverForgets DEF FinalInv
\* A step is harmless when the reviews it closes and the answers it adds are backed.
<1>b. ASSUME \A e \in Events : life'[e] = "final" => life[e] = "final" \/ cloud'[e] = "final",
             \A f \in Flushers, e \in Events : item'[f][e] \in {"final", "broken"} =>
               item[f][e] \in {"final", "broken"} \/ cloud'[e] = "final"
      PROVE  FinalInv'
  BY <1>0, <1>b DEF FinalInv
<1>1. ASSUME NEW e \in Events, RequestStep(e) PROVE FinalInv'
  <2>1. item' = item
    BY <1>1 DEF RequestStep, CallStep, AppendRow, QueueReview, SyncBegin, SyncSubmit, SyncFinal, SyncWaits,
                SyncFails, SyncAppend, SyncMark
  <2>2. \A d \in Events : life'[d] = "final" => life[d] = "final" \/ cloud'[d] = "final"
    BY <1>1 DEF TypeOK, RequestStep, CallStep, AppendRow, QueueReview, SyncBegin, SyncSubmit, SyncFinal, SyncWaits,
                SyncFails, SyncAppend, SyncMark, Queued, Started, Requeued, Completed
  <2> QED BY <2>1, <2>2, <1>b
<1>2. CASE \E e \in Events : ClockStep(e) \/ CloudAdvances(e)
  <2>1. life' = life /\ item' = item
    BY <1>2 DEF ClockStep, RowDue, PollDue, WindowCloses, DeadlinePasses, CloudAdvances
  <2> QED BY <2>1, <1>b
<1>3. ASSUME NEW f \in Flushers, FlushStep(f) PROVE FinalInv'
  <2>1. ASSUME NEW S, NEW v \in {"ask", "done"}, life' = life, item' = [item EXCEPT ![f] = Assign(@, S, v)]
        PROVE  FinalInv'
    <3>1. \A g \in Flushers, d \in Events :
            item'[g][d] \in {"final", "broken"} => item[g][d] \in {"final", "broken"}
      BY <2>1 DEF TypeOK, Assign
    <3> QED BY <2>1, <3>1, <1>b
  <2>2. CASE ClaimPolls(f) \/ ClaimRows(f)
    <3>1. CASE ClaimPolls(f)
      BY <3>1, <2>1 DEF ClaimPolls
    <3>2. CASE ClaimRows(f)
      BY <3>2, <2>1 DEF ClaimRows
    <3> QED BY <2>2, <3>1, <3>2
  <2>13. CASE Acknowledge(f) \/ AcknowledgePolls(f) \/ Release(f)
    <3>1. CASE Acknowledge(f)
      BY <3>1, <2>1 DEF Acknowledge
    <3>2. CASE AcknowledgePolls(f)
      BY <3>2, <2>1 DEF AcknowledgePolls
    <3>3. CASE Release(f)
      BY <3>3, <2>1 DEF Release
    <3> QED BY <2>13, <3>1, <3>2, <3>3
  <2>14. ASSUME NEW v, DeferPolls(f, v) PROVE FinalInv'
    BY <2>14, <2>1 DEF DeferPolls
  <2>3. CASE Sweep(f)
    <3>1. life' = life /\ item' = item
      BY <2>3 DEF Sweep
    <3> QED BY <3>1, <1>b
  <2>4. CASE Prepare(f)
    <3>1. item' = item /\ \A d \in Events : life'[d] = "final" => life[d] = "final"
      BY <2>4 DEF Prepare, Started, Queued
    <3> QED BY <3>1, <1>b
  <2>5. CASE PrepareFails(f)
    <3>1. /\ \A d \in Events : life'[d] = "final" => life[d] = "final"
          /\ item' = [item EXCEPT ![f] = NoItems]
      BY <2>5 DEF PrepareFails, Queued
    <3>2. \A g \in Flushers, d \in Events :
            item'[g][d] \in {"final", "broken"} => item[g][d] \in {"final", "broken"}
      BY <3>1 DEF TypeOK, NoItems
    <3> QED BY <3>1, <3>2, <1>b
  <2>6. CASE Finish(f)
    <3>1. life' = life /\ item' = [item EXCEPT ![f] = NoItems]
      BY <2>6 DEF Finish
    <3>2. \A g \in Flushers, d \in Events :
            item'[g][d] \in {"final", "broken"} => item[g][d] \in {"final", "broken"}
      BY <3>1 DEF TypeOK, NoItems
    <3> QED BY <3>1, <3>2, <1>b
  <2>7. ASSUME NEW e \in Events, NEW v, item' = [item EXCEPT ![f][e] = v],
               v \in {"final", "broken"} => cloud'[e] = "final",
               \A d \in Events : life'[d] = "final" => life[d] = "final" \/ cloud'[d] = "final"
        PROVE  FinalInv'
    <3>1. \A g \in Flushers, d \in Events :
            item'[g][d] \in {"final", "broken"} => item[g][d] \in {"final", "broken"} \/ cloud'[d] = "final"
      BY <2>7 DEF TypeOK
    <3> QED BY <2>7, <3>1, <1>b
  <2>8. ASSUME NEW e \in Events, Ask(f, e) PROVE FinalInv'
    <3>1. life' = life /\ item' = [item EXCEPT ![f][e] = cloud'[e]] /\ cloud'[e] # "broken"
      BY <2>8 DEF Ask, TypeOK, Accepted
    <3> QED BY <3>1, <2>7
  <2>9. ASSUME NEW e \in Events, AskFails(f, e) PROVE FinalInv'
    <3>1. life' = life
      BY <2>9 DEF AskFails
    <3>2. CASE item' = [item EXCEPT ![f][e] = "error"]
      BY <3>1, <3>2, <2>7
    <3>3. CASE e \in Regular /\ cloud' = [cloud EXCEPT ![e] = Accepted(e)] /\ item' = [item EXCEPT ![f][e] = "broken"]
      <4>1. cloud'[e] = "final"
        BY <3>3, CloudAccepts
      <4> QED BY <3>1, <3>3, <4>1, <2>7
    <3> QED BY <2>9, <3>2, <3>3 DEF AskFails
  <2>10. ASSUME NEW e \in Events, Settle(f, e) PROVE FinalInv'
    <3>1. item' = [item EXCEPT ![f][e] = Verdict(f, e)] /\ Verdict(f, e) \notin {"final", "broken"}
      BY <2>10 DEF Settle, Verdict
    <3>2. Reviewed(f, e) = "final" => life[e] = "final" \/ item[f][e] \in {"final", "broken"}
      BY DEF Reviewed, Requeued
    <3>3. \A d \in Events : life'[d] = "final" => life[d] = "final" \/ cloud'[d] = "final"
      BY <2>10, <3>2, <1>0 DEF Settle, TypeOK
    <3> QED BY <3>1, <3>3, <2>7
  <2>11. ASSUME NEW e \in Events, CloseReview(f, e) PROVE FinalInv'
    <3>1. item' = [item EXCEPT ![f][e] = "done"]
          /\ \A d \in Events : life'[d] = "final" => life[d] = "final"
      BY <2>11 DEF CloseReview, Completed, TypeOK
    <3> QED BY <3>1, <2>7
  <2>12. ASSUME NEW v, NEW closing \in Closing, DeferRows(f, v, closing) PROVE FinalInv'
    <3>1. life' = life
      BY <2>12 DEF DeferRows
    <3>2. \A g \in Flushers, d \in Events :
            item'[g][d] \in {"final", "broken"} => item[g][d] \in {"final", "broken"}
      BY <2>12 DEF DeferRows, TypeOK, Closing
    <3> QED BY <3>1, <3>2, <1>b
  <2> QED
    BY <1>3, <2>2, <2>3, <2>4, <2>5, <2>6, <2>8, <2>9, <2>10, <2>11, <2>12, <2>13, <2>14
    DEF FlushStep, Defer, Closing
<1>4. CASE (\E l \in SUBSET Events : LeaseEnds(l) \/ PollLeaseEnds(l)) \/ UNCHANGED vars
  <2>1. life' = life /\ item' = item
    BY <1>4 DEF LeaseEnds, PollLeaseEnds
  <2> QED BY <2>1, <1>b
<1>5. CASE Crash
  <2>1. life' = life /\ \A f \in Flushers, e \in Events : item'[f][e] \notin {"final", "broken"}
    BY <1>5 DEF Crash, NoItems
  <2> QED BY <2>1, <1>b
<1> QED BY <1>1, <1>2, <1>3, <1>4, <1>5 DEF Next

\* At-least-once delivery: whatever fails, times out or crashes, a row is
\* completed only after the cloud has accepted its submission.
THEOREM AcceptanceFirst == Spec => []CompletedWasAccepted
<1>1. Init => AcceptInv
  BY DEF Init, AcceptInv, NoItems
<1>2. TypeOK /\ AcceptInv /\ [Next]_vars => AcceptInv'
  BY AcceptStep
<1>3. AcceptInv => CompletedWasAccepted
  BY DEF AcceptInv, CompletedWasAccepted, Known
<1> QED BY <1>1, <1>2, <1>3, TypeCorrect, PTL DEF Spec

\* A review is closed as final only with a result of the whole group.
THEOREM FinalsAreBacked == Spec => []FinalIsBacked
<1>1. Init => FinalInv
  BY DEF Init, FinalInv, NoItems
<1>2. TypeOK /\ FinalInv /\ [Next]_vars => FinalInv'
  BY FinalStep
<1>3. FinalInv => FinalIsBacked
  BY DEF FinalInv, FinalIsBacked
<1> QED BY <1>1, <1>2, <1>3, TypeCorrect, PTL DEF Spec

\* What a flush has in hand, by kind.
HeldRows(f) == Held(f) \ polls[f]
HeldPolls(f) == Held(f) \cap polls[f]

\* Rows in hand are in flight and under a lease that still runs.
RowsAreLeased ==
  \A f \in Flushers : \A e \in HeldRows(f) : row[e] = "inflight" /\ e \in UNION leases

\* So are polls in hand, save those the sweep of another flush has completed.
PollsAreLeased ==
  \A f \in Flushers : \A e \in HeldPolls(f) :
    poll[e] = "completed" \/ (poll[e] = "inflight" /\ e \in UNION pollLeases)

\* Polling starts where the row ends, so no event is in hand as both.
PollFollowsRow ==
  /\ \A e \in Events : poll[e] # "absent" => row[e] = "completed"
  /\ \A f \in Flushers : \A e \in polls[f] : poll[e] # "absent"

\* A flush has nothing in hand before it claims.
PhaseInv ==
  \A f \in Flushers :
    /\ pc[f] \in {"idle", "swept"} => Held(f) = {} /\ polls[f] = {}
    /\ pc[f] = "polled" => Held(f) \subseteq polls[f]

\* Exclusive work rests on leases: the strengthening of WorkIsExclusive.
ExclusiveInv == RowsAreLeased /\ PollsAreLeased /\ PollFollowsRow /\ PhaseInv /\ WorkIsExclusive

\* What Unlease leaves under a lease.
LEMMA UnleaseUnion ==
  ASSUME NEW L, NEW S
  PROVE  \A e : e \in UNION Unlease(L, S) <=> e \in UNION L /\ e \notin S
<1> SUFFICES ASSUME NEW e
             PROVE  e \in UNION Unlease(L, S) <=> e \in UNION L /\ e \notin S
  OBVIOUS
<1>1. ASSUME e \in UNION Unlease(L, S) PROVE e \in UNION L /\ e \notin S
  BY <1>1 DEF Unlease
<1>2. ASSUME e \in UNION L, e \notin S PROVE e \in UNION Unlease(L, S)
  <2>1. PICK l \in L : e \in l
    BY <1>2
  <2>2. l \ S \in Unlease(L, S) /\ e \in l \ S
    BY <1>2, <2>1 DEF Unlease
  <2> QED BY <2>2
<1> QED BY <1>1, <1>2

\* A new lease covers its rows and takes no other lease away.
LEMMA AddLease ==
  ASSUME NEW L, NEW S
  PROVE  \A e : e \in UNION ((L \cup {S}) \ {{}}) <=> e \in UNION L \/ e \in S
OBVIOUS

\* Holding less, over rows and polls that did not lose their leases.
LEMMA HoldingLess ==
  ASSUME ExclusiveInv,
         \A f \in Flushers : HeldRows(f)' \subseteq HeldRows(f) /\ HeldPolls(f)' \subseteq HeldPolls(f)
  PROVE  WorkIsExclusive'
BY DEF ExclusiveInv, WorkIsExclusive, HeldRows, HeldPolls

\* Requests and clocks only add rows and make waiting ones due.
LEMMA ExclusiveRequest ==
  ASSUME TypeOK, ExclusiveInv, item' = item, polls' = polls, pc' = pc,
         leases' = leases, pollLeases' = pollLeases,
         \A e \in Events : row'[e] = row[e] \/ (row[e] \in {"absent", "later"} /\ row'[e] = "due"),
         \A e \in Events : poll'[e] = poll[e] \/ (poll[e] = "later" /\ poll'[e] = "due")
  PROVE  ExclusiveInv'
<1>0. \A f \in Flushers : Held(f)' = Held(f) /\ HeldRows(f)' = HeldRows(f) /\ HeldPolls(f)' = HeldPolls(f)
                          /\ Held(f) \subseteq Events
  BY DEF Held, HeldRows, HeldPolls
<1>1. RowsAreLeased'
  BY <1>0 DEF ExclusiveInv, RowsAreLeased, HeldRows
<1>2. PollsAreLeased'
  BY <1>0 DEF ExclusiveInv, PollsAreLeased, HeldPolls
<1>3. PollFollowsRow'
  <2>1. \A f \in Flushers : polls[f] \subseteq Events
    BY DEF TypeOK
  <2> QED BY <2>1 DEF ExclusiveInv, PollFollowsRow
<1>4. PhaseInv'
  BY <1>0 DEF ExclusiveInv, PhaseInv
<1>5. WorkIsExclusive'
  BY <1>0, HoldingLess
<1> QED BY <1>1, <1>2, <1>3, <1>4, <1>5 DEF ExclusiveInv

\* A step of f that keeps rows, polls and leases and holds no more than before.
LEMMA ExclusiveLess ==
  ASSUME TypeOK, ExclusiveInv, NEW f \in Flushers,
         row' = row, poll' = poll, leases' = leases, pollLeases' = pollLeases,
         \A g \in Flushers \ {f} : item'[g] = item[g] /\ polls'[g] = polls[g] /\ pc'[g] = pc[g],
         \/ Held(f)' = {} /\ polls'[f] = {}
         \/ Held(f)' \subseteq Held(f) /\ polls'[f] = polls[f] /\ pc'[f] = "working"
  PROVE  ExclusiveInv'
<1>0. \A g \in Flushers : Held(g)' \subseteq Held(g) /\ HeldRows(g)' \subseteq HeldRows(g) /\ HeldPolls(g)' \subseteq HeldPolls(g)
  BY DEF Held, HeldRows, HeldPolls
<1>1. RowsAreLeased'
  BY <1>0 DEF ExclusiveInv, RowsAreLeased
<1>2. PollsAreLeased'
  BY <1>0 DEF ExclusiveInv, PollsAreLeased
<1>3. PollFollowsRow'
  BY DEF ExclusiveInv, PollFollowsRow
<1>4. PhaseInv'
  <2>1. ASSUME NEW g \in Flushers \ {f}
        PROVE  /\ pc'[g] \in {"idle", "swept"} => Held(g)' = {} /\ polls'[g] = {}
               /\ pc'[g] = "polled" => Held(g)' \subseteq polls'[g]
    BY <1>0 DEF ExclusiveInv, PhaseInv
  <2> QED BY <2>1 DEF PhaseInv
<1>5. WorkIsExclusive'
  BY <1>0, HoldingLess
<1> QED BY <1>1, <1>2, <1>3, <1>4, <1>5 DEF ExclusiveInv

\* Writing back the rows S of f: they leave its hands and keep no lease.
LEMMA ExclusiveRowsBack ==
  ASSUME TypeOK, ExclusiveInv, NEW f \in Flushers, NEW S, S \subseteq HeldRows(f), NEW X, X \subseteq S,
         leases' = Unlease(leases, S), polls' = polls, pc' = pc, pc[f] = "working",
         \A e : e \in UNION pollLeases /\ e \notin X => e \in UNION pollLeases',
         \A e \in Events : e \in X => row'[e] = "completed",
         \A e \in Events : e \notin S => row'[e] = row[e],
         \A e \in Events : e \notin X => poll'[e] = poll[e],
         \A g \in Flushers \ {f} : item'[g] = item[g],
         \A e \in Held(f)' : e \in Held(f) /\ e \notin S
  PROVE  ExclusiveInv'
<1>0. /\ \A g \in Flushers : HeldRows(g)' \subseteq HeldRows(g) \ S /\ HeldPolls(g)' \subseteq HeldPolls(g)
      /\ \A g \in Flushers : Held(g)' \subseteq Held(g)
  <2>1. HeldRows(f)' \subseteq HeldRows(f) \ S /\ HeldPolls(f)' \subseteq HeldPolls(f)
    BY DEF HeldRows, HeldPolls
  <2>2. ASSUME NEW g \in Flushers \ {f}
        PROVE  HeldRows(g)' \subseteq HeldRows(g) \ S /\ HeldPolls(g)' \subseteq HeldPolls(g) /\ Held(g)' \subseteq Held(g)
    <3>1. Held(g)' = Held(g)
      BY DEF Held
    <3>2. HeldRows(g) \cap S = {}
      BY DEF ExclusiveInv, WorkIsExclusive, HeldRows
    <3> QED BY <3>1, <3>2 DEF HeldRows, HeldPolls
  <2> QED BY <2>1, <2>2
<1>a. \A e \in S : e \in Events /\ row[e] = "inflight" /\ poll[e] = "absent" /\ \A g \in Flushers : e \notin polls[g]
  <2>1. S \subseteq Events /\ \A e \in S : row[e] = "inflight"
    BY DEF ExclusiveInv, RowsAreLeased, HeldRows, Held
  <2>2. \A e \in S : poll[e] = "absent"
    BY <2>1 DEF ExclusiveInv, PollFollowsRow
  <2> QED BY <2>1, <2>2 DEF ExclusiveInv, PollFollowsRow
<1>b. \A g \in Flushers : polls[g] \subseteq Events /\ Held(g) \subseteq Events
  BY DEF TypeOK, Held
<1>1. RowsAreLeased'
  <2> SUFFICES ASSUME NEW g \in Flushers, NEW e \in HeldRows(g)'
               PROVE  row'[e] = "inflight" /\ e \in UNION leases'
    BY DEF RowsAreLeased
  <2>1. e \in HeldRows(g) /\ e \notin S /\ e \in Events
    BY <1>0, <1>b DEF HeldRows
  <2> QED BY <2>1, UnleaseUnion DEF ExclusiveInv, RowsAreLeased
<1>2. PollsAreLeased'
  <2> SUFFICES ASSUME NEW g \in Flushers, NEW e \in HeldPolls(g)'
               PROVE  poll'[e] = "completed" \/ (poll'[e] = "inflight" /\ e \in UNION pollLeases')
    BY DEF PollsAreLeased
  <2>1. e \in HeldPolls(g) /\ e \notin S /\ e \notin X /\ e \in Events
    BY <1>0, <1>a, <1>b DEF HeldPolls
  <2> QED BY <2>1, UnleaseUnion DEF ExclusiveInv, PollsAreLeased
<1>3. PollFollowsRow'
  <2>1. \A e \in Events : poll'[e] # "absent" => row'[e] = "completed"
    BY <1>a DEF ExclusiveInv, PollFollowsRow
  <2>2. \A g \in Flushers : \A e \in polls'[g] : poll'[e] # "absent"
    BY <1>a, <1>b DEF ExclusiveInv, PollFollowsRow
  <2> QED BY <2>1, <2>2 DEF PollFollowsRow
<1>4. PhaseInv'
  BY <1>0 DEF ExclusiveInv, PhaseInv
<1>5. WorkIsExclusive'
  BY <1>0, HoldingLess
<1> QED BY <1>1, <1>2, <1>3, <1>4, <1>5 DEF ExclusiveInv

\* Writing back the polls S of f.
LEMMA ExclusivePollsBack ==
  ASSUME TypeOK, ExclusiveInv, NEW f \in Flushers, NEW S, S \subseteq HeldPolls(f),
         row' = row, leases' = leases, polls' = polls, pc' = pc, pc[f] = "working",
         pollLeases' = Unlease(pollLeases, S),
         \A e \in Events : e \notin S => poll'[e] = poll[e],
         \A e \in S : poll'[e] # "absent",
         \A g \in Flushers \ {f} : item'[g] = item[g],
         \A e \in Held(f)' : e \in Held(f) /\ e \notin S
  PROVE  ExclusiveInv'
<1>0. /\ \A g \in Flushers : HeldRows(g)' \subseteq HeldRows(g) /\ HeldPolls(g)' \subseteq HeldPolls(g) \ S
      /\ \A g \in Flushers : Held(g)' \subseteq Held(g)
  <2>1. HeldRows(f)' \subseteq HeldRows(f) /\ HeldPolls(f)' \subseteq HeldPolls(f) \ S
    BY DEF HeldRows, HeldPolls
  <2>2. ASSUME NEW g \in Flushers \ {f}
        PROVE  HeldRows(g)' \subseteq HeldRows(g) /\ HeldPolls(g)' \subseteq HeldPolls(g) \ S /\ Held(g)' \subseteq Held(g)
    <3>1. Held(g)' = Held(g)
      BY DEF Held
    <3>2. HeldPolls(g) \cap S = {}
      BY DEF ExclusiveInv, WorkIsExclusive, HeldPolls
    <3> QED BY <3>1, <3>2 DEF HeldRows, HeldPolls
  <2> QED BY <2>1, <2>2
<1>b. \A g \in Flushers : polls[g] \subseteq Events /\ Held(g) \subseteq Events
  BY DEF TypeOK, Held
<1>1. RowsAreLeased'
  BY <1>0 DEF ExclusiveInv, RowsAreLeased
<1>2. PollsAreLeased'
  <2> SUFFICES ASSUME NEW g \in Flushers, NEW e \in HeldPolls(g)'
               PROVE  poll'[e] = "completed" \/ (poll'[e] = "inflight" /\ e \in UNION pollLeases')
    BY DEF PollsAreLeased
  <2>1. e \in HeldPolls(g) /\ e \notin S /\ e \in Events
    BY <1>0, <1>b DEF HeldPolls
  <2> QED BY <2>1, UnleaseUnion DEF ExclusiveInv, PollsAreLeased
<1>3. PollFollowsRow'
  <2>0. S \subseteq polls[f] /\ S \subseteq Events
    BY <1>b DEF HeldPolls
  <2>1. \A e \in Events : poll'[e] # "absent" => row'[e] = "completed"
    BY <2>0 DEF ExclusiveInv, PollFollowsRow
  <2>2. \A g \in Flushers : \A e \in polls'[g] : poll'[e] # "absent"
    BY <1>b DEF ExclusiveInv, PollFollowsRow
  <2> QED BY <2>1, <2>2 DEF PollFollowsRow
<1>4. PhaseInv'
  BY <1>0 DEF ExclusiveInv, PhaseInv
<1>5. WorkIsExclusive'
  BY <1>0, HoldingLess
<1> QED BY <1>1, <1>2, <1>3, <1>4, <1>5 DEF ExclusiveInv

\* The sweep completes expired polls, which leaves their holders with nothing to lose.
LEMMA ExclusiveSweep ==
  ASSUME TypeOK, ExclusiveInv, NEW f \in Flushers, Sweep(f)
  PROVE  ExclusiveInv'
<1> DEFINE expired == { e \in overdue : poll[e] \in Active }
<1>0. /\ row' = row /\ leases' = leases /\ item' = item /\ polls' = polls
      /\ poll' = Assign(poll, expired, "completed") /\ pollLeases' = Unlease(pollLeases, expired)
      /\ pc' = [pc EXCEPT ![f] = "swept"] /\ pc[f] = "idle"
  BY DEF Sweep, rowVars
<1>a. \A g \in Flushers : /\ Held(g)' = Held(g) /\ HeldRows(g)' = HeldRows(g) /\ HeldPolls(g)' = HeldPolls(g)
                          /\ Held(g) \subseteq Events /\ polls[g] \subseteq Events
  BY <1>0 DEF Held, HeldRows, HeldPolls, TypeOK
<1>b. \A e \in Events : IF e \in expired THEN poll'[e] = "completed" /\ poll[e] # "absent" ELSE poll'[e] = poll[e]
  BY <1>0 DEF Assign, Active
<1>1. RowsAreLeased'
  BY <1>0, <1>a DEF ExclusiveInv, RowsAreLeased
<1>2. PollsAreLeased'
  <2> SUFFICES ASSUME NEW g \in Flushers, NEW e \in HeldPolls(g)'
               PROVE  poll'[e] = "completed" \/ (poll'[e] = "inflight" /\ e \in UNION pollLeases')
    BY DEF PollsAreLeased
  <2>1. e \in HeldPolls(g) /\ e \in Events
    BY <1>a DEF HeldPolls
  <2> HIDE DEF expired
  <2> QED BY <2>1, <1>0, <1>b, UnleaseUnion DEF ExclusiveInv, PollsAreLeased
<1>3. PollFollowsRow'
  <2> HIDE DEF expired
  <2>1. \A e \in Events : poll'[e] # "absent" => row'[e] = "completed"
    BY <1>0, <1>b DEF ExclusiveInv, PollFollowsRow
  <2>2. \A g \in Flushers : \A e \in polls'[g] : poll'[e] # "absent"
    BY <1>0, <1>a, <1>b DEF ExclusiveInv, PollFollowsRow
  <2> QED BY <2>1, <2>2 DEF PollFollowsRow
<1>4. PhaseInv'
  BY <1>0, <1>a DEF ExclusiveInv, PhaseInv, TypeOK
<1>5. WorkIsExclusive'
  BY <1>a, HoldingLess
<1> QED BY <1>1, <1>2, <1>3, <1>4, <1>5 DEF ExclusiveInv

\* A claim of polls takes none that another flush holds.
LEMMA ExclusiveClaimPolls ==
  ASSUME TypeOK, ExclusiveInv, NEW f \in Flushers, ClaimPolls(f)
  PROVE  ExclusiveInv'
<1> DEFINE ready == Ready(poll, pollLeases) \ overdue
<1>0. /\ row' = row /\ leases' = leases /\ pc[f] = "swept"
      /\ poll' = Assign(poll, ready, "inflight") /\ pollLeases' = (pollLeases \cup {ready}) \ {{}}
      /\ item' = [item EXCEPT ![f] = Assign(@, ready, "ask")]
      /\ polls' = [polls EXCEPT ![f] = ready] /\ pc' = [pc EXCEPT ![f] = "polled"]
  BY DEF ClaimPolls, rowVars
<1>r. /\ ready \subseteq Events
      /\ \A e \in ready : poll[e] = "due" \/ (poll[e] = "inflight" /\ e \notin UNION pollLeases)
  BY DEF Ready
<1> HIDE DEF ready
<1>b. \A e \in Events : poll'[e] = IF e \in ready THEN "inflight" ELSE poll[e]
  BY <1>0 DEF Assign
<1>l. \A e : e \in UNION pollLeases' <=> e \in UNION pollLeases \/ e \in ready
  BY <1>0, AddLease
<1>h. Held(f)' \subseteq ready /\ polls'[f] = ready /\ HeldRows(f)' = {} /\ HeldPolls(f)' \subseteq ready
  <2>1. Held(f) = {} /\ \A e \in Events : item'[f][e] = IF e \in ready THEN "ask" ELSE item[f][e]
    BY <1>0 DEF ExclusiveInv, PhaseInv, Assign, TypeOK
  <2>2. Held(f)' \subseteq ready
    BY <2>1 DEF Held
  <2>3. polls'[f] = ready
    BY <1>0 DEF TypeOK
  <2> QED BY <2>2, <2>3 DEF HeldRows, HeldPolls
<1>g. \A g \in Flushers \ {f} : /\ Held(g)' = Held(g) /\ HeldRows(g)' = HeldRows(g) /\ HeldPolls(g)' = HeldPolls(g)
                                /\ polls'[g] = polls[g] /\ pc'[g] = pc[g]
  <2>1. \A g \in Flushers \ {f} : item'[g] = item[g] /\ polls'[g] = polls[g] /\ pc'[g] = pc[g]
    BY <1>0 DEF TypeOK
  <2> QED BY <2>1 DEF Held, HeldRows, HeldPolls
<1>e. \A g \in Flushers : Held(g) \subseteq Events /\ polls[g] \subseteq Events
  BY DEF Held, TypeOK
<1>1. RowsAreLeased'
  BY <1>0, <1>h, <1>g DEF ExclusiveInv, RowsAreLeased
<1>2. PollsAreLeased'
  <2> SUFFICES ASSUME NEW g \in Flushers, NEW e \in HeldPolls(g)'
               PROVE  poll'[e] = "completed" \/ (poll'[e] = "inflight" /\ e \in UNION pollLeases')
    BY DEF PollsAreLeased
  <2>1. CASE g = f
    BY <2>1, <1>h, <1>b, <1>l, <1>r
  <2>2. CASE g # f
    <3>1. e \in HeldPolls(g) /\ e \in Events
      BY <2>2, <1>g, <1>e DEF HeldPolls
    <3> QED BY <3>1, <1>b, <1>l DEF ExclusiveInv, PollsAreLeased
  <2> QED BY <2>1, <2>2
<1>3. PollFollowsRow'
  <2>1. \A e \in Events : poll'[e] # "absent" => row'[e] = "completed"
    BY <1>0, <1>b, <1>r DEF ExclusiveInv, PollFollowsRow
  <2>2. \A g \in Flushers : \A e \in polls'[g] : poll'[e] # "absent"
    BY <1>h, <1>g, <1>e, <1>b, <1>r DEF ExclusiveInv, PollFollowsRow
  <2> QED BY <2>1, <2>2 DEF PollFollowsRow
<1>4. PhaseInv'
  <2>1. pc'[f] = "polled"
    BY <1>0 DEF TypeOK
  <2> QED BY <2>1, <1>h, <1>g DEF ExclusiveInv, PhaseInv
<1>5. WorkIsExclusive'
  <2>1. \A g \in Flushers \ {f} : HeldPolls(g) \cap ready = {}
    BY <1>r DEF ExclusiveInv, PollsAreLeased
  <2>2. \A g, h \in Flushers : g # h => HeldRows(g)' \cap HeldRows(h)' = {} /\ HeldPolls(g)' \cap HeldPolls(h)' = {}
    BY <2>1, <1>h, <1>g DEF ExclusiveInv, WorkIsExclusive, HeldRows, HeldPolls
  <2> QED BY <2>2 DEF WorkIsExclusive, HeldRows, HeldPolls
<1> QED BY <1>1, <1>2, <1>3, <1>4, <1>5 DEF ExclusiveInv

\* A claim of rows takes none that another flush holds.
LEMMA ExclusiveClaimRows ==
  ASSUME TypeOK, ExclusiveInv, NEW f \in Flushers, ClaimRows(f)
  PROVE  ExclusiveInv'
<1> DEFINE ready == Ready(row, leases)
<1>0. /\ poll' = poll /\ pollLeases' = pollLeases /\ polls' = polls /\ pc[f] = "polled"
      /\ row' = Assign(row, ready, "inflight") /\ leases' = (leases \cup {ready}) \ {{}}
      /\ item' = [item EXCEPT ![f] = Assign(@, ready, "ask")]
      /\ pc' = [pc EXCEPT ![f] = IF ready \cup polls[f] = {} THEN "idle" ELSE "claimed"]
  BY DEF ClaimRows, pollVars
<1>r. /\ ready \subseteq Events
      /\ \A e \in ready : row[e] = "due" \/ (row[e] = "inflight" /\ e \notin UNION leases)
  BY DEF Ready
<1> HIDE DEF ready
<1>b. \A e \in Events : row'[e] = IF e \in ready THEN "inflight" ELSE row[e]
  BY <1>0 DEF Assign
<1>l. \A e : e \in UNION leases' <=> e \in UNION leases \/ e \in ready
  BY <1>0, AddLease
<1>a. \A e \in ready : poll[e] = "absent" /\ \A g \in Flushers : e \notin polls[g]
  BY <1>r DEF ExclusiveInv, PollFollowsRow
<1>h. Held(f)' \subseteq ready \cup polls[f] /\ HeldRows(f)' \subseteq ready /\ HeldPolls(f)' \subseteq HeldPolls(f)
  <2>1. Held(f) \subseteq polls[f] /\ \A e \in Events : item'[f][e] = IF e \in ready THEN "ask" ELSE item[f][e]
    BY <1>0 DEF ExclusiveInv, PhaseInv, Assign, TypeOK
  <2>2. \A e \in Held(f)' : e \in ready \/ e \in Held(f)
    BY <2>1 DEF Held
  <2> QED BY <2>1, <2>2, <1>0, <1>a DEF HeldRows, HeldPolls
<1>g. \A g \in Flushers \ {f} : /\ Held(g)' = Held(g) /\ HeldRows(g)' = HeldRows(g) /\ HeldPolls(g)' = HeldPolls(g)
                                /\ pc'[g] = pc[g]
  <2>1. \A g \in Flushers \ {f} : item'[g] = item[g] /\ polls'[g] = polls[g] /\ pc'[g] = pc[g]
    BY <1>0 DEF TypeOK
  <2> QED BY <2>1 DEF Held, HeldRows, HeldPolls
<1>e. \A g \in Flushers : Held(g) \subseteq Events /\ polls[g] \subseteq Events
  BY DEF Held, TypeOK
<1>1. RowsAreLeased'
  <2> SUFFICES ASSUME NEW g \in Flushers, NEW e \in HeldRows(g)'
               PROVE  row'[e] = "inflight" /\ e \in UNION leases'
    BY DEF RowsAreLeased
  <2>1. CASE g = f
    BY <2>1, <1>h, <1>b, <1>l, <1>r
  <2>2. CASE g # f
    <3>1. e \in HeldRows(g) /\ e \in Events
      BY <2>2, <1>g, <1>e DEF HeldRows
    <3> QED BY <3>1, <1>b, <1>l DEF ExclusiveInv, RowsAreLeased
  <2> QED BY <2>1, <2>2
<1>2. PollsAreLeased'
  BY <1>0, <1>h, <1>g DEF ExclusiveInv, PollsAreLeased
<1>3. PollFollowsRow'
  <2>1. \A e \in Events : poll'[e] # "absent" => row'[e] = "completed"
    BY <1>0, <1>b, <1>a DEF ExclusiveInv, PollFollowsRow
  <2>2. \A g \in Flushers : \A e \in polls'[g] : poll'[e] # "absent"
    BY <1>0 DEF ExclusiveInv, PollFollowsRow
  <2> QED BY <2>1, <2>2 DEF PollFollowsRow
<1>4. PhaseInv'
  <2>1. \/ pc'[f] = "idle" /\ ready = {} /\ polls'[f] = {} /\ Held(f)' = {}
        \/ pc'[f] = "claimed"
    BY <1>0, <1>h DEF TypeOK
  <2> QED BY <2>1, <1>0, <1>g DEF ExclusiveInv, PhaseInv
<1>5. WorkIsExclusive'
  <2>1. \A g \in Flushers \ {f} : HeldRows(g) \cap ready = {}
    BY <1>r DEF ExclusiveInv, RowsAreLeased
  <2>2. \A g, h \in Flushers : g # h => HeldRows(g)' \cap HeldRows(h)' = {} /\ HeldPolls(g)' \cap HeldPolls(h)' = {}
    BY <2>1, <1>h, <1>g DEF ExclusiveInv, WorkIsExclusive, HeldRows, HeldPolls
  <2> QED BY <2>2 DEF WorkIsExclusive, HeldRows, HeldPolls
<1> QED BY <1>1, <1>2, <1>3, <1>4, <1>5 DEF ExclusiveInv

\* What a flush has in hand to write back.
LEMMA InHand ==
  ASSUME NEW f \in Flushers, NEW v \in Verdicts
  PROVE  /\ RowsWith(f, v) \subseteq HeldRows(f)
         /\ PollsWith(f, v) \cap Events \subseteq HeldPolls(f)
BY DEF RowsWith, PollsWith, HeldRows, HeldPolls, Held

\* Every step of a flush keeps ExclusiveInv.
LEMMA ExclusiveFlush ==
  ASSUME TypeOK, ExclusiveInv, NEW f \in Flushers, FlushStep(f)
  PROVE  ExclusiveInv'
<1> USE DEF rowVars, pollVars
\* The step handles one item, which stays in hand or leaves it.
<1>i. ASSUME NEW e \in Events, NEW v, item' = [item EXCEPT ![f][e] = v], e \in Held(f) \/ v = "done",
             row' = row, poll' = poll, leases' = leases, pollLeases' = pollLeases,
             polls' = polls, pc' = pc, pc[f] = "working"
      PROVE  ExclusiveInv'
  <2>1. Held(f)' \subseteq Held(f)
    BY <1>i DEF Held, TypeOK, Replies, Verdicts
  <2>2. \A g \in Flushers \ {f} : item'[g] = item[g]
    BY <1>i DEF TypeOK
  <2> QED BY <1>i, <2>1, <2>2, ExclusiveLess
\* The step sets the items S aside.
<1>s. ASSUME NEW S, item' = [item EXCEPT ![f] = Assign(@, S, "done")]
      PROVE  /\ \A g \in Flushers \ {f} : item'[g] = item[g]
             /\ \A e \in Held(f)' : e \in Held(f) /\ e \notin S
  BY <1>s DEF Held, TypeOK, Assign, Replies, Verdicts
<1>v. Verdicts = {"complete", "retry", "wait", "partialWait"}
  BY DEF Verdicts
<1>p. \A v : PollsWith(f, v) \subseteq Events
  BY DEF PollsWith, TypeOK
<1>1. CASE Sweep(f)
  BY <1>1, ExclusiveSweep
<1>2. CASE ClaimPolls(f)
  BY <1>2, ExclusiveClaimPolls
<1>3. CASE ClaimRows(f)
  BY <1>3, ExclusiveClaimRows
<1>4. CASE Prepare(f)
  <2>1. /\ item' = item /\ polls' = polls /\ row' = row /\ poll' = poll
        /\ leases' = leases /\ pollLeases' = pollLeases
        /\ pc'[f] = "working" /\ \A g \in Flushers \ {f} : pc'[g] = pc[g]
    BY <1>4 DEF Prepare, TypeOK
  <2>2. Held(f)' \subseteq Held(f)
    BY <2>1 DEF Held
  <2> QED BY <2>1, <2>2, ExclusiveLess
<1>5. CASE PrepareFails(f) \/ Finish(f)
  <2>1. /\ row' = row /\ poll' = poll /\ leases' = leases /\ pollLeases' = pollLeases
        /\ item' = [item EXCEPT ![f] = NoItems] /\ polls' = [polls EXCEPT ![f] = {}]
        /\ pc' = [pc EXCEPT ![f] = "idle"]
    BY <1>5 DEF PrepareFails, Finish
  <2>2. Held(f)' = {} /\ polls'[f] = {}
    BY <2>1 DEF Held, NoItems, TypeOK, Replies, Verdicts
  <2>3. \A g \in Flushers \ {f} : item'[g] = item[g] /\ polls'[g] = polls[g] /\ pc'[g] = pc[g]
    BY <2>1 DEF TypeOK
  <2> QED BY <2>1, <2>2, <2>3, ExclusiveLess
<1>6. ASSUME NEW e \in Events, Ask(f, e) \/ AskFails(f, e) PROVE ExclusiveInv'
  <2>1. e \in Held(f)
    BY <1>6 DEF Ask, AskFails, Held
  <2>2. PICK v : item' = [item EXCEPT ![f][e] = v]
    BY <1>6 DEF Ask, AskFails
  <2> QED BY <1>6, <2>1, <2>2, <1>i DEF Ask, AskFails
<1>7. ASSUME NEW e \in Events, Settle(f, e) PROVE ExclusiveInv'
  <2>1. e \in Held(f)
    BY <1>7 DEF Settle, Held
  <2> QED BY <1>7, <2>1, <1>i DEF Settle
<1>8. ASSUME NEW e \in Events, CloseReview(f, e) PROVE ExclusiveInv'
  BY <1>8, <1>i DEF CloseReview, Booked, Settled
<1>9. CASE Acknowledge(f)
  <2> DEFINE S == RowsWith(f, "complete")
  <2>1. /\ leases' = Unlease(leases, S) /\ polls' = polls /\ pc' = pc /\ pc[f] = "working"
        /\ pollLeases' = pollLeases /\ poll' = poll /\ row' = Assign(row, S, "completed")
        /\ item' = [item EXCEPT ![f] = Assign(@, S, "done")]
    BY <1>9 DEF Acknowledge, Settled
  <2>2. S \subseteq HeldRows(f)
    BY InHand, <1>v
  <2>3. \A e \in Events : e \notin S => row'[e] = row[e]
    BY <2>1 DEF Assign
  <2> HIDE DEF S
  <2>4. /\ \A g \in Flushers \ {f} : item'[g] = item[g]
        /\ \A e \in Held(f)' : e \in Held(f) /\ e \notin S
    BY <2>1, <1>s
  <2> DEFINE X == {}
  <2>5. /\ X \subseteq S /\ \A e \in Events : e \in X => row'[e] = "completed"
        /\ \A e : e \in UNION pollLeases /\ e \notin X => e \in UNION pollLeases'
        /\ \A e \in Events : e \notin X => poll'[e] = poll[e]
    BY <2>1
  <2> HIDE DEF X
  <2> QED BY <2>1, <2>2, <2>3, <2>4, <2>5, ExclusiveRowsBack
<1>10. CASE Release(f)
  <2> DEFINE S == RowsWith(f, "retry")
  <2>1. /\ leases' = Unlease(leases, S) /\ polls' = polls /\ pc' = pc /\ pc[f] = "working"
        /\ pollLeases' = pollLeases /\ poll' = poll /\ row' = Assign(row, S, "later")
        /\ item' = [item EXCEPT ![f] = Assign(@, S, "done")]
    BY <1>10 DEF Release, Settled
  <2>2. S \subseteq HeldRows(f)
    BY InHand, <1>v
  <2>3. \A e \in Events : e \notin S => row'[e] = row[e]
    BY <2>1 DEF Assign
  <2> HIDE DEF S
  <2>4. /\ \A g \in Flushers \ {f} : item'[g] = item[g]
        /\ \A e \in Held(f)' : e \in Held(f) /\ e \notin S
    BY <2>1, <1>s
  <2> DEFINE X == {}
  <2>5. /\ X \subseteq S /\ \A e \in Events : e \in X => row'[e] = "completed"
        /\ \A e : e \in UNION pollLeases /\ e \notin X => e \in UNION pollLeases'
        /\ \A e \in Events : e \notin X => poll'[e] = poll[e]
    BY <2>1
  <2> HIDE DEF X
  <2> QED BY <2>1, <2>2, <2>3, <2>4, <2>5, ExclusiveRowsBack
<1>11. ASSUME NEW v \in Verdicts, NEW closing \in Closing, DeferRows(f, v, closing) PROVE ExclusiveInv'
  <2> DEFINE S == RowsWith(f, v)
             X == Expired(S)
  <2>1. /\ leases' = Unlease(leases, S) /\ polls' = polls /\ pc' = pc /\ pc[f] = "working"
        /\ pollLeases' = Unlease(pollLeases, X) /\ poll' = Assign(poll, X, "later")
        /\ row' = [e \in Events |-> IF e \in X THEN "completed" ELSE IF e \in S THEN "later" ELSE row[e]]
        /\ item' = [item EXCEPT ![f] = [e \in Events |-> IF e \in X THEN closing
                                                         ELSE IF e \in S THEN "done" ELSE @[e]]]
    BY <1>11 DEF DeferRows, Settled
  <2>2. S \subseteq HeldRows(f) /\ X \subseteq S
    BY InHand DEF Expired
  <2> HIDE DEF X, S
  <2>3. /\ \A e \in Events : e \in X => row'[e] = "completed"
        /\ \A e \in Events : e \notin S => row'[e] = row[e]
        /\ \A e \in Events : e \notin X => poll'[e] = poll[e]
    BY <2>1, <2>2 DEF Assign
  <2>4. \A e : e \in UNION pollLeases /\ e \notin X => e \in UNION pollLeases'
    BY <2>1, UnleaseUnion
  <2>5. /\ \A g \in Flushers \ {f} : item'[g] = item[g]
        /\ \A e \in Held(f)' : e \in Held(f) /\ e \notin S
    BY <2>1, <2>2 DEF Held, TypeOK, Replies, Verdicts, Closing
  <2> QED BY <2>1, <2>2, <2>3, <2>4, <2>5, ExclusiveRowsBack
<1>12. CASE AcknowledgePolls(f)
  <2> DEFINE S == PollsWith(f, "complete")
  <2>1. /\ row' = row /\ leases' = leases /\ polls' = polls /\ pc' = pc /\ pc[f] = "working"
        /\ pollLeases' = Unlease(pollLeases, S) /\ poll' = Assign(poll, S, "completed")
        /\ item' = [item EXCEPT ![f] = Assign(@, S, "done")]
    BY <1>12 DEF AcknowledgePolls, Settled
  <2>2. S \subseteq HeldPolls(f) /\ S \subseteq Events
    BY InHand, <1>v, <1>p
  <2> HIDE DEF S
  <2>3. /\ \A e \in Events : e \notin S => poll'[e] = poll[e]
        /\ \A e \in S : poll'[e] # "absent"
    BY <2>1, <2>2 DEF Assign
  <2> QED BY <2>1, <2>2, <2>3, <1>s, ExclusivePollsBack
<1>13. ASSUME NEW v \in Verdicts, DeferPolls(f, v) PROVE ExclusiveInv'
  <2> DEFINE S == PollsWith(f, v)
  <2>1. /\ row' = row /\ leases' = leases /\ polls' = polls /\ pc' = pc /\ pc[f] = "working"
        /\ pollLeases' = Unlease(pollLeases, S)
        /\ poll' = [e \in Events |-> IF e \in S \cap overdue THEN "completed"
                                     ELSE IF e \in S THEN "later" ELSE poll[e]]
        /\ item' = [item EXCEPT ![f] = Assign(@, S, "done")]
    BY <1>13 DEF DeferPolls, Settled
  <2>2. S \subseteq HeldPolls(f) /\ S \subseteq Events
    BY InHand, <1>p
  <2> HIDE DEF S
  <2>3. /\ \A e \in Events : e \notin S => poll'[e] = poll[e]
        /\ \A e \in S : poll'[e] # "absent"
    BY <2>1, <2>2
  <2> QED BY <2>1, <2>2, <2>3, <1>s, ExclusivePollsBack
<1> QED
  BY <1>1, <1>2, <1>3, <1>4, <1>5, <1>6, <1>7, <1>8, <1>9, <1>10, <1>11, <1>12, <1>13
  DEF FlushStep, Defer, Verdicts, Closing

\* Every step of the system keeps ExclusiveInv.
LEMMA ExclusiveStep ==
  ASSUME TypeOK, ExclusiveInv, [Next]_vars
  PROVE  ExclusiveInv'
<1> USE DEF rowVars, pollVars, flushVars, vars
<1>1. ASSUME NEW e \in Events, RequestStep(e) PROVE ExclusiveInv'
  <2>1. /\ item' = item /\ polls' = polls /\ pc' = pc
        /\ leases' = leases /\ pollLeases' = pollLeases /\ poll' = poll
    BY <1>1 DEF RequestStep, CallStep, AppendRow, QueueReview, SyncBegin, SyncSubmit, SyncFinal, SyncWaits,
                SyncFails, SyncAppend, SyncMark
  <2>2. \A d \in Events : row'[d] = row[d] \/ (row[d] \in {"absent", "later"} /\ row'[d] = "due")
    BY <1>1 DEF TypeOK, RequestStep, CallStep, AppendRow, QueueReview, SyncBegin, SyncSubmit, SyncFinal,
                SyncWaits, SyncFails, SyncAppend, SyncMark
  <2> QED BY <2>1, <2>2, ExclusiveRequest
<1>2. CASE \E e \in Events : ClockStep(e) \/ CloudAdvances(e)
  <2>1. /\ item' = item /\ polls' = polls /\ pc' = pc /\ leases' = leases /\ pollLeases' = pollLeases
    BY <1>2 DEF ClockStep, RowDue, PollDue, WindowCloses, DeadlinePasses, CloudAdvances
  <2>2. /\ \A d \in Events : row'[d] = row[d] \/ (row[d] \in {"absent", "later"} /\ row'[d] = "due")
        /\ \A d \in Events : poll'[d] = poll[d] \/ (poll[d] = "later" /\ poll'[d] = "due")
    BY <1>2 DEF TypeOK, ClockStep, RowDue, PollDue, WindowCloses, DeadlinePasses, CloudAdvances
  <2> QED BY <2>1, <2>2, ExclusiveRequest
<1>3. CASE \E f \in Flushers : FlushStep(f)
  BY <1>3, ExclusiveFlush
\* A lease ends only when nothing under it is in hand.
<1>4. ASSUME NEW l \in SUBSET Events, LeaseEnds(l) \/ PollLeaseEnds(l) PROVE ExclusiveInv'
  <2>1. /\ row' = row /\ poll' = poll /\ item' = item /\ polls' = polls /\ pc' = pc
        /\ \A f \in Flushers : Held(f)' = Held(f) /\ HeldRows(f)' = HeldRows(f) /\ HeldPolls(f)' = HeldPolls(f)
    BY <1>4 DEF LeaseEnds, PollLeaseEnds, Held, HeldRows, HeldPolls
  <2>2. ASSUME NEW f \in Flushers, NEW e \in HeldRows(f), e \in UNION leases PROVE e \in UNION leases'
    BY <1>4, <2>2 DEF LeaseEnds, PollLeaseEnds, HeldRows
  <2>3. ASSUME NEW f \in Flushers, NEW e \in HeldPolls(f), e \in UNION pollLeases PROVE e \in UNION pollLeases'
    BY <1>4, <2>3 DEF LeaseEnds, PollLeaseEnds, HeldPolls
  <2>4. RowsAreLeased'
    BY <2>1, <2>2 DEF ExclusiveInv, RowsAreLeased
  <2>5. PollsAreLeased'
    BY <2>1, <2>3 DEF ExclusiveInv, PollsAreLeased
  <2>6. PollFollowsRow' /\ PhaseInv'
    BY <2>1 DEF ExclusiveInv, PollFollowsRow, PhaseInv
  <2>7. WorkIsExclusive'
    BY <2>1, HoldingLess
  <2> QED BY <2>4, <2>5, <2>6, <2>7 DEF ExclusiveInv
<1>5. CASE Crash
  <2>1. /\ row' = row /\ poll' = poll
        /\ \A f \in Flushers : Held(f)' = {} /\ polls'[f] = {} /\ HeldRows(f)' = {} /\ HeldPolls(f)' = {}
    BY <1>5 DEF Crash, NoItems, Held, HeldRows, HeldPolls, Replies, Verdicts
  <2>2. RowsAreLeased' /\ PollsAreLeased' /\ PollFollowsRow' /\ PhaseInv'
    BY <2>1 DEF ExclusiveInv, RowsAreLeased, PollsAreLeased, PollFollowsRow, PhaseInv
  <2>3. WorkIsExclusive'
    BY <2>1, HoldingLess
  <2> QED BY <2>2, <2>3 DEF ExclusiveInv
<1>6. CASE UNCHANGED vars
  BY <1>6, ExclusiveRequest
<1> QED BY <1>1, <1>2, <1>3, <1>4, <1>5, <1>6 DEF Next

\* At the start there is nothing in hand.
LEMMA ExclusiveInit == Init => ExclusiveInv
<1> SUFFICES ASSUME Init PROVE ExclusiveInv
  OBVIOUS
<1>1. \A f \in Flushers : Held(f) = {} /\ polls[f] = {}
  BY DEF Init, Held, NoItems, Replies, Verdicts
<1> QED
  BY <1>1 DEF Init, ExclusiveInv, RowsAreLeased, PollsAreLeased, PollFollowsRow, PhaseInv,
              WorkIsExclusive, HeldRows, HeldPolls

\* The lease protocol of the outbox: two flushes that run side by side, with
\* crashes in between, never work on one row or on one poll.
THEOREM NoTwoHands == Spec => []WorkIsExclusive
<1>1. Init => ExclusiveInv
  BY ExclusiveInit
<1>2. TypeOK /\ ExclusiveInv /\ [Next]_vars => ExclusiveInv'
  BY ExclusiveStep
<1>3. ExclusiveInv => WorkIsExclusive
  BY DEF ExclusiveInv
<1> QED BY <1>1, <1>2, <1>3, TypeCorrect, PTL DEF Spec

-----------------------------------------------------------------------------
(* Owners of open reviews, as long as nothing crashes.                     *)

\* A request has no row before it appends one.
CallPrecedesRow ==
  \A e \in Events : call[e] \in {"asking", "append", "appendMark"} => row[e] = "absent"

\* OpenReviewHasOwner without the request that only has to mark its row.
Owned ==
  \A e \in Events : life[e] \in {"queued", "inflight"} =>
    \/ row[e] \in Active
    \/ call[e] \in {"asking", "append", "appendMark"}
    \/ \E f \in Flushers : item[f][e] \in Closing

\* A row is completed after its review has been queued.
RowsAreReviewed == \A e \in Events : row[e] = "completed" => life[e] # "absent"

\* Replies and outcomes exist while a flush works, on reviews it has prepared;
\* what is to be acknowledged is closed.
ItemsArePrepared ==
  \A f \in Flushers, e \in Events :
    /\ pc[f] # "working" => item[f][e] \in {"none", "ask"}
    /\ pc[f] = "working" /\ item[f][e] # "none" => life[e] # "absent"
    /\ item[f][e] = "complete" => life[e] \in Closed

OwnerInv == Owned /\ RowsAreReviewed /\ ItemsArePrepared

\* Reviews are not forgotten, and closed ones stay closed, at whatever stage.
LEMMA ReviewsStay ==
  ASSUME TypeOK, [Next]_vars
  PROVE  \A d \in Events : /\ life[d] # "absent" => life'[d] # "absent"
                           /\ life[d] \in Closed => life'[d] \in Closed
<1> USE DEF rowVars, pollVars, flushVars, vars
<1> DEFINE Stay == \A d \in Events : /\ life[d] # "absent" => life'[d] # "absent"
                                     /\ life[d] \in Closed => life'[d] \in Closed
<1>1. CASE life' = life
  BY <1>1
<1>2. ASSUME NEW e \in Events, RequestStep(e) PROVE Stay
  BY <1>2 DEF TypeOK, Closed, Queued, Started, Requeued, Completed, RequestStep, CallStep, AppendRow, QueueReview,
              SyncBegin, SyncSubmit, SyncFinal, SyncWaits, SyncFails, SyncAppend, SyncMark
<1>3. ASSUME NEW f \in Flushers, FlushStep(f) PROVE Stay
  <2>1. CASE Prepare(f) \/ PrepareFails(f)
    BY <2>1 DEF TypeOK, Closed, Queued, Started, Prepare, PrepareFails
  <2>2. ASSUME NEW e \in Events, Settle(f, e) \/ CloseReview(f, e) PROVE Stay
    BY <2>2 DEF TypeOK, Closed, Completed, Requeued, Reviewed, Settle, CloseReview
  <2>3. CASE \E e \in Events : Ask(f, e) \/ AskFails(f, e)
    BY <1>1, <2>3 DEF Ask, AskFails
  <2>4. CASE \/ Sweep(f) \/ ClaimPolls(f) \/ ClaimRows(f) \/ Acknowledge(f) \/ AcknowledgePolls(f) \/ Release(f)
             \/ Defer(f) \/ DeferPolls(f, "wait") \/ DeferPolls(f, "retry") \/ Finish(f)
    BY <1>1, <2>4 DEF Sweep, ClaimPolls, ClaimRows, Acknowledge, AcknowledgePolls, Release, Defer, DeferRows,
                      DeferPolls, Finish
  <2> QED BY <1>3, <2>1, <2>2, <2>3, <2>4 DEF FlushStep
<1>4. CASE \E e \in Events : ClockStep(e) \/ CloudAdvances(e)
  BY <1>1, <1>4 DEF ClockStep, RowDue, PollDue, WindowCloses, DeadlinePasses, CloudAdvances
<1>5. CASE (\E l \in SUBSET Events : LeaseEnds(l) \/ PollLeaseEnds(l)) \/ Crash \/ UNCHANGED vars
  BY <1>1, <1>5 DEF LeaseEnds, PollLeaseEnds, Crash
<1> QED BY <1>2, <1>3, <1>4, <1>5 DEF Next

\* What a flush does to the rows: those in no hand of its are only claimed.
LEMMA FlushRows ==
  ASSUME TypeOK, ExclusiveInv, NEW f \in Flushers, FlushStep(f)
  PROVE  \A d \in Events : \/ row'[d] = row[d]
                           \/ row[d] \in {"due", "inflight"} /\ row'[d] = "inflight"
                           \/ row[d] = "inflight" /\ d \in HeldRows(f) /\ row'[d] \in {"later", "completed"}
<1> DEFINE Moved ==
      \A d \in Events : \/ row'[d] = row[d]
                        \/ row[d] \in {"due", "inflight"} /\ row'[d] = "inflight"
                        \/ row[d] = "inflight" /\ d \in HeldRows(f) /\ row'[d] \in {"later", "completed"}
<1>h. \A v \in Verdicts : \A d \in RowsWith(f, v) : d \in HeldRows(f) /\ row[d] = "inflight"
  BY InHand DEF ExclusiveInv, RowsAreLeased
<1>1. CASE ClaimRows(f)
  BY <1>1 DEF ClaimRows, Assign, Ready
<1>2. CASE Acknowledge(f)
  BY <1>2, <1>h DEF Acknowledge, Assign, Verdicts
<1>3. CASE Release(f)
  BY <1>3, <1>h DEF Release, Assign, Verdicts
<1>4. ASSUME NEW v \in Verdicts, NEW closing, DeferRows(f, v, closing) PROVE Moved
  <2> DEFINE S == RowsWith(f, v)
             X == Expired(S)
  <2>1. row' = [d \in Events |-> IF d \in X THEN "completed" ELSE IF d \in S THEN "later" ELSE row[d]]
    BY <1>4 DEF DeferRows
  <2>2. X \subseteq S /\ \A d \in S : d \in HeldRows(f) /\ row[d] = "inflight"
    BY <1>h DEF Expired
  <2> HIDE DEF X, S
  <2> QED BY <2>1, <2>2
<1>5. CASE Defer(f)
  BY <1>4, <1>5 DEF Defer, Verdicts
<1>6. CASE \/ Sweep(f) \/ ClaimPolls(f) \/ Prepare(f) \/ PrepareFails(f)
           \/ \E e \in Events : Ask(f, e) \/ AskFails(f, e) \/ Settle(f, e) \/ CloseReview(f, e)
           \/ AcknowledgePolls(f) \/ DeferPolls(f, "wait") \/ DeferPolls(f, "retry") \/ Finish(f)
  <2>1. row' = row
    BY <1>6 DEF Sweep, ClaimPolls, Prepare, PrepareFails, Ask, AskFails, Settle, CloseReview,
                AcknowledgePolls, DeferPolls, Finish, rowVars
  <2> QED BY <2>1
<1> QED
  BY <1>1, <1>2, <1>3, <1>5, <1>6 DEF FlushStep

\* A row of a request exists from its append on, whatever crashes.
LEMMA CallStays ==
  ASSUME TypeOK, ExclusiveInv, CallPrecedesRow, [Next]_vars
  PROVE  CallPrecedesRow'
<1> USE DEF rowVars, pollVars, flushVars, vars
<1>1. ASSUME NEW e \in Events, RequestStep(e) PROVE CallPrecedesRow'
  BY <1>1 DEF CallPrecedesRow, TypeOK, RequestStep, CallStep, AppendRow, QueueReview, SyncBegin, SyncSubmit, SyncFinal,
              SyncWaits, SyncFails, SyncAppend, SyncMark
<1>2. ASSUME NEW f \in Flushers, FlushStep(f) PROVE CallPrecedesRow'
  <2>1. call' = call
    BY <1>2 DEF FlushStep, Sweep, ClaimPolls, ClaimRows, Prepare, PrepareFails, Ask, AskFails, Settle,
                CloseReview, Acknowledge, AcknowledgePolls, Release, Defer, DeferRows, DeferPolls, Finish
  <2> QED BY <1>2, <2>1, FlushRows DEF CallPrecedesRow
<1>3. CASE \E e \in Events : ClockStep(e) \/ CloudAdvances(e)
  BY <1>3 DEF CallPrecedesRow, TypeOK, ClockStep, RowDue, PollDue, WindowCloses, DeadlinePasses, CloudAdvances
<1>4. CASE (\E l \in SUBSET Events : LeaseEnds(l) \/ PollLeaseEnds(l)) \/ Crash \/ UNCHANGED vars
  BY <1>4 DEF CallPrecedesRow, LeaseEnds, PollLeaseEnds, Crash
<1> QED BY <1>1, <1>2, <1>3, <1>4 DEF Next

\* A step that leaves the flushes alone keeps OwnerInv when rows in work stay
\* in work, no review is opened without a row or a request, and no request is
\* given up before its row is there.
LEMMA OwnerElsewhere ==
  ASSUME TypeOK, OwnerInv, [Next]_vars, item' = item, pc' = pc,
         \A d \in Events : row[d] \in Active => row'[d] \in Active,
         \A d \in Events : row'[d] = "completed" => row[d] = "completed",
         \A d \in Events : /\ life'[d] \in {"queued", "inflight"}
                           /\ life[d] \notin {"queued", "inflight"}
                           => row'[d] \in Active \/ call'[d] \in {"asking", "append", "appendMark"},
         \A d \in Events : /\ call[d] \in {"asking", "append", "appendMark"}
                           /\ call'[d] \notin {"asking", "append", "appendMark"}
                           => row'[d] \in Active \/ life'[d] \notin {"queued", "inflight"}
  PROVE  OwnerInv'
<1>1. \A d \in Events : /\ life[d] # "absent" => life'[d] # "absent"
                        /\ life[d] \in Closed => life'[d] \in Closed
  BY ReviewsStay
<1>2. Owned'
  BY DEF OwnerInv, Owned, Closed
<1>3. RowsAreReviewed'
  BY <1>1 DEF OwnerInv, RowsAreReviewed
<1>4. ItemsArePrepared'
  BY <1>1 DEF OwnerInv, ItemsArePrepared
<1> QED BY <1>2, <1>3, <1>4 DEF OwnerInv

\* Requests, clocks and the cloud keep the owners.
LEMMA OwnerRequests ==
  ASSUME TypeOK, OwnerInv, CallPrecedesRow, [Next]_vars, NEW e \in Events,
         RequestStep(e) \/ ClockStep(e) \/ CloudAdvances(e)
  PROVE  OwnerInv'
<1> USE DEF rowVars, pollVars, flushVars, Active
<1>1. item' = item /\ pc' = pc
  BY DEF RequestStep, CallStep, AppendRow, QueueReview, SyncBegin, SyncSubmit, SyncFinal, SyncWaits, SyncFails,
         SyncAppend, SyncMark, ClockStep, RowDue, PollDue, WindowCloses, DeadlinePasses, CloudAdvances
<1>2. \A d \in Events : /\ row[d] \in Active => row'[d] \in Active
                        /\ row'[d] = "completed" => row[d] = "completed"
  BY DEF RequestStep, CallStep, AppendRow, QueueReview, SyncBegin, SyncSubmit, SyncFinal, SyncWaits, SyncFails,
         SyncAppend, SyncMark, ClockStep, RowDue, PollDue, WindowCloses, DeadlinePasses, CloudAdvances, TypeOK
<1>3. ASSUME NEW d \in Events, life'[d] \in {"queued", "inflight"}, life[d] \notin {"queued", "inflight"}
      PROVE  row'[d] \in Active \/ call'[d] \in {"asking", "append", "appendMark"}
  <2>1. (QueueReview(e) \/ SyncBegin(e)) /\ d = e
    BY <1>3 DEF RequestStep, CallStep, AppendRow, QueueReview, SyncBegin, SyncSubmit, SyncFinal, SyncWaits, SyncFails,
                SyncAppend, SyncMark, ClockStep, RowDue, PollDue, WindowCloses, DeadlinePasses, CloudAdvances, TypeOK,
                Queued, Started, Requeued, Completed, Closed
  <2>2. CASE QueueReview(e)
    BY <1>3, <2>1, <2>2 DEF QueueReview, OwnerInv, RowsAreReviewed, TypeOK, RowStates
  <2>3. CASE SyncBegin(e)
    BY <2>1, <2>3 DEF SyncBegin, TypeOK
  <2> QED BY <2>1, <2>2, <2>3
<1>4. ASSUME NEW d \in Events, call[d] \in {"asking", "append", "appendMark"},
             call'[d] \notin {"asking", "append", "appendMark"}
      PROVE  row'[d] \in Active \/ life'[d] \notin {"queued", "inflight"}
  <2>1. (SyncFinal(e) \/ SyncAppend(e)) /\ d = e
    BY <1>4 DEF RequestStep, CallStep, AppendRow, QueueReview, SyncBegin, SyncSubmit, SyncFinal, SyncWaits, SyncFails,
                SyncAppend, SyncMark, ClockStep, RowDue, PollDue, WindowCloses, DeadlinePasses, CloudAdvances, TypeOK
  <2>2. CASE SyncFinal(e)
    BY <1>4, <2>1, <2>2 DEF SyncFinal, Completed, Closed, TypeOK
  <2>3. CASE SyncAppend(e)
    BY <1>4, <2>1, <2>3 DEF SyncAppend, CallPrecedesRow, TypeOK
  <2> QED BY <2>1, <2>2, <2>3
<1> QED BY <1>1, <1>2, <1>3, <1>4, OwnerElsewhere

\* So do the steps of a flush.
LEMMA OwnerFlush ==
  ASSUME TypeOK, ExclusiveInv, OwnerInv, CallPrecedesRow, [Next]_vars, NEW f \in Flushers, FlushStep(f)
  PROVE  OwnerInv'
<1> USE DEF rowVars, pollVars, flushVars
<1>a. \A d \in Events : /\ life[d] # "absent" => life'[d] # "absent"
                        /\ life[d] \in Closed => life'[d] \in Closed
  BY ReviewsStay
<1>r. \A d \in Events : \/ row'[d] = row[d]
                        \/ row[d] \in {"due", "inflight"} /\ row'[d] = "inflight"
                        \/ row[d] = "inflight" /\ d \in HeldRows(f) /\ row'[d] \in {"later", "completed"}
  BY FlushRows
<1>c. call' = call
  BY DEF FlushStep, Sweep, ClaimPolls, ClaimRows, Prepare, PrepareFails, Ask, AskFails, Settle,
         CloseReview, Acknowledge, AcknowledgePolls, Release, Defer, DeferRows, DeferPolls, Finish
<1>o. \A g \in Flushers \ {f} : item'[g] = item[g] /\ pc'[g] = pc[g]
  BY DEF TypeOK, FlushStep, Sweep, ClaimPolls, ClaimRows, Prepare, PrepareFails, Ask, AskFails, Settle,
         CloseReview, Acknowledge, AcknowledgePolls, Release, Defer, DeferRows, DeferPolls, Finish
\* Reviews that the step neither opens nor takes from f keep their owners, if
\* rows it completes are closed or left to be closed by f.
<1>w. ASSUME \A d \in Events : life'[d] \in {"queued", "inflight"} =>
               life[d] \in {"queued", "inflight"} \/ row'[d] \in Active,
             \A d \in Events : item[f][d] \in Closing => item'[f][d] \in Closing \/ life'[d] \in Closed,
             \A d \in Events : row'[d] = "completed" =>
               row[d] = "completed" \/ life'[d] \in Closed \/ item'[f][d] \in Closing
      PROVE  Owned'
  <2> SUFFICES ASSUME NEW d \in Events, life'[d] \in {"queued", "inflight"}
               PROVE  \/ row'[d] \in Active \/ call'[d] \in {"asking", "append", "appendMark"}
                      \/ \E g \in Flushers : item'[g][d] \in Closing
    BY DEF Owned
  <2>0. life'[d] \notin Closed
    BY DEF Closed
  <2>1. CASE row'[d] \in Active
    BY <2>1
  <2>2. CASE row'[d] \notin Active /\ row[d] \in Active
    BY <2>0, <2>2, <1>w, <1>r DEF Active
  <2>3. CASE row'[d] \notin Active /\ row[d] \notin Active
    <3>1. life[d] \in {"queued", "inflight"}
      BY <2>3, <1>w
    <3>2. CASE call[d] \in {"asking", "append", "appendMark"}
      BY <3>2, <1>c
    <3>3. ASSUME NEW g \in Flushers, item[g][d] \in Closing
          PROVE  item'[g][d] \in Closing
      BY <3>3, <1>o, <1>w, <2>0
    <3> QED BY <3>1, <3>2, <3>3, <2>3 DEF OwnerInv, Owned
  <2> QED BY <2>1, <2>2, <2>3
\* Prepared items stay prepared when those of f do.
<1>i. ASSUME \A d \in Events :
               /\ pc'[f] # "working" => item'[f][d] \in {"none", "ask"}
               /\ pc'[f] = "working" /\ item'[f][d] # "none" => life'[d] # "absent"
               /\ item'[f][d] = "complete" => life'[d] \in Closed
      PROVE  ItemsArePrepared'
  BY <1>i, <1>o, <1>a DEF OwnerInv, ItemsArePrepared
<1>k. \A d \in Events :
        /\ pc[f] # "working" => item[f][d] \in {"none", "ask"}
        /\ pc[f] = "working" /\ item[f][d] # "none" => life'[d] # "absent"
        /\ item[f][d] = "complete" => life'[d] \in Closed
  BY <1>a DEF OwnerInv, ItemsArePrepared
<1>q. ASSUME \A d \in Events : row'[d] = "completed" => row[d] = "completed" \/ life'[d] # "absent"
      PROVE  RowsAreReviewed'
  BY <1>q, <1>a DEF OwnerInv, RowsAreReviewed
\* The step leaves the reviews alone and completes no row.
<1>n. ASSUME life' = life, \A d \in Events : row'[d] = "completed" => row[d] = "completed",
             \A d \in Events : item[f][d] \in Closing => item'[f][d] \in Closing,
             ItemsArePrepared'
      PROVE  OwnerInv'
  BY <1>n, <1>w, <1>q DEF OwnerInv
<1>1. CASE Sweep(f)
  <2>1. /\ item' = item /\ row' = row /\ life' = life
        /\ pc[f] = "idle" /\ pc'[f] = "swept"
    BY <1>1 DEF Sweep, TypeOK
  <2>2. ItemsArePrepared'
    BY <2>1, <1>i, <1>k
  <2> QED BY <2>1, <2>2, <1>n
<1>2. CASE ClaimPolls(f) \/ ClaimRows(f)
  <2>1. /\ life' = life /\ pc[f] \in {"swept", "polled"} /\ pc'[f] # "working"
        /\ \A d \in Events : item'[f][d] = item[f][d] \/ item'[f][d] = "ask"
        /\ \A d \in Events : row'[d] = "completed" => row[d] = "completed"
    BY <1>2 DEF ClaimPolls, ClaimRows, Assign, TypeOK
  <2>2. ItemsArePrepared'
    BY <2>1, <1>i, <1>k
  <2>3. \A d \in Events : item[f][d] \notin Closing
    BY <2>1, <1>k DEF Closing
  <2> QED BY <2>1, <2>2, <2>3, <1>n
<1>3. CASE Prepare(f) \/ PrepareFails(f)
  <2>1. row' = row /\ pc[f] = "claimed"
    BY <1>3 DEF Prepare, PrepareFails
  \* What the flush has claimed is in work, or polls for a completed row.
  <2>2. \A d \in Batch(f) : row[d] \in Active \/ row[d] = "completed"
    <3>1. Batch(f) \subseteq Held(f)
      BY <2>1, <1>k DEF Batch, Held
    <3>2. \A d \in Held(f) : d \in HeldRows(f) \/ (d \in Events /\ poll[d] # "absent")
      BY DEF Held, HeldRows, ExclusiveInv, PollFollowsRow
    <3> QED BY <3>1, <3>2 DEF ExclusiveInv, RowsAreLeased, PollFollowsRow, Active
  <2>3. \A d \in Events : life'[d] \in {"queued", "inflight"} =>
          life[d] \in {"queued", "inflight"} \/ row'[d] \in Active
    <3>1. \A d \in Events : life'[d] = life[d] \/ (d \in Batch(f) /\ life[d] \notin Closed)
      BY <1>3 DEF Prepare, PrepareFails, Started, Queued, TypeOK, Closed
    <3>2. \A d \in Events : row[d] = "completed" => life[d] # "absent"
      BY DEF OwnerInv, RowsAreReviewed
    <3> QED BY <2>1, <2>2, <3>1, <3>2 DEF TypeOK
  <2>4. \A d \in Events : item[f][d] \notin Closing
    BY <2>1, <1>k DEF Closing
  <2>5. Owned' /\ RowsAreReviewed'
    BY <2>1, <2>3, <2>4, <1>w, <1>q
  <2>6. CASE Prepare(f)
    <3>1. /\ item' = item /\ pc'[f] = "working"
          /\ \A d \in Events : item[f][d] # "none" => life'[d] # "absent"
      BY <2>6 DEF Prepare, Batch, Started, Queued, TypeOK
    <3>2. \A d \in Events : item[f][d] \in {"none", "ask"}
      BY <2>1, <1>k
    <3>3. ItemsArePrepared'
      BY <3>1, <3>2, <1>i
    <3> QED BY <2>5, <3>3 DEF OwnerInv
  <2>7. CASE PrepareFails(f)
    <3>1. \A d \in Events : item'[f][d] = "none"
      BY <2>7 DEF PrepareFails, NoItems, TypeOK
    <3>2. ItemsArePrepared'
      BY <3>1, <1>i
    <3> QED BY <2>5, <3>2 DEF OwnerInv
  <2> QED BY <1>3, <2>6, <2>7
<1>4. ASSUME NEW e \in Events, Ask(f, e) \/ AskFails(f, e) PROVE OwnerInv'
  <2>1. /\ life' = life /\ row' = row /\ pc' = pc /\ pc[f] = "working" /\ item[f][e] = "ask"
        /\ \A d \in Events : item'[f][d] # item[f][d] => d = e /\ item'[f][d] # "complete"
    <3>1. \A d \in Events : cloud'[d] # "complete"
      BY <1>4 DEF Ask, AskFails, Accepted, TypeOK
    <3> QED BY <1>4, <3>1 DEF Ask, AskFails, TypeOK
  <2>2. ItemsArePrepared'
    BY <2>1, <1>i, <1>k
  <2>3. \A d \in Events : item[f][d] \in Closing => item'[f][d] \in Closing
    BY <2>1 DEF Closing
  <2> QED BY <2>1, <2>2, <2>3, <1>n
<1>5. ASSUME NEW e \in Events, Settle(f, e) PROVE OwnerInv'
  <2>1. /\ row' = row /\ pc' = pc /\ pc[f] = "working" /\ item[f][e] \in Replies
        /\ life' = [life EXCEPT ![e] = Reviewed(f, e)]
        /\ item' = [item EXCEPT ![f][e] = Verdict(f, e)]
    BY <1>5 DEF Settle
  <2>2. /\ life[e] # "absent"
        /\ Verdict(f, e) \in Verdicts
        /\ Verdict(f, e) = "complete" => Reviewed(f, e) = "final"
        /\ Reviewed(f, e) \in {"queued", "inflight"} => life[e] \in {"queued", "inflight"}
    <3>1. life[e] # "absent"
      BY <2>1 DEF OwnerInv, ItemsArePrepared, Replies
    <3> QED BY <2>1, <3>1 DEF Verdict, Verdicts, Reviewed, Completed, Requeued, Closed, TypeOK
  <2>3. \A d \in Events : \/ d # e /\ life'[d] = life[d] /\ item'[f][d] = item[f][d]
                          \/ d = e /\ life'[d] = Reviewed(f, e) /\ item'[f][d] = Verdict(f, e)
    BY <2>1 DEF TypeOK
  <2>4. \A d \in Events : item[f][d] \in Closing => item'[f][d] \in Closing
    BY <2>1, <2>3 DEF Closing, Replies
  <2>5. Owned' /\ RowsAreReviewed'
    BY <2>1, <2>2, <2>3, <2>4, <1>w, <1>q
  <2>6. ItemsArePrepared'
    BY <2>1, <2>2, <2>3, <1>a, <1>i, <1>k DEF Closed, Verdicts
  <2> QED BY <2>5, <2>6 DEF OwnerInv
<1>6. ASSUME NEW e \in Events, CloseReview(f, e) PROVE OwnerInv'
  <2>1. /\ row' = row /\ pc' = pc /\ pc[f] = "working" /\ item[f][e] \in Closing
        /\ \A d \in Events : \/ d # e /\ life'[d] = life[d] /\ item'[f][d] = item[f][d]
                             \/ d = e /\ item'[f][d] = "done"
        /\ life'[e] \in Closed \cup {"absent"}
    BY <1>6 DEF CloseReview, Booked, Settled, Completed, Closed, TypeOK
  <2>2. life[e] # "absent"
    BY <2>1, <1>k DEF OwnerInv, ItemsArePrepared, Closing
  <2>3. life'[e] \in Closed
    BY <2>1, <2>2, <1>a
  <2>4. Owned' /\ RowsAreReviewed'
    BY <2>1, <2>3, <1>w, <1>q DEF Closed
  <2>5. ItemsArePrepared'
    BY <2>1, <1>a, <1>i, <1>k DEF Closing
  <2> QED BY <2>4, <2>5 DEF OwnerInv
<1>7. CASE Acknowledge(f)
  <2> DEFINE S == RowsWith(f, "complete")
  <2>1. /\ row' = Assign(row, S, "completed") /\ life' = life /\ pc' = pc /\ pc[f] = "working"
        /\ item' = [item EXCEPT ![f] = Assign(@, S, "done")]
    BY <1>7 DEF Acknowledge, Settled
  <2>2. \A d \in S : d \in Events /\ item[f][d] = "complete" /\ life'[d] \in Closed /\ life'[d] # "absent"
    BY <1>k DEF RowsWith, Closed
  <2> HIDE DEF S
  <2>3. /\ \A d \in Events : row'[d] = "completed" => row[d] = "completed" \/ d \in S
        /\ \A d \in Events : item'[f][d] = IF d \in S THEN "done" ELSE item[f][d]
    BY <2>1 DEF Assign, TypeOK
  <2>4. Owned' /\ RowsAreReviewed'
    BY <2>1, <2>2, <2>3, <1>w, <1>q DEF Closing
  <2>5. ItemsArePrepared'
    BY <2>1, <2>2, <2>3, <1>i, <1>k
  <2> QED BY <2>4, <2>5 DEF OwnerInv
\* What is put back, or set aside, is neither closing nor completed.
<1>8. ASSUME NEW S, NEW v \in Verdicts, \A d \in S : item[f][d] = v,
             item' = [item EXCEPT ![f] = Assign(@, S, "done")], life' = life, pc' = pc, pc[f] = "working",
             \A d \in Events : row'[d] = "completed" => row[d] = "completed"
      PROVE  OwnerInv'
  <2>1. \A d \in Events : item'[f][d] = IF d \in S THEN "done" ELSE item[f][d]
    BY <1>8 DEF Assign, TypeOK
  <2>2. ItemsArePrepared'
    BY <1>8, <2>1, <1>i, <1>k DEF Verdicts
  <2>3. \A d \in Events : item[f][d] \in Closing => item'[f][d] \in Closing
    BY <1>8, <2>1 DEF Closing, Verdicts
  <2> QED BY <1>8, <2>2, <2>3, <1>n
<1>9. CASE Release(f)
  <2>1. \A d \in Events : row'[d] = "completed" => row[d] = "completed"
    BY <1>9 DEF Release, Assign
  <2>2. /\ item' = [item EXCEPT ![f] = Assign(@, RowsWith(f, "retry"), "done")]
        /\ life' = life /\ pc' = pc /\ pc[f] = "working"
    BY <1>9 DEF Release, Settled
  <2>3. \A d \in RowsWith(f, "retry") : item[f][d] = "retry"
    BY DEF RowsWith
  <2> QED BY <2>1, <2>2, <2>3, <1>8 DEF Verdicts
<1>10. ASSUME NEW v \in Verdicts, AcknowledgePolls(f) \/ DeferPolls(f, v) PROVE OwnerInv'
  <2>1. PICK u \in Verdicts : /\ item' = [item EXCEPT ![f] = Assign(@, PollsWith(f, u), "done")]
                              /\ row' = row /\ life' = life /\ pc' = pc /\ pc[f] = "working"
    BY <1>10 DEF AcknowledgePolls, DeferPolls, Settled, Verdicts
  <2>2. \A d \in PollsWith(f, u) : item[f][d] = u
    BY DEF PollsWith
  <2> QED BY <2>1, <2>2, <1>8
<1>11. ASSUME NEW v \in {"wait", "partialWait"}, NEW closing \in Closing, DeferRows(f, v, closing) PROVE OwnerInv'
  <2> DEFINE S == RowsWith(f, v)
             X == Expired(S)
  <2>1. /\ row' = [d \in Events |-> IF d \in X THEN "completed" ELSE IF d \in S THEN "later" ELSE row[d]]
        /\ item' = [item EXCEPT ![f] = [d \in Events |-> IF d \in X THEN closing
                                                         ELSE IF d \in S THEN "done" ELSE @[d]]]
        /\ life' = life /\ pc' = pc /\ pc[f] = "working"
    BY <1>11 DEF DeferRows, Settled
  <2>2. X \subseteq S /\ S \subseteq Events /\ \A d \in S : item[f][d] = v
    BY DEF Expired, RowsWith
  <2> HIDE DEF X, S
  <2>3. /\ \A d \in Events : row'[d] = "completed" => row[d] = "completed" \/ d \in X
        /\ \A d \in Events : item'[f][d] = IF d \in X THEN closing ELSE IF d \in S THEN "done" ELSE item[f][d]
    BY <2>1, <2>2 DEF TypeOK
  <2>4. \A d \in S : life'[d] # "absent"
    BY <2>1, <2>2, <1>k
  <2>5. \A d \in Events : item[f][d] \in Closing => item'[f][d] \in Closing
    BY <2>2, <2>3 DEF Closing
  <2>6. Owned' /\ RowsAreReviewed'
    BY <2>1, <2>2, <2>3, <2>4, <2>5, <1>w, <1>q
  <2>7. ItemsArePrepared'
    BY <2>1, <2>2, <2>3, <2>4, <1>i, <1>k DEF Closing
  <2> QED BY <2>6, <2>7 DEF OwnerInv
<1>12. CASE Finish(f)
  <2>1. /\ life' = life /\ row' = row
        /\ \A d \in Events : item[f][d] \in {"none", "done"} /\ item'[f][d] = "none"
    BY <1>12 DEF Finish, NoItems, TypeOK
  <2>2. ItemsArePrepared'
    BY <2>1, <1>i
  <2>3. \A d \in Events : item[f][d] \in Closing => item'[f][d] \in Closing
    BY <2>1 DEF Closing
  <2> QED BY <2>1, <2>2, <2>3, <1>n
<1> QED
  BY <1>1, <1>2, <1>3, <1>4, <1>5, <1>6, <1>7, <1>9, <1>10, <1>11, <1>12
  DEF FlushStep, Defer, Verdicts, Closing

\* As long as nothing crashes, every step keeps the owners.
LEMMA OwnerStep ==
  ASSUME TypeOK, ExclusiveInv, OwnerInv, CallPrecedesRow, [Next]_vars, ~Crash
  PROVE  OwnerInv'
<1>1. ASSUME NEW e \in Events, RequestStep(e) \/ ClockStep(e) \/ CloudAdvances(e) PROVE OwnerInv'
  BY <1>1, OwnerRequests
<1>2. ASSUME NEW f \in Flushers, FlushStep(f) PROVE OwnerInv'
  BY <1>2, OwnerFlush
<1>3. CASE (\E l \in SUBSET Events : LeaseEnds(l) \/ PollLeaseEnds(l)) \/ UNCHANGED vars
  <2>1. item' = item /\ pc' = pc /\ row' = row /\ life' = life /\ call' = call
    BY <1>3 DEF LeaseEnds, PollLeaseEnds, vars, rowVars, pollVars, flushVars
  <2> QED BY <2>1, OwnerElsewhere
<1> QED BY <1>1, <1>2, <1>3 DEF Next

-----------------------------------------------------------------------------
(* The order of outcomes, when one thread flushes.                         *)

\* An item that is going to close its review with less than the final result
\* has no final review, and no row once its wait is over.
Provisional == {"held", "partial", "wait", "partialWait"} \cup Closing
LateInv ==
  \A f \in Flushers, e \in Events :
    /\ item[f][e] \in Closing => row[e] = "completed"
    /\ item[f][e] \in Provisional => life[e] # "final"

\* A single flush keeps LateInv: it does not find a final result for an item it
\* has already settled as provisional, and no request does while there is a row.
LEMMA LateFlush ==
  ASSUME TypeOK, ExclusiveInv, FinalInv, LateInv, [Next]_vars,
         \A g, h \in Flushers : g = h, NEW f \in Flushers, FlushStep(f)
  PROVE  LateInv'
<1> USE DEF rowVars, pollVars, flushVars
<1>r. \A d \in Events : row[d] = "completed" => row'[d] = "completed"
  BY FlushRows
<1>k. \A d \in Events : /\ item[f][d] \in Closing => row'[d] = "completed"
                        /\ item[f][d] \in Provisional => life[d] # "final"
  BY <1>r DEF LateInv
\* It is enough to look at the items the step changes or closes.
<1>i. ASSUME \A d \in Events :
               \/ item'[f][d] \notin Provisional
               \/ item'[f][d] = item[f][d] /\ (life'[d] = "final" => life[d] = "final")
               \/ item'[f][d] \in Closing /\ row'[d] = "completed" /\ life'[d] # "final"
               \/ item'[f][d] \notin Closing /\ life'[d] # "final"
      PROVE  LateInv'
  <2>1. \A d \in Events : /\ item'[f][d] \in Closing => row'[d] = "completed"
                          /\ item'[f][d] \in Provisional => life'[d] # "final"
    BY <1>i, <1>k DEF Provisional
  <2> QED BY <2>1 DEF LateInv
<1>1. CASE Sweep(f) \/ Prepare(f)
  BY <1>1, <1>i DEF Sweep, Prepare, Started, Queued
<1>2. CASE PrepareFails(f) \/ Finish(f)
  BY <1>2, <1>i DEF PrepareFails, Finish, NoItems, TypeOK, Provisional, Closing
<1>3. ASSUME NEW S, NEW v \in {"ask", "done"}, life' = life, item' = [item EXCEPT ![f] = Assign(@, S, v)]
      PROVE  LateInv'
  <2>1. \A d \in Events : item'[f][d] = item[f][d] \/ item'[f][d] = v
    BY <1>3 DEF Assign, TypeOK
  <2> QED BY <1>3, <2>1, <1>i DEF Provisional, Closing
<1>4. CASE ClaimPolls(f) \/ ClaimRows(f) \/ Acknowledge(f) \/ AcknowledgePolls(f) \/ Release(f)
  BY <1>4, <1>3 DEF ClaimPolls, ClaimRows, Acknowledge, AcknowledgePolls, Release
<1>5. ASSUME NEW v, DeferPolls(f, v) PROVE LateInv'
  BY <1>5, <1>3 DEF DeferPolls
\* An answer that is not final contradicts a review closed as final.
<1>6. ASSUME NEW e \in Events, Ask(f, e) \/ AskFails(f, e) PROVE LateInv'
  <2>1. /\ life' = life
        /\ \A d \in Events : item'[f][d] = item[f][d] \/ (d = e /\ item'[f][d] \in {"error", "broken", cloud'[e]})
    BY <1>6 DEF Ask, AskFails, TypeOK
  <2>2. cloud'[e] # "final" => life[e] # "final"
    BY CloudNeverForgets DEF FinalInv
  <2>3. cloud'[e] \in CloudStates
    BY <1>6 DEF Ask, AskFails, Accepted, TypeOK, CloudStates
  <2> QED BY <2>1, <2>2, <2>3, <1>i DEF Provisional, Closing, CloudStates
<1>7. ASSUME NEW e \in Events, Settle(f, e) PROVE LateInv'
  <2>1. \A d \in Events : \/ d # e /\ life'[d] = life[d] /\ item'[f][d] = item[f][d]
                          \/ d = e /\ life'[d] = Reviewed(f, e) /\ item'[f][d] = Verdict(f, e)
    BY <1>7 DEF Settle, TypeOK
  <2>2. Verdict(f, e) \in {"wait", "partialWait"} => item[f][e] \in {"held", "partial"}
    BY <1>7 DEF Settle, Verdict, Replies
  <2>3. item[f][e] \in {"held", "partial"} => Reviewed(f, e) # "final"
    BY <1>k DEF Reviewed, Requeued, Closed, Provisional
  <2>4. Verdict(f, e) \in Verdicts
    BY <1>7 DEF Settle, Verdict, Verdicts
  <2> QED BY <2>1, <2>2, <2>3, <2>4, <1>i DEF Provisional, Closing, Verdicts
<1>8. ASSUME NEW e \in Events, CloseReview(f, e) PROVE LateInv'
  <2>1. \A d \in Events : \/ d # e /\ life'[d] = life[d] /\ item'[f][d] = item[f][d]
                          \/ d = e /\ item'[f][d] = "done"
    BY <1>8 DEF CloseReview, TypeOK
  <2> QED BY <2>1, <1>i DEF Provisional, Closing
<1>9. ASSUME NEW v \in {"wait", "partialWait"}, NEW closing \in Closing, DeferRows(f, v, closing) PROVE LateInv'
  <2> DEFINE S == RowsWith(f, v)
             X == Expired(S)
  <2>1. /\ row' = [d \in Events |-> IF d \in X THEN "completed" ELSE IF d \in S THEN "later" ELSE row[d]]
        /\ item' = [item EXCEPT ![f] = [d \in Events |-> IF d \in X THEN closing
                                                         ELSE IF d \in S THEN "done" ELSE @[d]]]
        /\ life' = life
    BY <1>9 DEF DeferRows
  <2>2. X \subseteq S /\ \A d \in S : d \in Events /\ item[f][d] = v
    BY DEF Expired, RowsWith
  <2> HIDE DEF X, S
  <2>3. /\ \A d \in Events : d \in X => row'[d] = "completed" /\ item'[f][d] = closing /\ life'[d] # "final"
        /\ \A d \in Events : d \notin X => item'[f][d] \in {"done", item[f][d]}
    BY <2>1, <2>2, <1>k DEF TypeOK, Provisional
  <2> QED BY <2>1, <2>3, <1>i DEF Provisional, Closing
<1> QED
  BY <1>1, <1>2, <1>4, <1>5, <1>6, <1>7, <1>8, <1>9 DEF FlushStep, Defer, Closing

\* So does everything else, crashes included: a request that gets its final
\* result has no row yet, so its review is in no hand.
LEMMA LateStep ==
  ASSUME TypeOK, ExclusiveInv, FinalInv, CallPrecedesRow, LateInv, [Next]_vars,
         \A g, h \in Flushers : g = h
  PROVE  LateInv'
<1> USE DEF rowVars, pollVars, flushVars, vars
<1>1. ASSUME item' = item, life' = life, \A d \in Events : row[d] = "completed" => row'[d] = "completed"
      PROVE  LateInv'
  BY <1>1 DEF LateInv
<1>2. ASSUME NEW e \in Events, RequestStep(e) PROVE LateInv'
  <2>1. /\ item' = item
        /\ \A d \in Events : row[d] = "completed" => row'[d] = "completed"
    BY <1>2 DEF TypeOK, RequestStep, CallStep, AppendRow, QueueReview, SyncBegin, SyncSubmit, SyncFinal, SyncWaits,
                SyncFails, SyncAppend, SyncMark
  <2>2. \A d \in Events : life'[d] = "final" => life[d] = "final" \/ (d = e /\ row[e] = "absent")
    BY <1>2 DEF TypeOK, RequestStep, CallStep, AppendRow, QueueReview, SyncBegin, SyncSubmit, SyncFinal, SyncWaits,
                SyncFails, SyncAppend, SyncMark, Queued, Started, Requeued, CallPrecedesRow
  <2>3. ASSUME NEW f \in Flushers, item[f][e] \in Provisional
        PROVE  row[e] # "absent"
    <3>1. CASE item[f][e] \in Closing
      BY <3>1 DEF LateInv
    <3>2. CASE item[f][e] \notin Closing
      <4>1. e \in Held(f)
        BY <2>3, <3>2 DEF Held, Provisional, Replies, Verdicts
      <4>2. e \in HeldRows(f) \/ poll[e] # "absent"
        BY <4>1 DEF HeldRows, ExclusiveInv, PollFollowsRow
      <4> QED BY <4>2 DEF ExclusiveInv, RowsAreLeased, PollFollowsRow
    <3> QED BY <3>1, <3>2
  <2> QED BY <2>1, <2>2, <2>3 DEF LateInv
<1>3. CASE \E f \in Flushers : FlushStep(f)
  BY <1>3, LateFlush
<1>4. CASE \E e \in Events : ClockStep(e) \/ CloudAdvances(e)
  BY <1>1, <1>4 DEF TypeOK, ClockStep, RowDue, PollDue, WindowCloses, DeadlinePasses, CloudAdvances
<1>5. CASE (\E l \in SUBSET Events : LeaseEnds(l) \/ PollLeaseEnds(l)) \/ UNCHANGED vars
  BY <1>1, <1>5 DEF LeaseEnds, PollLeaseEnds
<1>6. CASE Crash
  BY <1>6 DEF Crash, NoItems, LateInv, Provisional, Closing
<1> QED BY <1>2, <1>3, <1>4, <1>5, <1>6 DEF Next

\* Every step moves reviews forward, save one that closes with less a review
\* that has the final result already.
Overtaken(d) == life[d] = "final" /\ \E f \in Flushers : CloseReview(f, d)

LEMMA ReviewsImprove ==
  ASSUME TypeOK, [Next]_vars
  PROVE  \A d \in Events : Overtaken(d) \/ Rank(life[d]) <= Rank(life'[d])
<1> USE DEF rowVars, pollVars, flushVars, vars
<1> DEFINE Open == {"queued", "inflight"}
           Forward(a, b) == \/ a = b \/ b = "final"
                            \/ a \in {"absent"} \cup Open /\ b \in Open
                            \/ a # "final" /\ b \in {"partial", "local"}
<1>0. \A d \in Events : life[d] \in {"absent"} \cup Open \cup Closed
  BY DEF TypeOK
<1>1. ASSUME NEW a \in {"absent"} \cup Open \cup Closed, NEW b, Forward(a, b) PROVE Rank(a) <= Rank(b)
  <2>1. CASE a = b
    <3>1. Rank(a) \in {0, 1, 2, 3}
      BY DEF Rank
    <3> QED BY <2>1, <3>1
  <2>2. CASE b = "final"
    BY <2>2 DEF Rank
  <2>3. CASE a \in {"absent"} \cup Open /\ b \in Open
    BY <2>3 DEF Rank
  <2>4. CASE a # "final" /\ b \in {"partial", "local"}
    BY <2>4 DEF Rank, Closed
  <2> QED BY <1>1, <2>1, <2>2, <2>3, <2>4
<1>2. CASE life' = life
  <2>1. \A d \in Events : Forward(life[d], life'[d])
    BY <1>2
  <2> QED BY <1>0, <1>1, <2>1
<1>3. ASSUME NEW e \in Events, RequestStep(e) PROVE \A d \in Events : Forward(life[d], life'[d])
  BY <1>3 DEF TypeOK, Closed, Queued, Started, Requeued, Completed, RequestStep, CallStep, AppendRow, QueueReview,
              SyncBegin, SyncSubmit, SyncFinal, SyncWaits, SyncFails, SyncAppend, SyncMark
<1>4. ASSUME NEW f \in Flushers, FlushStep(f), life' # life
      PROVE  \A d \in Events : Overtaken(d) \/ Forward(life[d], life'[d])
  <2>1. CASE Prepare(f) \/ PrepareFails(f)
    BY <2>1 DEF TypeOK, Closed, Queued, Started, Prepare, PrepareFails
  <2>2. ASSUME NEW e \in Events, Settle(f, e) PROVE \A d \in Events : Forward(life[d], life'[d])
    BY <2>2 DEF TypeOK, Closed, Completed, Requeued, Reviewed, Settle
  <2>3. ASSUME NEW e \in Events, CloseReview(f, e) PROVE \A d \in Events : Overtaken(d) \/ Forward(life[d], life'[d])
    BY <2>3 DEF Overtaken, TypeOK, Completed, CloseReview
  <2> QED
    BY <1>4, <2>1, <2>2, <2>3
    DEF FlushStep, Sweep, ClaimPolls, ClaimRows, Ask, AskFails, Acknowledge, AcknowledgePolls, Release, Defer,
        DeferRows, DeferPolls, Finish
<1>5. CASE \E e \in Events : ClockStep(e) \/ CloudAdvances(e)
  BY <1>2, <1>5 DEF ClockStep, RowDue, PollDue, WindowCloses, DeadlinePasses, CloudAdvances
<1>6. CASE (\E l \in SUBSET Events : LeaseEnds(l) \/ PollLeaseEnds(l)) \/ Crash \/ UNCHANGED vars
  BY <1>2, <1>6 DEF LeaseEnds, PollLeaseEnds, Crash
<1> HIDE DEF Forward
<1> QED BY <1>0, <1>1, <1>2, <1>3, <1>4, <1>5, <1>6 DEF Next

-----------------------------------------------------------------------------

\* What the proofs above have in common, at any moment.
LEMMA Common == Spec => [](TypeOK /\ ExclusiveInv /\ FinalInv /\ CallPrecedesRow)
<1>1. Init => ExclusiveInv /\ FinalInv /\ CallPrecedesRow
  BY ExclusiveInit DEF Init, FinalInv, NoItems, CallPrecedesRow
<1>2. TypeOK /\ ExclusiveInv /\ FinalInv /\ CallPrecedesRow /\ [Next]_vars
        => (ExclusiveInv /\ FinalInv /\ CallPrecedesRow)'
  BY ExclusiveStep, FinalStep, CallStays
<1> QED BY <1>1, <1>2, TypeCorrect, PTL DEF Spec

\* While the process runs, however many threads flush beside the requests, an
\* open review has a row in work, a request that waits, or a flush that is
\* about to close it (queue, start, acknowledge, defer_aggregation_wait).
THEOREM ReviewsAreOwned ==
  ASSUME MaxCrashes = 0
  PROVE  Spec => []OpenReviewHasOwner
<1>1. Init => OwnerInv
  BY DEF Init, OwnerInv, Owned, RowsAreReviewed, ItemsArePrepared, NoItems
<1>2. TypeOK => ~Crash
  BY DEF TypeOK, Crash
<1>3. TypeOK /\ ExclusiveInv /\ FinalInv /\ CallPrecedesRow /\ OwnerInv /\ [Next]_vars => OwnerInv'
  BY <1>2, OwnerStep
<1>4. OwnerInv => OpenReviewHasOwner
  BY DEF OwnerInv, Owned, OpenReviewHasOwner
<1> QED BY <1>1, <1>3, <1>4, Common, PTL DEF Spec

\* With any number of threads that flush, and whatever crashes, there is one way
\* back only: a flush that found the wait over closes the review after another
\* has adopted the final result, and that result is still in the cloud
\* (complete, which does not look at the stage it replaces).
OnlyClosingTurnsBack ==
  [][\A e \in Events : Rank(life'[e]) < Rank(life[e]) =>
       /\ life[e] = "final" /\ cloud[e] = "final"
       /\ \E f \in Flushers : pc[f] = "working" /\ item[f][e] \in Closing]_vars

THEOREM OneWayBack == Spec => OnlyClosingTurnsBack
<1>1. ASSUME TypeOK, FinalInv, [Next]_vars, NEW e \in Events, Rank(life'[e]) < Rank(life[e])
      PROVE  /\ life[e] = "final" /\ cloud[e] = "final"
             /\ \E f \in Flushers : pc[f] = "working" /\ item[f][e] \in Closing
  <2>1. Rank(life[e]) \in Nat /\ Rank(life'[e]) \in Nat
    BY DEF Rank
  <2>2. Overtaken(e)
    BY <1>1, <2>1, ReviewsImprove
  <2> QED BY <1>1, <2>2 DEF Overtaken, CloseReview, Booked, Settled, FinalInv
<1>2. TypeOK /\ FinalInv /\ [Next]_vars =>
        [\A e \in Events : Rank(life'[e]) < Rank(life[e]) =>
           /\ life[e] = "final" /\ cloud[e] = "final"
           /\ \E f \in Flushers : pc[f] = "working" /\ item[f][e] \in Closing]_vars
  BY <1>1
<1> QED BY <1>2, Common, PTL DEF Spec, OnlyClosingTurnsBack

\* With one thread that flushes, whatever crashes, a review goes from open over
\* a provisional outcome to the final one and never back (complete, retry,
\* the closing of timed-out reviews in flush_pending).
THEOREM OutcomesOnlyImprove ==
  ASSUME \A f, g \in Flushers : f = g
  PROVE  Spec => ReviewsOnlyImprove
<1>1. Init => LateInv
  BY DEF Init, LateInv, NoItems, Provisional, Closing
<1>2. TypeOK /\ ExclusiveInv /\ FinalInv /\ CallPrecedesRow /\ LateInv /\ [Next]_vars => LateInv'
  BY LateStep
<1>3. TypeOK /\ LateInv /\ [Next]_vars => [\A e \in Events : Rank(life[e]) <= Rank(life'[e])]_vars
  <2>1. LateInv => \A e \in Events : ~Overtaken(e)
    BY DEF LateInv, Overtaken, CloseReview, Provisional
  <2> QED BY <2>1, ReviewsImprove
<1> QED BY <1>1, <1>2, <1>3, Common, PTL DEF Spec, ReviewsOnlyImprove

-----------------------------------------------------------------------------
(* The cloud as an aggregator provides it.                                 *)

\* All that can happen to what the cloud knows.
LEMMA CloudSteps ==
  ASSUME [Next]_vars
  PROVE  \/ cloud' = cloud
         \/ \E e \in Events : \/ cloud' = [cloud EXCEPT ![e] = Accepted(e)]
                              \/ SyncFinal(e) \/ CloudAdvances(e)
<1> USE DEF rowVars, pollVars, flushVars, vars
<1>1. ASSUME NEW e \in Events, RequestStep(e)
      PROVE  cloud' = cloud \/ cloud' = [cloud EXCEPT ![e] = Accepted(e)] \/ SyncFinal(e)
  BY <1>1 DEF RequestStep, CallStep, AppendRow, QueueReview, SyncBegin, SyncSubmit, SyncWaits,
              SyncFails, SyncAppend, SyncMark
<1>2. ASSUME NEW f \in Flushers, FlushStep(f)
      PROVE  cloud' = cloud \/ \E e \in Events : cloud' = [cloud EXCEPT ![e] = Accepted(e)]
  BY <1>2 DEF FlushStep, Sweep, ClaimPolls, ClaimRows, Prepare, PrepareFails, Ask, AskFails, Settle,
              CloseReview, Acknowledge, AcknowledgePolls, Release, Defer, DeferRows, DeferPolls, Finish
<1>3. CASE \E e \in Events : ClockStep(e)
  BY <1>3 DEF ClockStep, RowDue, PollDue, WindowCloses, DeadlinePasses
<1>4. CASE (\E l \in SUBSET Events : LeaseEnds(l) \/ PollLeaseEnds(l)) \/ Crash \/ UNCHANGED vars
  BY <1>4 DEF LeaseEnds, PollLeaseEnds, Crash
<1> QED BY <1>1, <1>2, <1>3, <1>4 DEF Next

\* Requests and flushes, however many and whatever they lose, use the cloud as
\* CloudAnswer allows: they submit a summary once, and what is decided about
\* it only the cloud decides.
THEOREM CloudIsCloudAnswer == Spec => CloudIsAnAggregator
<1>1. Init => \A e \in Events \ Regular : Cloud(e)!AnswerInit
  BY DEF Init, Cloud!AnswerInit
<1>2. ASSUME TypeOK, Next, NEW e \in Events \ Regular
      PROVE  Cloud(e)!AnswerNext \/ UNCHANGED cloud[e]
  <2>1. ASSUME NEW d \in Events, cloud' = [cloud EXCEPT ![d] = Accepted(d)]
        PROVE  Cloud(e)!AnswerNext \/ UNCHANGED cloud[e]
    BY <1>2, <2>1 DEF TypeOK, Accepted, Cloud!AnswerNext, Cloud!Hold
  <2>2. ASSUME NEW d \in Events, SyncFinal(d)
        PROVE  UNCHANGED cloud[e]
    BY <1>2, <2>2 DEF TypeOK, SyncFinal, Accepted
  <2>3. ASSUME NEW d \in Events, CloudAdvances(d)
        PROVE  Cloud(e)!AnswerNext \/ UNCHANGED cloud[e]
    BY <1>2, <2>3 DEF TypeOK, CloudAdvances, Cloud!AnswerNext, Cloud!Decide
  <2> QED BY <1>2, <2>1, <2>2, <2>3, CloudSteps
<1>3. TypeOK /\ [Next]_vars =>
        [\A e \in Events \ Regular : Cloud(e)!AnswerNext \/ UNCHANGED cloud[e]]_vars
  BY <1>2
<1> QED BY <1>1, <1>3, TypeCorrect, PTL DEF Spec, CloudIsAnAggregator

\* Conversely nothing a CloudAnswer may decide is left out: at any moment, and
\* with nothing else happening, it is a step of this module.
THEOREM EveryDecisionIsCovered ==
  ASSUME TypeOK, NEW e \in Events \ Regular,
         Cloud(e)!Decide, cloud' = [cloud EXCEPT ![e] = cloud'[e]],
         UNCHANGED <<rowVars, pollVars, life, call, flushVars, crashes>>
  PROVE  CloudAdvances(e)
BY DEF CloudAdvances, Cloud!Decide
=============================================================================
