---------------------------- MODULE MonitorProofs ----------------------------
(***************************************************************************)
(* Proofs about CalibrationMonitor for any events, threads and policy: its *)
(* type invariant, and that neither a failing database nor a close at any  *)
(* moment loses an observation out of sight, takes the connection from the *)
(* worker or queues an observation for a worker that is gone.              *)
(***************************************************************************)
EXTENDS CalibrationMonitor, TLAPS

-----------------------------------------------------------------------------
(* Types.                                                                  *)

LifeTypes == [accepting: BOOLEAN, closing: BOOLEAN, stop: BOOLEAN, failed: BOOLEAN,
              finalize: BOOLEAN, closed: BOOLEAN, late: BOOLEAN, timedOut: BOOLEAN,
              closer: {"open", "drain", "leave", "stop", "join", "closed"}]
CacheTypes == [status: Statuses, published: Statuses, lag: Nat, aged: BOOLEAN]
TableTypes == [Events -> {"absent", "unlabelled"} \cup Labels]

(* TypeOK with its record types named.                                     *)
LEMMA Types ==
    TypeOK <=>
        /\ table \in TableTypes
        /\ queue \in Seq(Events) /\ Len(queue) <= Capacity
        /\ hand \in Events \cup {NoEvent}
        /\ pc \in [Threads -> {"idle"} \cup WorkerLabels]
        /\ view \in [Threads -> Statuses]
        /\ cache \in CacheTypes
        /\ life \in LifeTypes
        /\ accepted \subseteq Events
        /\ failed \subseteq Events
BY DEF TypeOK, TableTypes, CacheTypes, LifeTypes

(* The scene is fine or degraded.                                          *)
LEMMA VerdictType == Verdict \in Statuses
BY DEF Verdict, Statuses

(* Every thread that evaluates is one of the threads.                      *)
LEMMA ThreadTypes == Worker \in Threads /\ Requests \subseteq Threads
BY DEF Threads

(* The initial state, after the database has been read.                    *)
LEMMA TypeInit == Init => TypeOK
<1> SUFFICES ASSUME Init PROVE TypeOK
  OBVIOUS
<1>1. table \in TableTypes
  BY DEF Init, TableTypes
<1>2. queue \in Seq(Events) /\ Len(queue) <= Capacity
  BY PolicyAssumption DEF Init
<1>3. hand \in Events \cup {NoEvent} /\ accepted \subseteq Events /\ failed \subseteq Events
  BY DEF Init
<1>4. pc \in [Threads -> {"idle"} \cup WorkerLabels] /\ view \in [Threads -> Statuses]
  BY DEF Init, WorkerLabels, Statuses
<1>5. cache \in CacheTypes
  BY VerdictType DEF Init, CacheTypes, Warm, Statuses
<1>6. life \in LifeTypes
  BY DEF Init, LifeTypes
<1> QED
  BY <1>1, <1>2, <1>3, <1>4, <1>5, <1>6, Types

(* A step that changes where a thread is leaves the types alone.           *)
LEMMA GotoType ==
    ASSUME pc \in [Threads -> {"idle"} \cup WorkerLabels],
           NEW t \in Threads, NEW label \in {"idle"} \cup WorkerLabels, Goto(t, label)
    PROVE  pc' \in [Threads -> {"idle"} \cup WorkerLabels]
BY DEF Goto

(* Evaluating, by any thread.                                              *)
LEMMA EvaluationType ==
    ASSUME TypeOK, NEW t \in Threads, Evaluation(t)
    PROVE  TypeOK'
<1>1. CASE ReadRows(t)
  <2>1. pc' \in [Threads -> {"idle"} \cup WorkerLabels]
    BY <1>1, GotoType, Types DEF ReadRows, WorkerLabels
  <2>2. view' \in [Threads -> Statuses]
    BY <1>1, VerdictType, Types DEF ReadRows
  <2> QED
    BY <1>1, <2>1, <2>2, Types DEF ReadRows, TypeOK
<1>2. CASE ReadFails(t)
  <2>1. pc' \in [Threads -> {"idle"} \cup WorkerLabels]
    BY <1>2, GotoType, Types DEF ReadFails, WorkerLabels
  <2> QED
    BY <1>2, <2>1, Types DEF ReadFails, TypeOK
<1>3. CASE Store(t)
  <2>1. pc' \in [Threads -> {"idle"} \cup WorkerLabels]
    BY <1>3, GotoType, Types DEF Store, WorkerLabels
  <2>2. cache' \in CacheTypes
    BY <1>3, Types DEF Store, CacheTypes
  <2> QED
    BY <1>3, <2>1, <2>2, Types DEF Store, TypeOK, CacheTypes
<1>4. CASE Publish(t)
  <2>1. pc' \in [Threads -> {"idle"} \cup WorkerLabels]
    BY <1>4, GotoType, Types DEF Publish, WorkerLabels
  <2>2. cache' \in CacheTypes
    BY <1>4, Types DEF Publish, CacheTypes
  <2>3. view' \in [Threads -> Statuses]
    BY <1>4, Types DEF Publish, Statuses
  <2> QED
    BY <1>4, <2>1, <2>2, <2>3, Types DEF Publish, TypeOK, CacheTypes
<1> QED
  BY <1>1, <1>2, <1>3, <1>4 DEF Evaluation

(* What the endpoints start.                                               *)
LEMMA RequestType ==
    ASSUME TypeOK, NEW t \in Requests, Request(t)
    PROVE  TypeOK'
<1>1. CASE Evaluate(t)
  <2>1. pc' \in [Threads -> {"idle"} \cup WorkerLabels]
    BY <1>1, GotoType, ThreadTypes, Types DEF Evaluate, WorkerLabels
  <2> QED
    BY <1>1, <2>1, Types DEF Evaluate, TypeOK
<1>2. ASSUME NEW e \in Events, NEW label \in Labels, Label(t, e, label) PROVE TypeOK'
  <2>1. pc' \in [Threads -> {"idle"} \cup WorkerLabels]
    BY <1>2, GotoType, ThreadTypes, Types DEF Label, WorkerLabels
  <2>2. table' \in TableTypes
    BY <1>2, Types DEF Label, TableTypes
  <2> QED
    BY <1>2, <2>1, <2>2, Types DEF Label, TypeOK, TableTypes
<1> QED
  BY <1>1, <1>2 DEF Request

-----------------------------------------------------------------------------
(* The inductive invariant.                                                *)

\* The worker has an observation in hand from Take to Done or Abandon.
Busy == {"persist", "register", "snapshot", "read", "store", "publish", "done",
         "fail", "abandon"}
HandHeld == pc[Worker] \in Busy <=> hand # NoEvent

\* What it has in hand when it lets go of it is stored or counted.
HandStored == pc[Worker] \in {"register", "snapshot", "read", "store", "publish", "done"} =>
                 hand \in Rows
HandCounted == pc[Worker] = "abandon" => hand \in failed /\ life.failed

\* close refuses observations first and stops the worker last.
ClosesInOrder ==
    /\ life.closing => ~life.accepting
    /\ life.closer # "open" => life.closing
    /\ life.stop => life.closing

\* A worker that has left its loop has failed or was told to.
Ended == {"exit", "finalize", "ending", "dead"}
LeavesForAReason == pc[Worker] \in Ended => life.failed \/ life.closing

\* The connection is closed by a worker that is through, or after its end.
ClosedLast == life.closed => pc[Worker] \in {"ending", "dead"}

\* After a close in time nothing is left to do and nobody to do it.
DrainedInTime ==
    life.closer = "closed" /\ ~life.timedOut =>
        Dead /\ life.closed /\ queue = <<>> /\ hand = NoEvent

Flow == HandHeld /\ HandStored /\ HandCounted /\ AcceptedIsVisible
Ending == ClosesInOrder /\ LeavesForAReason /\ ClosedLast /\ DrainedInTime
Inv == TypeOK /\ Flow /\ Ending

-----------------------------------------------------------------------------
(* The worker's own steps.                                                 *)
LEMMA WorkerType ==
    ASSUME TypeOK, HandHeld, WorkerStep
    PROVE  TypeOK'
<1> USE Types, ThreadTypes
<1>1. CASE Check
  <2>1. pc' \in [Threads -> {"idle"} \cup WorkerLabels]
    BY <1>1, GotoType DEF Check, WorkerLabels
  <2> QED
    BY <1>1, <2>1 DEF Check, TypeOK
<1>2. CASE Take
  <2>1. pc' \in [Threads -> {"idle"} \cup WorkerLabels]
    BY <1>2, GotoType DEF Take, WorkerLabels
  <2>2. hand' \in Events /\ queue' \in Seq(Events) /\ Len(queue') <= Capacity
    BY <1>2, PolicyAssumption DEF Take
  <2> QED
    BY <1>2, <2>1, <2>2 DEF Take, TypeOK
<1>3. CASE FindEmpty
  <2>1. pc' \in [Threads -> {"idle"} \cup WorkerLabels]
    BY <1>3, GotoType DEF FindEmpty, WorkerLabels
  <2> QED
    BY <1>3, <2>1 DEF FindEmpty, TypeOK
<1>4. CASE LeaveIfClosing
  <2>1. pc' \in [Threads -> {"idle"} \cup WorkerLabels]
    BY <1>4, GotoType DEF LeaveIfClosing, WorkerLabels
  <2> QED
    BY <1>4, <2>1 DEF LeaveIfClosing, TypeOK
<1>5. CASE Persist
  <2>1. pc' \in [Threads -> {"idle"} \cup WorkerLabels]
    BY <1>5, GotoType DEF Persist, WorkerLabels
  <2>2. table' \in TableTypes
    BY <1>5 DEF Persist, TableTypes
  <2> QED
    BY <1>5, <2>1, <2>2 DEF Persist, TypeOK, TableTypes
<1>6. CASE Register
  <2>1. pc' \in [Threads -> {"idle"} \cup WorkerLabels]
    BY <1>6, GotoType DEF Register, WorkerLabels
  <2>2. cache' \in CacheTypes
    BY <1>6 DEF Register, CacheTypes
  <2> QED
    BY <1>6, <2>1, <2>2 DEF Register, TypeOK, CacheTypes
<1>7. CASE RuntimeSnapshot
  <2>1. pc' \in [Threads -> {"idle"} \cup WorkerLabels]
    BY <1>7, GotoType DEF RuntimeSnapshot, WorkerLabels
  <2>2. view' \in [Threads -> Statuses]
    BY <1>7 DEF RuntimeSnapshot, CacheTypes
  <2> QED
    BY <1>7, <2>1, <2>2 DEF RuntimeSnapshot, TypeOK
<1>8. CASE Done
  <2>1. pc' \in [Threads -> {"idle"} \cup WorkerLabels]
    BY <1>8, GotoType DEF Done, WorkerLabels
  <2> QED
    BY <1>8, <2>1 DEF Done, TypeOK
<1>9. CASE Evaluation(Worker)
  BY <1>9, EvaluationType
<1>10. CASE Fail
  <2>1. pc' \in [Threads -> {"idle"} \cup WorkerLabels]
    BY <1>10, GotoType DEF Fail, WorkerLabels
  <2>2. life' \in LifeTypes
    BY <1>10 DEF Fail, LifeTypes
  <2>3. hand \in Events
    BY <1>10 DEF Fail, HandHeld, Busy
  <2> QED
    BY <1>10, <2>1, <2>2, <2>3 DEF Fail, TypeOK, LifeTypes
<1>11. CASE Abandon
  <2>1. pc' \in [Threads -> {"idle"} \cup WorkerLabels]
    BY <1>11, GotoType DEF Abandon, WorkerLabels
  <2> QED
    BY <1>11, <2>1 DEF Abandon, TypeOK
<1>12. CASE Exit
  <2>1. pc' \in [Threads -> {"idle"} \cup WorkerLabels]
    BY <1>12, GotoType DEF Exit, WorkerLabels
  <2>2. life' \in LifeTypes
    BY <1>12 DEF Exit, LifeTypes
  <2> QED
    BY <1>12, <2>1, <2>2 DEF Exit, TypeOK, LifeTypes
<1>13. CASE Finalize
  <2>1. pc' \in [Threads -> {"idle"} \cup WorkerLabels]
    BY <1>13, GotoType DEF Finalize, WorkerLabels
  <2>2. life' \in LifeTypes
    BY <1>13 DEF Finalize, LifeTypes
  <2> QED
    BY <1>13, <2>1, <2>2 DEF Finalize, TypeOK, LifeTypes
<1>14. CASE End
  <2>1. pc' \in [Threads -> {"idle"} \cup WorkerLabels]
    BY <1>14, GotoType DEF End, WorkerLabels
  <2> QED
    BY <1>14, <2>1 DEF End, TypeOK
<1> QED
  BY <1>1, <1>2, <1>3, <1>4, <1>5, <1>6, <1>7, <1>8, <1>9, <1>10, <1>11, <1>12, <1>13, <1>14
     DEF WorkerStep

(* Observations, close and time.                                           *)
LEMMA OtherType ==
    ASSUME TypeOK,
           (\E e \in Events : Observe(e)) \/ Close \/ CloserStep \/ DeadlinePasses \/ Age
    PROVE  TypeOK'
<1> USE Types
<1>1. ASSUME NEW e \in Events, Observe(e) PROVE TypeOK'
  <2>1. queue' \in Seq(Events) /\ Len(queue') <= Capacity
    BY <1>1, PolicyAssumption DEF Observe
  <2>2. accepted' \subseteq Events
    BY <1>1 DEF Observe
  <2> QED
    BY <1>1, <2>1, <2>2 DEF Observe, TypeOK
<1>2. CASE Close
  <2>1. life' \in LifeTypes
    BY <1>2 DEF Close, LifeTypes
  <2> QED
    BY <1>2, <2>1 DEF Close, TypeOK, LifeTypes
<1>3. CASE Drain
  <2>1. life' \in LifeTypes
    BY <1>3 DEF Drain, CloserGoto, LifeTypes
  <2> QED
    BY <1>3, <2>1 DEF Drain, TypeOK, LifeTypes
<1>4. CASE LeaveConnection
  <2>1. life' \in LifeTypes
    BY <1>4 DEF LeaveConnection, LifeTypes
  <2> QED
    BY <1>4, <2>1 DEF LeaveConnection, TypeOK, LifeTypes
<1>5. CASE Stop
  <2>1. life' \in LifeTypes
    BY <1>5 DEF Stop, LifeTypes
  <2> QED
    BY <1>5, <2>1 DEF Stop, TypeOK, LifeTypes
<1>6. CASE Join
  <2>1. life' \in LifeTypes
    BY <1>6 DEF Join, LifeTypes
  <2> QED
    BY <1>6, <2>1 DEF Join, TypeOK, LifeTypes
<1>7. CASE DeadlinePasses
  <2>1. life' \in LifeTypes
    BY <1>7 DEF DeadlinePasses, LifeTypes
  <2> QED
    BY <1>7, <2>1 DEF DeadlinePasses, TypeOK, LifeTypes
<1>8. CASE Age
  <2>1. cache' \in CacheTypes
    BY <1>8 DEF Age, CacheTypes
  <2> QED
    BY <1>8, <2>1 DEF Age, TypeOK, CacheTypes
<1> QED
  BY <1>1, <1>2, <1>3, <1>4, <1>5, <1>6, <1>7, <1>8 DEF CloserStep

-----------------------------------------------------------------------------
(* Rows are never deleted.                                                 *)
LEMMA LabelKeepsRows ==
    ASSUME TypeOK, NEW t \in Requests, NEW e \in Events, NEW label \in Labels,
           Label(t, e, label)
    PROVE  Rows \subseteq Rows'
BY Types DEF Label, Rows, TableTypes, Labels

LEMMA PersistKeepsRows ==
    ASSUME TypeOK, Persist
    PROVE  Rows \subseteq Rows'
BY Types DEF Persist, Rows, TableTypes

LEMMA SameTableSameRows == table' = table => Rows' = Rows
BY DEF Rows

(* A thread that is not the worker does not move the worker.               *)
LEMMA OthersDoNotMoveWorker ==
    ASSUME TypeOK, NEW t \in Requests, NEW label, Goto(t, label)
    PROVE  pc'[Worker] = pc[Worker]
BY Types, ThreadsAssumption, ThreadTypes DEF Goto

(* The worker is where it went.                                            *)
LEMMA WorkerMoves ==
    ASSUME TypeOK, NEW label, Goto(Worker, label)
    PROVE  pc'[Worker] = label
BY Types, ThreadTypes DEF Goto

(* A step of the endpoints changes nothing that Flow and Ending speak of,  *)
(* except for new labels.                                                  *)
LEMMA EndpointFrame ==
    ASSUME TypeOK, NEW t \in Requests, Request(t) \/ Evaluation(t)
    PROVE  /\ pc'[Worker] = pc[Worker]
           /\ UNCHANGED <<queue, hand, life, accepted, failed>>
           /\ Rows \subseteq Rows'
<1>1. CASE Evaluate(t)
  BY <1>1, OthersDoNotMoveWorker, SameTableSameRows DEF Evaluate
<1>2. ASSUME NEW e \in Events, NEW label \in Labels, Label(t, e, label)
      PROVE  /\ pc'[Worker] = pc[Worker]
             /\ UNCHANGED <<queue, hand, life, accepted, failed>>
             /\ Rows \subseteq Rows'
  <2>1. Rows \subseteq Rows'
    BY <1>2, LabelKeepsRows
  <2> QED
    BY <1>2, <2>1, OthersDoNotMoveWorker DEF Label
<1>3. CASE ReadRows(t)
  BY <1>3, OthersDoNotMoveWorker, SameTableSameRows DEF ReadRows
<1>4. CASE ReadFails(t)
  BY <1>4, OthersDoNotMoveWorker, SameTableSameRows DEF ReadFails
<1>5. CASE Store(t)
  BY <1>5, OthersDoNotMoveWorker, SameTableSameRows DEF Store
<1>6. CASE Publish(t)
  BY <1>6, OthersDoNotMoveWorker, SameTableSameRows DEF Publish
<1> QED
  BY <1>1, <1>2, <1>3, <1>4, <1>5, <1>6 DEF Request, Evaluation

(* What such a frame keeps.                                                *)
LEMMA FrameKeeps ==
    ASSUME Flow, Ending, pc'[Worker] = pc[Worker], Rows \subseteq Rows',
           UNCHANGED <<queue, hand, life, accepted, failed>>
    PROVE  Flow' /\ Ending'
<1>1. HandHeld' /\ HandStored' /\ HandCounted'
  BY DEF Flow, HandHeld, HandStored, HandCounted
<1>2. AcceptedIsVisible'
  BY DEF Flow, AcceptedIsVisible
<1>3. Ending'
  BY DEF Ending, ClosesInOrder, LeavesForAReason, ClosedLast, DrainedInTime, Dead
<1> QED
  BY <1>1, <1>2, <1>3 DEF Flow

-----------------------------------------------------------------------------
(* Where an accepted observation is.                                       *)
Queued(e) == \E i \in 1..Len(queue) : queue[i] = e

(* Queueing keeps what is queued and adds the new one.                     *)
LEMMA ObserveQueues ==
    ASSUME queue \in Seq(Events), NEW e \in Events, queue' = Append(queue, e)
    PROVE  /\ \A x : Queued(x) => Queued(x)'
           /\ Queued(e)'
<1>1. Len(queue') = Len(queue) + 1 /\ queue'[Len(queue) + 1] = e
  OBVIOUS
<1>2. \A i \in 1..Len(queue) : queue'[i] = queue[i]
  OBVIOUS
<1> QED
  BY <1>1, <1>2 DEF Queued

(* Taking the first one leaves the others queued.                          *)
LEMMA TakeQueues ==
    ASSUME queue \in Seq(Events), queue # <<>>, queue' = Tail(queue), NEW x, Queued(x)
    PROVE  x = Head(queue) \/ Queued(x)'
<1>1. PICK i \in 1..Len(queue) : queue[i] = x
  BY DEF Queued
<1>2. CASE i = 1
  BY <1>1, <1>2
<1>3. CASE i # 1
  <2>1. i - 1 \in 1..Len(Tail(queue)) /\ Tail(queue)[i - 1] = queue[i]
    BY <1>1, <1>3
  <2> QED
    BY <1>1, <2>1 DEF Queued
<1> QED
  BY <1>2, <1>3

(* AcceptedIsVisible with its last case named.                             *)
LEMMA VisibleMeans ==
    AcceptedIsVisible <=> \A e \in accepted : e \in Rows \cup failed \/ e = hand \/ Queued(e)
BY DEF AcceptedIsVisible, Queued

-----------------------------------------------------------------------------
(* A step of the worker that leaves rows, queue, hand and counts alone and *)
(* stays inside or outside of the handling of an observation.              *)
LEMMA WorkerFlowFrame ==
    ASSUME TypeOK, Flow, NEW label, Goto(Worker, label),
           Rows' = Rows, UNCHANGED <<queue, hand, accepted, failed>>,
           label \in Busy <=> hand # NoEvent,
           label \in {"register", "snapshot", "read", "store", "publish", "done"} => hand \in Rows,
           label # "abandon"
    PROVE  Flow'
<1>1. pc'[Worker] = label
  BY WorkerMoves
<1>2. HandHeld' /\ HandStored' /\ HandCounted'
  BY <1>1 DEF HandHeld, HandStored, HandCounted
<1>3. AcceptedIsVisible'
  BY DEF Flow, AcceptedIsVisible
<1> QED
  BY <1>2, <1>3 DEF Flow

(* Evaluations by the worker, with what it has in hand.                    *)
LEMMA EvaluationFlow ==
    ASSUME TypeOK, Flow, Evaluation(Worker)
    PROVE  Flow'
<1>1. pc[Worker] \in {"read", "store", "publish"}
  BY DEF Evaluation, ReadRows, ReadFails, Store, Publish
<1>2. hand # NoEvent /\ hand \in Rows
  BY <1>1 DEF Flow, HandHeld, HandStored, Busy
<1>3. UNCHANGED <<table, queue, hand, accepted, failed>>
  BY DEF Evaluation, ReadRows, ReadFails, Store, Publish
<1>4. \E label \in {"store", "fail", "publish", "done"} : Goto(Worker, label)
  BY DEF Evaluation, ReadRows, ReadFails, Store, Publish
<1>5. PICK label \in {"store", "fail", "publish", "done"} : Goto(Worker, label)
  BY <1>4
<1>6. label \in Busy /\ label # "abandon"
  BY <1>5 DEF Busy
<1> QED
  BY <1>2, <1>3, <1>5, <1>6, WorkerFlowFrame, SameTableSameRows

(* The worker keeps every observation in sight.                            *)
LEMMA WorkerFlow ==
    ASSUME TypeOK, Flow, WorkerStep
    PROVE  Flow'
<1> USE DEF Busy
<1>1. CASE Check
  <2>1. hand = NoEvent
    BY <1>1 DEF Check, Flow, HandHeld
  <2> QED
    BY <1>1, <2>1, WorkerFlowFrame, SameTableSameRows DEF Check
<1>2. CASE Take
  <2>1. pc'[Worker] = "persist" /\ hand = NoEvent
    BY <1>2, WorkerMoves DEF Take, Flow, HandHeld
  <2>2. hand' = Head(queue) /\ hand' \in Events
    BY <1>2, Types DEF Take
  <2>3. HandHeld' /\ HandStored' /\ HandCounted'
    BY <2>1, <2>2, ThreadsAssumption DEF HandHeld, HandStored, HandCounted
  <2>4. ASSUME NEW e \in accepted' PROVE e \in (Rows \cup failed)' \/ e = hand' \/ Queued(e)'
    <3>1. accepted' = accepted /\ failed' = failed /\ Rows' = Rows /\ queue' = Tail(queue)
      BY <1>2, SameTableSameRows DEF Take
    <3>2. e \in Rows \cup failed \/ e = hand \/ Queued(e)
      BY <2>4, <3>1, VisibleMeans DEF Flow
    <3>3. e # hand
      BY <2>1, <2>4, <3>1, Types, ThreadsAssumption
    <3>4. Queued(e) => e = Head(queue) \/ Queued(e)'
      BY <1>2, <3>1, TakeQueues, Types DEF Take
    <3> QED
      BY <2>2, <3>1, <3>2, <3>3, <3>4
  <2>5. AcceptedIsVisible'
    BY <2>4 DEF AcceptedIsVisible, Queued
  <2> QED
    BY <2>3, <2>5 DEF Flow
<1>3. CASE FindEmpty
  <2>1. hand = NoEvent
    BY <1>3 DEF FindEmpty, Flow, HandHeld
  <2> QED
    BY <1>3, <2>1, WorkerFlowFrame, SameTableSameRows DEF FindEmpty
<1>4. CASE LeaveIfClosing
  <2>1. hand = NoEvent
    BY <1>4 DEF LeaveIfClosing, Flow, HandHeld
  <2> QED
    BY <1>4, <2>1, WorkerFlowFrame, SameTableSameRows DEF LeaveIfClosing
<1>5. CASE Persist
  <2>1. hand # NoEvent /\ hand \in Events
    BY <1>5, Types DEF Persist, Flow, HandHeld
  <2>2. CASE hand \notin Rows /\ table' = [table EXCEPT ![hand] = "unlabelled"] /\ Goto(Worker, "register")
    <3>1. hand \in Rows'
      BY <2>1, <2>2, Types DEF Rows, TableTypes
    <3>2. pc'[Worker] = "register" /\ UNCHANGED <<queue, hand, accepted, failed>>
      BY <1>5, <2>2, WorkerMoves DEF Persist
    <3>3. HandHeld' /\ HandStored' /\ HandCounted'
      BY <2>1, <3>1, <3>2 DEF HandHeld, HandStored, HandCounted
    <3>4. AcceptedIsVisible'
      BY <1>5, <3>2, PersistKeepsRows DEF Flow, AcceptedIsVisible
    <3> QED
      BY <3>3, <3>4 DEF Flow
  <2>3. CASE hand \in Rows /\ Goto(Worker, "snapshot") /\ UNCHANGED table
    BY <1>5, <2>1, <2>3, WorkerFlowFrame, SameTableSameRows DEF Persist
  <2>4. CASE Goto(Worker, "fail") /\ UNCHANGED table
    BY <1>5, <2>1, <2>4, WorkerFlowFrame, SameTableSameRows DEF Persist
  <2> QED
    BY <1>5, <2>2, <2>3, <2>4 DEF Persist
<1>6. CASE Register
  <2>1. hand # NoEvent /\ hand \in Rows
    BY <1>6 DEF Register, Flow, HandHeld, HandStored
  <2> QED
    BY <1>6, <2>1, WorkerFlowFrame, SameTableSameRows DEF Register
<1>7. CASE RuntimeSnapshot
  <2>1. hand # NoEvent /\ hand \in Rows
    BY <1>7 DEF RuntimeSnapshot, Flow, HandHeld, HandStored
  <2> QED
    BY <1>7, <2>1, WorkerFlowFrame, SameTableSameRows DEF RuntimeSnapshot
<1>8. CASE Evaluation(Worker)
  BY <1>8, EvaluationFlow
<1>9. CASE Done
  <2>1. hand \in Rows
    BY <1>9 DEF Done, Flow, HandStored
  <2>2. pc'[Worker] = "check" /\ hand' = NoEvent /\ UNCHANGED <<table, queue, accepted, failed>>
    BY <1>9, WorkerMoves DEF Done
  <2>3. HandHeld' /\ HandStored' /\ HandCounted'
    BY <2>2 DEF HandHeld, HandStored, HandCounted
  <2>4. AcceptedIsVisible'
    BY <2>1, <2>2, SameTableSameRows DEF Flow, AcceptedIsVisible
  <2> QED
    BY <2>3, <2>4 DEF Flow
<1>10. CASE Fail
  <2>1. hand # NoEvent
    BY <1>10 DEF Fail, Flow, HandHeld
  <2>2. pc'[Worker] = "abandon" /\ hand \in failed' /\ failed \subseteq failed' /\ life'.failed
    BY <1>10, WorkerMoves, Types DEF Fail, LifeTypes
  <2>3. UNCHANGED <<table, queue, hand, accepted>>
    BY <1>10 DEF Fail
  <2>4. HandHeld' /\ HandStored' /\ HandCounted'
    BY <2>1, <2>2, <2>3 DEF HandHeld, HandStored, HandCounted
  <2>5. AcceptedIsVisible'
    BY <2>2, <2>3, SameTableSameRows DEF Flow, AcceptedIsVisible
  <2> QED
    BY <2>4, <2>5 DEF Flow
<1>11. CASE Abandon
  <2>1. hand \in failed
    BY <1>11 DEF Abandon, Flow, HandCounted
  <2>2. pc'[Worker] = "exit" /\ hand' = NoEvent /\ UNCHANGED <<table, queue, accepted, failed>>
    BY <1>11, WorkerMoves DEF Abandon
  <2>3. HandHeld' /\ HandStored' /\ HandCounted'
    BY <2>2 DEF HandHeld, HandStored, HandCounted
  <2>4. AcceptedIsVisible'
    BY <2>1, <2>2, SameTableSameRows DEF Flow, AcceptedIsVisible
  <2> QED
    BY <2>3, <2>4 DEF Flow
<1>12. CASE Exit
  <2>1. hand = NoEvent
    BY <1>12 DEF Exit, Flow, HandHeld
  <2> QED
    BY <1>12, <2>1, WorkerFlowFrame, SameTableSameRows DEF Exit
<1>13. CASE Finalize
  <2>1. hand = NoEvent
    BY <1>13 DEF Finalize, Flow, HandHeld
  <2> QED
    BY <1>13, <2>1, WorkerFlowFrame, SameTableSameRows DEF Finalize
<1>14. CASE End
  <2>1. hand = NoEvent
    BY <1>14 DEF End, Flow, HandHeld
  <2> QED
    BY <1>14, <2>1, WorkerFlowFrame, SameTableSameRows DEF End
<1> QED
  BY <1>1, <1>2, <1>3, <1>4, <1>5, <1>6, <1>7, <1>8, <1>9, <1>10, <1>11, <1>12, <1>13, <1>14
     DEF WorkerStep

(* So do requests, close and time.                                         *)
LEMMA OtherFlow ==
    ASSUME TypeOK, Flow, Ending,
           (\E e \in Events : Observe(e)) \/ Close \/ CloserStep \/ DeadlinePasses \/ Age
    PROVE  Flow'
<1>1. ASSUME NEW e \in Events, Observe(e) PROVE Flow'
  <2>1. queue' = Append(queue, e) /\ accepted' = accepted \cup {e}
    BY <1>1 DEF Observe
  <2>2. UNCHANGED <<table, hand, pc, life, failed>> /\ Rows' = Rows
    BY <1>1, SameTableSameRows DEF Observe
  <2>3. HandHeld' /\ HandStored' /\ HandCounted'
    BY <2>2 DEF Flow, HandHeld, HandStored, HandCounted
  <2>4. \A x \in accepted' : x \in Rows' \cup failed' \/ x = hand' \/ Queued(x)'
    BY <2>1, <2>2, ObserveQueues, VisibleMeans, Types DEF Flow
  <2>5. AcceptedIsVisible'
    BY <2>4 DEF AcceptedIsVisible, Queued
  <2> QED
    BY <2>3, <2>5 DEF Flow
<1>2. CASE Close \/ CloserStep \/ DeadlinePasses \/ Age
  <2>1. UNCHANGED <<table, queue, hand, pc, accepted, failed>>
    BY <1>2 DEF Close, CloserStep, Drain, LeaveConnection, Stop, Join, DeadlinePasses, Age
  <2>2. life'.failed = life.failed
    BY <1>2, Types DEF LifeTypes, Close, CloserStep, Drain, CloserGoto, LeaveConnection, Stop, Join,
       DeadlinePasses, Age
  <2>3. HandHeld' /\ HandStored' /\ HandCounted'
    BY <2>1, <2>2, SameTableSameRows DEF Flow, HandHeld, HandStored, HandCounted
  <2>4. AcceptedIsVisible'
    BY <2>1, SameTableSameRows DEF Flow, AcceptedIsVisible
  <2> QED
    BY <2>3, <2>4 DEF Flow
<1> QED
  BY <1>1, <1>2

-----------------------------------------------------------------------------
(* The end of the worker.  It takes a step only before it is dead, and of  *)
(* the flags it moves failed and closed only.                              *)
LEMMA WorkerAlive == WorkerStep => ~Dead
BY DEF WorkerStep, Dead, Check, Take, FindEmpty, LeaveIfClosing, Persist, Register,
       RuntimeSnapshot, Evaluation, ReadRows, ReadFails, Store, Publish, Done, Fail, Abandon,
       Exit, Finalize, End

LEMMA WorkerFlags ==
    ASSUME TypeOK, WorkerStep
    PROVE  /\ life'.accepting = life.accepting /\ life'.closing = life.closing
           /\ life'.stop = life.stop /\ life'.closer = life.closer
           /\ life'.timedOut = life.timedOut
           /\ life.failed => life'.failed
           /\ life'.closed => life.closed \/ Finalize
<1>1. CASE Fail
  BY <1>1, Types DEF Fail, LifeTypes
<1>2. CASE Exit
  BY <1>2, Types DEF Exit, LifeTypes
<1>3. CASE Finalize
  BY <1>3, Types DEF Finalize, LifeTypes
<1>4. CASE ~Fail /\ ~Exit /\ ~Finalize
  <2>1. life' = life
    BY <1>4 DEF WorkerStep, Check, Take, FindEmpty, LeaveIfClosing, Persist, Register,
       RuntimeSnapshot, Evaluation, ReadRows, ReadFails, Store, Publish, Done, Abandon, End
  <2> QED
    BY <2>1
<1> QED
  BY <1>1, <1>2, <1>3, <1>4

(* Where the worker can be after a step.                                   *)
LEMMA WorkerLeaves ==
    ASSUME TypeOK, WorkerStep, pc'[Worker] \in Ended
    PROVE  \/ Check /\ life.stop
           \/ LeaveIfClosing /\ life.closing
           \/ Abandon
           \/ pc[Worker] \in Ended
<1>1. CASE Check
  BY <1>1, WorkerMoves DEF Check, Ended
<1>2. CASE LeaveIfClosing
  BY <1>2, WorkerMoves DEF LeaveIfClosing, Ended
<1>3. CASE Take \/ FindEmpty \/ Register \/ Done \/ Fail
  BY <1>3, WorkerMoves DEF Take, FindEmpty, Register, Done, Fail, Ended
<1>4. CASE Persist \/ RuntimeSnapshot
  BY <1>4, WorkerMoves DEF Persist, RuntimeSnapshot, Ended
<1>5. CASE Evaluation(Worker)
  BY <1>5, WorkerMoves DEF Evaluation, ReadRows, ReadFails, Store, Publish, Ended
<1>6. CASE Exit \/ Finalize \/ End
  BY <1>6 DEF Exit, Finalize, End, Ended
<1> QED
  BY <1>1, <1>2, <1>3, <1>4, <1>5, <1>6 DEF WorkerStep

(* With the connection closed, the worker has nothing to do but to end.    *)
LEMMA OnlyEnds ==
    ASSUME TypeOK, WorkerStep, pc[Worker] \in {"ending", "dead"}
    PROVE  pc'[Worker] = "dead"
<1>1. End
  BY DEF WorkerStep, Check, Take, FindEmpty, LeaveIfClosing, Persist, Register, RuntimeSnapshot,
       Evaluation, ReadRows, ReadFails, Store, Publish, Done, Fail, Abandon, Exit, Finalize, End
<1> QED
  BY <1>1, WorkerMoves DEF End

LEMMA WorkerEnding ==
    ASSUME TypeOK, Flow, Ending, WorkerStep
    PROVE  Ending'
<1>1. ClosesInOrder'
  BY WorkerFlags DEF Ending, ClosesInOrder
<1>2. LeavesForAReason'
  <2> SUFFICES ASSUME pc'[Worker] \in Ended PROVE life'.failed \/ life'.closing
    BY DEF LeavesForAReason
  <2>1. CASE Check /\ life.stop
    BY <2>1, WorkerFlags DEF Ending, ClosesInOrder
  <2>2. CASE LeaveIfClosing /\ life.closing
    BY <2>2, WorkerFlags
  <2>3. CASE Abandon
    BY <2>3, WorkerFlags DEF Abandon, Flow, HandCounted
  <2>4. CASE pc[Worker] \in Ended
    BY <2>4, WorkerFlags DEF Ending, LeavesForAReason
  <2> QED
    BY <2>1, <2>2, <2>3, <2>4, WorkerLeaves
<1>3. ClosedLast'
  <2> SUFFICES ASSUME life'.closed PROVE pc'[Worker] \in {"ending", "dead"}
    BY DEF ClosedLast
  <2>1. CASE life.closed
    BY <2>1, OnlyEnds DEF Ending, ClosedLast
  <2>2. CASE Finalize
    BY <2>2, WorkerMoves DEF Finalize
  <2> QED
    BY <2>1, <2>2, WorkerFlags
<1>4. DrainedInTime'
  BY WorkerAlive, WorkerFlags DEF Ending, DrainedInTime
<1> QED
  BY <1>1, <1>2, <1>3, <1>4 DEF Ending

(* close, step by step; requests are refused once it has begun.            *)
LEMMA OtherEnding ==
    ASSUME TypeOK, Flow, Ending,
           (\E e \in Events : Observe(e)) \/ Close \/ CloserStep \/ DeadlinePasses \/ Age
    PROVE  Ending'
<1> USE DEF Ending, ClosesInOrder, LeavesForAReason, ClosedLast, DrainedInTime, Dead
<1>1. ASSUME NEW e \in Events, Observe(e) PROVE Ending'
  <2>1. life.closer # "closed"
    BY <1>1 DEF Observe, Accepting
  <2> QED
    BY <1>1, <2>1 DEF Observe
<1>2. CASE Close
  BY <1>2, Types DEF Close, LifeTypes
<1>3. CASE Drain
  BY <1>3, Types DEF Drain, CloserGoto, LifeTypes
<1>4. CASE LeaveConnection
  BY <1>4, Types DEF LeaveConnection, LifeTypes
<1>5. CASE Stop
  BY <1>5, Types DEF Stop, LifeTypes
<1>6. CASE Join
  <2>1. /\ life'.closer = "closed" /\ life'.timedOut = (~Dead \/ Unfinished > 0)
        /\ life'.closed = (life.closed \/ Dead)
        /\ life'.accepting = life.accepting /\ life'.closing = life.closing
        /\ life'.stop = life.stop /\ life'.failed = life.failed
    BY <1>6, Types DEF Join, LifeTypes
  <2>2. UNCHANGED <<queue, hand, pc>>
    BY <1>6 DEF Join
  <2>3. life.closer = "join"
    BY <1>6 DEF Join
  <2>4. ASSUME ~(Unfinished > 0) PROVE queue = <<>> /\ hand = NoEvent
    <3>1. Len(queue) \in Nat
      BY Types
    <3>2. Len(queue) = 0 /\ hand = NoEvent
      BY <2>4, <3>1 DEF Unfinished
    <3> QED
      BY <3>2, Types
  <2> QED
    BY <2>1, <2>2, <2>3, <2>4
<1>7. CASE DeadlinePasses
  BY <1>7, Types DEF DeadlinePasses, LifeTypes
<1>8. CASE Age
  BY <1>8 DEF Age
<1> QED
  BY <1>1, <1>2, <1>3, <1>4, <1>5, <1>6, <1>7, <1>8 DEF CloserStep

-----------------------------------------------------------------------------
(* The invariant.                                                          *)
LEMMA InvInit == Init => Inv
<1> SUFFICES ASSUME Init PROVE Inv
  OBVIOUS
<1>1. TypeOK
  BY TypeInit
<1>2. pc[Worker] = "check" /\ hand = NoEvent /\ accepted = {}
  BY ThreadTypes DEF Init
<1>3. ~life.closing /\ life.closer = "open" /\ ~life.stop /\ ~life.closed
  BY DEF Init
<1>4. Flow
  BY <1>2 DEF Flow, HandHeld, Busy, HandStored, HandCounted, AcceptedIsVisible
<1>5. Ending
  BY <1>2, <1>3 DEF Ending, ClosesInOrder, LeavesForAReason, Ended, ClosedLast, DrainedInTime
<1> QED
  BY <1>1, <1>4, <1>5 DEF Inv

LEMMA InvNext == Inv /\ [Next]_vars => Inv'
<1> SUFFICES ASSUME TypeOK, Flow, Ending, [Next]_vars PROVE TypeOK' /\ Flow' /\ Ending'
  BY DEF Inv
<1>1. CASE (\E e \in Events : Observe(e)) \/ Close \/ CloserStep \/ DeadlinePasses \/ Age
  BY <1>1, OtherType, OtherFlow, OtherEnding
<1>2. ASSUME NEW t \in Requests, Request(t) \/ Evaluation(t) PROVE TypeOK' /\ Flow' /\ Ending'
  BY <1>2, RequestType, EvaluationType, ThreadTypes, EndpointFrame, FrameKeeps
<1>3. CASE WorkerStep
  BY <1>3, WorkerType, WorkerFlow, WorkerEnding DEF Flow
<1>4. CASE UNCHANGED vars
  <2>1. TypeOK'
    BY <1>4 DEF vars, TypeOK
  <2>2. Rows' = Rows
    BY <1>4, SameTableSameRows DEF vars
  <2> QED
    BY <1>4, <2>1, <2>2, FrameKeeps DEF vars
<1> QED
  BY <1>1, <1>2, <1>3, <1>4 DEF Next

THEOREM InvHolds == Spec => []Inv
BY InvInit, InvNext, PTL DEF Spec

(* The type invariant, for any set of events, threads and limits.          *)
THEOREM TypesHold == Spec => []TypeOK
BY InvHolds, PTL DEF Inv

(* No accepted observation drops out of sight, whether the database fails  *)
(* under the worker or close leaves while the worker is busy.              *)
THEOREM AcceptedStaysVisible == Spec => []AcceptedIsVisible
<1>1. Inv => AcceptedIsVisible
  BY DEF Inv, Flow
<1> QED
  BY <1>1, InvHolds, PTL

(* No interleaving of close and worker takes the connection away from a    *)
(* worker that still handles an observation.                               *)
THEOREM WorkerKeepsConnection == Spec => []WorkerHasConnection
<1>1. Inv => WorkerHasConnection
  BY DEF Inv, Ending, ClosedLast, WorkerHasConnection
<1> QED
  BY <1>1, InvHolds, PTL

(* A close that reports no timeout has left nothing behind.                *)
THEOREM CloseInTimeDrains == Spec => []OnTimeCloseDrains
<1>1. Inv => OnTimeCloseDrains
  <2> SUFFICES ASSUME Inv, life.closer = "closed", ~life.timedOut
               PROVE  life.closed /\ accepted \subseteq Rows \cup failed
    BY DEF OnTimeCloseDrains
  <2>1. life.closed /\ queue = <<>> /\ hand = NoEvent
    BY DEF Inv, Ending, DrainedInTime
  <2>2. accepted \subseteq Events
    BY Types DEF Inv
  <2> QED
    BY <2>1, <2>2, ThreadsAssumption DEF Inv, Flow, AcceptedIsVisible
<1> QED
  BY <1>1, InvHolds, PTL

(* Requests are refused before the worker ends, not after.                 *)
LEMMA QueueGrowth == Inv /\ [Next]_vars =>
    (Len(queue') > Len(queue) => pc[Worker] \notin {"exit", "finalize", "ending", "dead"})
<1> SUFFICES ASSUME TypeOK, Flow, Ending, [Next]_vars, Len(queue') > Len(queue)
             PROVE  pc[Worker] \notin Ended
  BY DEF Inv, Ended
<1>1. ASSUME NEW e \in Events, Observe(e) PROVE pc[Worker] \notin Ended
  BY <1>1 DEF Observe, Accepting, Ending, ClosesInOrder, LeavesForAReason
<1>2. CASE Take
  <2>1. Len(queue') = Len(queue) - 1 /\ Len(queue) \in Nat
    BY <1>2, Types DEF Take
  <2> QED
    BY <2>1
<1>3. CASE UNCHANGED queue
  BY <1>3, Types
<1>4. (\E e \in Events : Observe(e)) \/ Take \/ UNCHANGED queue
  BY DEF Next, vars, Request, Evaluate, Label, Evaluation, ReadRows, ReadFails, Store, Publish,
     WorkerStep, Check, FindEmpty, LeaveIfClosing, Persist, Register, RuntimeSnapshot, Done, Fail,
     Abandon, Exit, Finalize, End, Close, CloserStep, Drain, LeaveConnection, Stop, Join,
     DeadlinePasses, Age
<1> QED
  BY <1>1, <1>2, <1>3, <1>4

THEOREM NobodyIsQueuedForTheDead == Spec => NobodyQueuesForTheDead
BY InvHolds, QueueGrowth, PTL DEF Spec, NobodyQueuesForTheDead
=============================================================================
