------------------------------- MODULE Handoff -------------------------------
(***************************************************************************)
(* The durable handoff between /process and the SQLite outbox              *)
(* (DurableOutboxHandoff): a request is accepted once a put record for it  *)
(* has been fsynced to a journal; a writer thread appends batches of puts, *)
(* a delivery thread moves one pending submission at a time into the       *)
(* outbox and appends its ack, and an empty journal is truncated.          *)
(*                                                                         *)
(* An instance is one DurableOutboxHandoff object and its two threads; a   *)
(* closed or crashed one may be opened again.  Instances that can be open  *)
(* at the same time share the journal and the outbox and nothing else.     *)
(* Every block under the condition is one action; what happens between two *)
(* such blocks (the identity lookup, the fsyncs, the outbox append) is     *)
(* one action too, and a crash can come before or after each.              *)
(*                                                                         *)
(* Abstractions: a submission is [id, payload]; checksums are always       *)
(* right, so a torn tail is simply absent; a write that fails leaves the   *)
(* file as it was; backoff delays become a free choice of what is tried.   *)
(***************************************************************************)
EXTENDS Naturals, Sequences, FiniteSets

CONSTANTS
  Submissions,  \* what callers may submit: records [id, payload]
  Callers,      \* request threads
  Instances,    \* handoff objects that may exist at the same time
  BatchLimit,   \* max_batch_size (64 in the code)
  MaxStops,     \* bound: how often instances are closed or crash
  NoInstance,   \* the owner of a journal nobody has locked
  NoSubmission  \* the submission of an idle thread

ASSUME InstancesAssumption == NoInstance \notin Instances
ASSUME BatchLimitAssumption == BatchLimit \in Nat \ {0}
ASSUME MaxStopsAssumption == MaxStops \in Nat
ASSUME NoSubmissionAssumption == NoSubmission \notin Submissions

VARIABLES
  journal,   \* the file: a sequence of put and ack records
  outbox,    \* submissions in the SQLite outbox
  owner,     \* the instance that holds the flock on the journal
  phase,     \* instance -> "down", "open", "closing" or "stopping"
  closer,    \* instance -> whether a call of close() has not returned yet
  reserved,  \* instance -> _identities
  queue,     \* instance -> _write_queue
  writing,   \* instance -> the batch the writer holds
  pending,   \* instance -> _pending
  writer,    \* instance -> where the writer thread is
  delivery,  \* instance -> where the delivery thread is
  inhand,    \* instance -> the entry the delivery thread holds
  pc,        \* caller -> where its call of submit is
  sub,       \* caller -> what it submits
  at,        \* caller -> the instance it calls
  accepted,  \* history: submissions for which submit returned True
  stops      \* closes and crashes so far

diskVars == <<journal, outbox>>
lifeVars == <<owner, phase, closer, stops>>
workVars == <<reserved, queue, writing, pending, writer, delivery, inhand>>
callVars == <<pc, sub, at>>
vars == <<diskVars, lifeVars, workVars, callVars, accepted>>

Put(s) == [op |-> "put", sub |-> s]
Ack(s) == [op |-> "ack", sub |-> s]
Records == [op : {"put", "ack"}, sub : Submissions]
PutAll(batch) == [k \in 1 .. Len(batch) |-> Put(batch[k])]
Elements(batch) == { batch[k] : k \in 1 .. Len(batch) }

TypeOK ==
  /\ journal \in Seq(Records)
  /\ outbox \subseteq Submissions
  /\ owner \in Instances \cup {NoInstance}
  /\ phase \in [Instances -> {"down", "open", "closing", "stopping"}]
  /\ closer \in [Instances -> BOOLEAN]
  /\ reserved \in [Instances -> SUBSET Submissions]
  /\ queue \in [Instances -> Seq(Submissions)]
  /\ writing \in [Instances -> Seq(Submissions)]
  /\ pending \in [Instances -> SUBSET Submissions]
  /\ writer \in [Instances -> {"idle", "append", "publish", "exited"}]
  /\ delivery \in [Instances -> {"idle", "append", "ack", "clear", "compact", "exited"}]
  /\ inhand \in [Instances -> Submissions \cup {NoSubmission}]
  /\ pc \in [Callers -> {"idle", "lookup", "enqueue", "wait", "fallback"}]
  /\ sub \in [Callers -> Submissions \cup {NoSubmission}]
  /\ at \in [Callers -> Instances \cup {NoInstance}]
  /\ accepted \subseteq Submissions
  /\ stops \in 0 .. MaxStops

Init ==
  /\ journal = <<>>
  /\ outbox = {}
  /\ owner = NoInstance
  /\ phase = [i \in Instances |-> "down"]
  /\ closer = [i \in Instances |-> FALSE]
  /\ reserved = [i \in Instances |-> {}]
  /\ queue = [i \in Instances |-> <<>>]
  /\ writing = [i \in Instances |-> <<>>]
  /\ pending = [i \in Instances |-> {}]
  /\ writer = [i \in Instances |-> "exited"]
  /\ delivery = [i \in Instances |-> "exited"]
  /\ inhand = [i \in Instances |-> NoSubmission]
  /\ pc = [c \in Callers |-> "idle"]
  /\ sub = [c \in Callers |-> NoSubmission]
  /\ at = [c \in Callers |-> NoInstance]
  /\ accepted = {}
  /\ stops = 0

-----------------------------------------------------------------------------
(* Opening: take the lock, replay the journal, start the threads.          *)

\* The puts without a later ack: what a replay of the journal leaves.
Unacked(j) ==
  { s \in Submissions :
      \E k \in 1 .. Len(j) :
        /\ j[k] = Put(s)
        /\ \A m \in k + 1 .. Len(j) : j[m] # Ack(s) }

\* The replay refuses a second pending submission of one id and an ack that
\* is not for the pending one.
Replayable(j) ==
  \A k \in 1 .. Len(j) :
    LET left == Unacked(SubSeq(j, 1, k)) IN
    /\ \A r, s \in left : r.id = s.id => r = s
    /\ j[k].op = "ack" => \A s \in left : s.id # j[k].sub.id

\* The calls of the object this one replaces have returned.
Open(i) ==
  /\ phase[i] = "down" /\ \A c \in Callers : at[c] # i
  /\ owner = NoInstance
  /\ Replayable(journal)
  /\ owner' = i
  /\ phase' = [phase EXCEPT ![i] = "open"]
  /\ journal' = IF Unacked(journal) = {} THEN <<>> ELSE journal
  /\ pending' = [pending EXCEPT ![i] = Unacked(journal)]
  /\ reserved' = [reserved EXCEPT ![i] = Unacked(journal)]
  /\ queue' = [queue EXCEPT ![i] = <<>>]
  /\ writing' = [writing EXCEPT ![i] = <<>>]
  /\ writer' = [writer EXCEPT ![i] = "idle"]
  /\ delivery' = [delivery EXCEPT ![i] = "idle"]
  /\ inhand' = [inhand EXCEPT ![i] = NoSubmission]
  /\ UNCHANGED <<outbox, closer, stops, callVars, accepted>>

-----------------------------------------------------------------------------
(* submit and what /process does with its outcome.                         *)

SameId(s, S) == \E r \in S : r.id = s.id

\* A call ends and its thread is free again.
Return(c) ==
  /\ pc' = [pc EXCEPT ![c] = "idle"]
  /\ sub' = [sub EXCEPT ![c] = NoSubmission]
  /\ at' = [at EXCEPT ![c] = NoInstance]

\* A call raises: /process falls back to appending to the outbox itself.
Raise(c) ==
  /\ pc' = [pc EXCEPT ![c] = "fallback"]
  /\ UNCHANGED <<sub, at>>

\* A reservation is dropped unless the put has become pending meanwhile.
Unreserve(i, s) ==
  reserved' = [reserved EXCEPT ![i] = IF s \in pending[i] THEN @ ELSE @ \ {s}]

\* The first block under the condition: reserve the id, or find it taken.
SubmitReserve(c, i, s) ==
  /\ pc[c] = "idle" /\ phase[i] = "open"
  /\ ~SameId(s, reserved[i])
  /\ reserved' = [reserved EXCEPT ![i] = @ \cup {s}]
  /\ pc' = [pc EXCEPT ![c] = "lookup"]
  /\ sub' = [sub EXCEPT ![c] = s]
  /\ at' = [at EXCEPT ![c] = i]
  /\ UNCHANGED <<diskVars, lifeVars, queue, writing, pending, writer, delivery, inhand, accepted>>

\* A submission whose id is reserved for the same payload is answered at once
\* and changes nothing.
AnswersDuplicate(i, s) == phase[i] = "open" /\ s \in reserved[i]

SubmitRefused(c, i, s) ==
  /\ pc[c] = "idle" /\ phase[i] # "down"
  /\ phase[i] # "open" \/ (SameId(s, reserved[i]) /\ s \notin reserved[i])
  /\ pc' = [pc EXCEPT ![c] = "fallback"]
  /\ sub' = [sub EXCEPT ![c] = s]
  /\ at' = [at EXCEPT ![c] = i]
  /\ UNCHANGED <<diskVars, lifeVars, workVars, accepted>>

\* outbox.submission_identity, without the condition.
LookupFree(c) ==
  /\ pc[c] = "lookup"
  /\ ~SameId(sub[c], outbox)
  /\ pc' = [pc EXCEPT ![c] = "enqueue"]
  /\ UNCHANGED <<diskVars, lifeVars, workVars, sub, at, accepted>>

LookupDuplicate(c) ==
  /\ pc[c] = "lookup"
  /\ sub[c] \in outbox
  /\ Unreserve(at[c], sub[c])
  /\ Return(c)
  /\ UNCHANGED <<diskVars, lifeVars, queue, writing, pending, writer, delivery, inhand, accepted>>

\* Mutant: a call that ends in an error leaves its reservation behind.
LookupRefusedReserved(c) ==
  /\ pc[c] = "lookup"
  /\ Raise(c)
  /\ UNCHANGED <<diskVars, lifeVars, workVars, accepted>>

\* The lookup finds another submission of the id, or fails.
LookupRefused(c) ==
  /\ pc[c] = "lookup"
  /\ Unreserve(at[c], sub[c])
  /\ Raise(c)
  /\ UNCHANGED <<diskVars, lifeVars, queue, writing, pending, writer, delivery, inhand, accepted>>

Enqueue(c) ==
  /\ pc[c] = "enqueue"
  /\ IF phase[at[c]] = "open"
     THEN /\ queue' = [queue EXCEPT ![at[c]] = Append(@, sub[c])]
          /\ pc' = [pc EXCEPT ![c] = "wait"]
          /\ UNCHANGED <<reserved, sub, at>>
     ELSE /\ Unreserve(at[c], sub[c])
          /\ Raise(c)
          /\ UNCHANGED queue
  /\ UNCHANGED <<diskVars, lifeVars, writing, pending, writer, delivery, inhand, accepted>>

\* Mutant: a timed out call takes its reservation back.
TimeoutUnreserves(c) ==
  /\ pc[c] = "wait"
  /\ Unreserve(at[c], sub[c])
  /\ Raise(c)
  /\ UNCHANGED <<diskVars, lifeVars, queue, writing, pending, writer, delivery, inhand, accepted>>

\* The wait for the fsync times out; the ticket stays with the writer.
Timeout(c) ==
  /\ pc[c] = "wait"
  /\ Raise(c)
  /\ UNCHANGED <<diskVars, lifeVars, workVars, accepted>>

\* Mutant: the last submission of an id wins.
AppendedReplacing(s) == { r \in outbox : r.id # s.id } \cup {s}

\* What SQLiteOutbox.append leaves: a row per id, the first one wins.
Appended(s) == IF SameId(s, outbox) THEN outbox ELSE outbox \cup {s}

Fallback(c) ==
  /\ pc[c] = "fallback"
  /\ outbox' \in {outbox, Appended(sub[c])}
  /\ Return(c)
  /\ UNCHANGED <<journal, lifeVars, workVars, accepted>>

-----------------------------------------------------------------------------
(* The journal writer.                                                     *)

Smaller(m, n) == IF m < n THEN m ELSE n

WriterTake(i) ==
  LET n == Smaller(Len(queue[i]), BatchLimit) IN
  /\ writer[i] = "idle" /\ phase[i] # "stopping"
  /\ queue[i] # <<>>
  /\ writing' = [writing EXCEPT ![i] = SubSeq(queue[i], 1, n)]
  /\ queue' = [queue EXCEPT ![i] = SubSeq(@, n + 1, Len(@))]
  /\ writer' = [writer EXCEPT ![i] = "append"]
  /\ UNCHANGED <<diskVars, lifeVars, reserved, pending, delivery, inhand, callVars, accepted>>

\* The batch is written and fsynced as one append.  A failed attempt leaves
\* the file as it was and is repeated.
WriterAppend(i) ==
  /\ writer[i] = "append"
  /\ journal' = journal \o PutAll(writing[i])
  /\ writer' = [writer EXCEPT ![i] = "publish"]
  /\ UNCHANGED <<outbox, lifeVars, reserved, queue, writing, pending, delivery, inhand, callVars, accepted>>

\* The entries become pending and the calls that wait for them return True.
Served(i) == { c \in Callers : pc[c] = "wait" /\ at[c] = i /\ sub[c] \in Elements(writing[i]) }

WriterPublish(i) ==
  /\ writer[i] = "publish"
  /\ pending' = [pending EXCEPT ![i] = @ \cup Elements(writing[i])]
  /\ accepted' = accepted \cup { sub[c] : c \in Served(i) }
  /\ pc' = [c \in Callers |-> IF c \in Served(i) THEN "idle" ELSE pc[c]]
  /\ sub' = [c \in Callers |-> IF c \in Served(i) THEN NoSubmission ELSE sub[c]]
  /\ at' = [c \in Callers |-> IF c \in Served(i) THEN NoInstance ELSE at[c]]
  /\ writing' = [writing EXCEPT ![i] = <<>>]
  /\ writer' = [writer EXCEPT ![i] = "idle"]
  /\ UNCHANGED <<diskVars, lifeVars, reserved, queue, delivery, inhand>>

-----------------------------------------------------------------------------
(* Delivery into the outbox and compaction.                                *)

\* Mutant: compaction looks at pending entries and the queue only.
IdleWithoutReservations(i) == pending[i] = {} /\ queue[i] = <<>>

\* _maybe_compact: an instance that knows of no submission empties the file.
Idle(i) == pending[i] = {} /\ reserved[i] = {} /\ queue[i] = <<>>

Compacted(i) == IF Idle(i) THEN <<>> ELSE journal

DeliveryPick(i, s) ==
  /\ delivery[i] = "idle" /\ phase[i] # "stopping"
  /\ s \in pending[i]
  /\ inhand' = [inhand EXCEPT ![i] = s]
  /\ delivery' = [delivery EXCEPT ![i] = "append"]
  /\ UNCHANGED <<diskVars, lifeVars, reserved, queue, writing, pending, writer, callVars, accepted>>

\* outbox.append raises when another submission has the id.
DeliveryAppend(i) ==
  /\ delivery[i] = "append"
  /\ inhand[i] \in Appended(inhand[i])
  /\ outbox' = Appended(inhand[i])
  /\ delivery' = [delivery EXCEPT ![i] = "ack"]
  /\ UNCHANGED <<journal, lifeVars, reserved, queue, writing, pending, writer, inhand, callVars, accepted>>

DeliveryAck(i) ==
  /\ delivery[i] = "ack"
  /\ journal' = Append(journal, Ack(inhand[i]))
  /\ delivery' = [delivery EXCEPT ![i] = "clear"]
  /\ UNCHANGED <<outbox, lifeVars, reserved, queue, writing, pending, writer, inhand, callVars, accepted>>

\* Mutant: a failed entry is not put back.
DeliveryFailsForGood(i) ==
  /\ delivery[i] \in {"append", "ack"}
  /\ delivery' = [delivery EXCEPT ![i] = "idle"]
  /\ inhand' = [inhand EXCEPT ![i] = NoSubmission]
  /\ pending' = [pending EXCEPT ![i] = @ \ {inhand[i]}]
  /\ UNCHANGED <<diskVars, lifeVars, reserved, queue, writing, writer, callVars, accepted>>

\* The append or the ack raises: the entry stays pending and is tried again.
DeliveryFails(i) ==
  /\ delivery[i] \in {"append", "ack"}
  /\ delivery' = [delivery EXCEPT ![i] = "idle"]
  /\ inhand' = [inhand EXCEPT ![i] = NoSubmission]
  /\ UNCHANGED <<diskVars, lifeVars, reserved, queue, writing, pending, writer, callVars, accepted>>

DeliveryClear(i) ==
  /\ delivery[i] = "clear"
  /\ pending' = [pending EXCEPT ![i] = @ \ {inhand[i]}]
  /\ reserved' = [reserved EXCEPT ![i] = { r \in @ : r.id # inhand[i].id }]
  /\ delivery' = [delivery EXCEPT ![i] = "compact"]
  /\ inhand' = [inhand EXCEPT ![i] = NoSubmission]
  /\ UNCHANGED <<diskVars, lifeVars, queue, writing, writer, callVars, accepted>>

\* The check is made once more under the journal lock, which keeps the writer
\* from appending until the file has been truncated.
DeliveryCompact(i) ==
  /\ delivery[i] = "compact"
  /\ journal' = Compacted(i)
  /\ delivery' = [delivery EXCEPT ![i] = "idle"]
  /\ UNCHANGED <<outbox, lifeVars, reserved, queue, writing, pending, writer, inhand, callVars, accepted>>

-----------------------------------------------------------------------------
(* close, the end of the threads, and crashes.                             *)

\* _worker_exited: the last thread to leave compacts and gives up the lock.
Leave(i, other) ==
  IF other = "exited"
  THEN /\ journal' = Compacted(i)
       /\ owner' = IF owner = i THEN NoInstance ELSE owner
       /\ phase' = [phase EXCEPT ![i] = IF closer[i] THEN @ ELSE "down"]
  ELSE UNCHANGED <<journal, owner, phase>>

\* The writer leaves when it is told to stop, also in the middle of its
\* retries, or when it is closing and the queue is drained.
WriterExit(i) ==
  /\ \/ phase[i] = "stopping" /\ writer[i] \in {"idle", "append"}
     \/ phase[i] = "closing" /\ writer[i] = "idle" /\ queue[i] = <<>>
  /\ writer' = [writer EXCEPT ![i] = "exited"]
  /\ Leave(i, delivery[i])
  /\ UNCHANGED <<outbox, closer, stops, reserved, queue, writing, pending, delivery, inhand, callVars, accepted>>

DeliveryExit(i) ==
  /\ delivery[i] = "idle"
  /\ \/ phase[i] = "stopping"
     \/ phase[i] = "closing" /\ pending[i] = {} /\ queue[i] = <<>>
  /\ delivery' = [delivery EXCEPT ![i] = "exited"]
  /\ Leave(i, writer[i])
  /\ UNCHANGED <<outbox, closer, stops, reserved, queue, writing, pending, writer, inhand, callVars, accepted>>

Exited(i) == writer[i] = "exited" /\ delivery[i] = "exited"

CloseBegin(i) ==
  /\ phase[i] = "open" /\ stops < MaxStops
  /\ stops' = stops + 1
  /\ phase' = [phase EXCEPT ![i] = "closing"]
  /\ closer' = [closer EXCEPT ![i] = TRUE]
  /\ UNCHANGED <<diskVars, owner, workVars, callVars, accepted>>

\* The joins have ended, by the exit of the threads or by their deadline.
CloseStop(i) ==
  /\ closer[i] /\ phase[i] = "closing"
  /\ phase' = [phase EXCEPT ![i] = "stopping"]
  /\ UNCHANGED <<diskVars, owner, closer, stops, workVars, callVars, accepted>>

\* The closing thread compacts once more if both threads have exited, although
\* the last of them has released the lock.
CloseReturn(i) ==
  /\ closer[i] /\ phase[i] = "stopping"
  /\ journal' = IF Exited(i) THEN Compacted(i) ELSE journal
  /\ phase' = [phase EXCEPT ![i] = IF Exited(i) THEN "down" ELSE @]
  /\ closer' = [closer EXCEPT ![i] = FALSE]
  /\ UNCHANGED <<outbox, owner, stops, workVars, callVars, accepted>>

\* The memory of an instance that is gone.
Forget(i) ==
  /\ reserved' = [reserved EXCEPT ![i] = {}]
  /\ queue' = [queue EXCEPT ![i] = <<>>]
  /\ writing' = [writing EXCEPT ![i] = <<>>]
  /\ pending' = [pending EXCEPT ![i] = {}]
  /\ inhand' = [inhand EXCEPT ![i] = NoSubmission]

\* The process dies.  Of an append under way any number of records may have
\* reached the disk; a torn last one is cut off by the next replay.
Crash(i) ==
  /\ phase[i] # "down" /\ stops < MaxStops
  /\ stops' = stops + 1
  /\ \E n \in 0 .. (IF writer[i] = "append" THEN Len(writing[i]) ELSE 0) :
       journal' = journal \o PutAll(SubSeq(writing[i], 1, n))
  /\ phase' = [phase EXCEPT ![i] = "down"]
  /\ closer' = [closer EXCEPT ![i] = FALSE]
  /\ owner' = IF owner = i THEN NoInstance ELSE owner
  /\ writer' = [writer EXCEPT ![i] = "exited"]
  /\ delivery' = [delivery EXCEPT ![i] = "exited"]
  /\ pc' = [c \in Callers |-> IF at[c] = i THEN "idle" ELSE pc[c]]
  /\ sub' = [c \in Callers |-> IF at[c] = i THEN NoSubmission ELSE sub[c]]
  /\ at' = [c \in Callers |-> IF at[c] = i THEN NoInstance ELSE at[c]]
  /\ Forget(i)
  /\ UNCHANGED <<outbox, accepted>>

-----------------------------------------------------------------------------
CallerStep(c) ==
  \/ LookupFree(c) \/ LookupDuplicate(c) \/ LookupRefused(c)
  \/ Enqueue(c) \/ Timeout(c) \/ Fallback(c)

WriterStep(i) == WriterTake(i) \/ WriterAppend(i) \/ WriterPublish(i) \/ WriterExit(i)

DeliveryStep(i) ==
  \/ \E s \in Submissions : DeliveryPick(i, s)
  \/ DeliveryAppend(i) \/ DeliveryAck(i) \/ DeliveryFails(i)
  \/ DeliveryClear(i) \/ DeliveryCompact(i) \/ DeliveryExit(i)

LifeStep(i) == Open(i) \/ CloseBegin(i) \/ CloseStop(i) \/ CloseReturn(i) \/ Crash(i)

Next ==
  \/ \E c \in Callers, i \in Instances, s \in Submissions :
       SubmitReserve(c, i, s) \/ SubmitRefused(c, i, s)
  \/ \E c \in Callers : CallerStep(c)
  \/ \E i \in Instances : WriterStep(i) \/ DeliveryStep(i) \/ LifeStep(i)

Spec == Init /\ [][Next]_vars

\* Threads keep running, waits end, and a stopped process is started again.
\* The outbox and the disk answer now and then, so an append that is tried
\* again for ever succeeds unless the outbox refuses it for another reason;
\* the entry that was tried longest ago goes first, so none is passed over.
Fairness ==
  /\ \A c \in Callers : WF_vars(CallerStep(c))
  /\ \A i \in Instances :
       /\ WF_vars(Open(i)) /\ WF_vars(CloseStop(i)) /\ WF_vars(CloseReturn(i))
       /\ WF_vars(WriterStep(i))
       /\ WF_vars(DeliveryStep(i))
       /\ SF_vars(DeliveryAppend(i)) /\ SF_vars(DeliveryAck(i))
       /\ \A s \in Submissions : SF_vars(DeliveryPick(i, s))

FairSpec == Spec /\ Fairness

-----------------------------------------------------------------------------
(***************************************************************************)
(* Properties.                                                             *)
(***************************************************************************)

\* What a crash of every process leaves behind.
Durable == outbox \cup Unacked(journal)

\* A submission for which submit returned True survives every crash: its put
\* is in the journal, without an ack, until it is in the outbox.
AcceptedIsDurable == accepted \subseteq Durable

\* The next start can always replay the journal.
JournalIsReplayable == Replayable(journal)

\* An entry the delivery thread can still pick is one a crash would not lose,
\* so the memory of the owner never promises more than the disk.
PendingIsDurable == \A i \in Instances : phase[i] # "down" => pending[i] \subseteq Durable

\* Seen through what is durable, what is delivered and what was answered, the
\* journal, its compaction, the threads, restarts and crashes are invisible.
Accept == INSTANCE DurableAccept WITH durable <- Durable, delivered <- outbox, answered <- accepted

ImplementsDurableAccept == Accept!AcceptSpec

\* At-least-once delivery: an accepted submission reaches the outbox, also
\* over failed attempts, a close or a crash.
AcceptedReachesOutbox == \A s \in Submissions : s \in accepted ~> s \in outbox

\* No reservation outlives its reason: while the handoff is open, an id that
\* is reserved becomes free again, because its submission is delivered or
\* its call gives up.  Until then a second call is answered as a duplicate
\* (AnswersDuplicate), so a reservation left behind would turn every retry of
\* the event into an answer with nothing behind it.
ReservationEnds ==
  \A i \in Instances, s \in Submissions :
    (phase[i] = "open" /\ s \in reserved[i]) ~> (phase[i] # "open" \/ s \notin reserved[i])
=============================================================================
