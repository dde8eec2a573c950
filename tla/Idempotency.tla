----------------------------- MODULE Idempotency -----------------------------
(***************************************************************************)
(* SQLiteIdempotencyStore (reliability.py): the table that gives a repeat  *)
(* of a request the answer of the first attempt, shared by the calls of    *)
(* several service processes.  A call of execute takes the lock of its key *)
(* in its own process, claims the row of the key under a lease, runs the   *)
(* operation outside every lock, and stores the answer only if the row is  *)
(* still its own.                                                          *)
(*                                                                         *)
(* A call is one request: key, payload and process are given.  It stands   *)
(* for its own owner token (a fresh uuid), for the lock object it creates  *)
(* and for the answer its operation computes.                              *)
(***************************************************************************)
EXTENDS Integers, FiniteSets

CONSTANTS
    Processes,        \* service processes that share the database file
    Keys,             \* idempotency keys
    Payloads,         \* request bodies, told apart by their hash
    Calls,            \* the calls of execute
    KeyOf,            \* [Calls -> Keys]
    PayloadOf,        \* [Calls -> Payloads]
    ProcessOf,        \* [Calls -> Processes]
    SlowOperations,   \* calls whose operation may outlast the lease of 60 s
    EarlierCalls,     \* calls answered before, whose answers are in the table
    MaxEntries,       \* max_entries
    NoCall,           \* no lock object, no owner
    NoPayload         \* the binding of a free key

ASSUME CallsAssumption ==
    /\ KeyOf \in [Calls -> Keys]
    /\ PayloadOf \in [Calls -> Payloads]
    /\ ProcessOf \in [Calls -> Processes]
    /\ SlowOperations \subseteq Calls
    /\ EarlierCalls \subseteq Calls
    /\ \A c, d \in EarlierCalls : KeyOf[c] = KeyOf[d] => c = d
    /\ Cardinality(EarlierCalls) <= MaxEntries
ASSUME FiniteAssumption == IsFiniteSet(Calls) /\ IsFiniteSet(Keys)
ASSUME MaxEntriesAssumption == MaxEntries \in Nat \ {0}
ASSUME NoCallAssumption == NoCall \notin Calls
ASSUME NoPayloadAssumption == NoPayload \notin Payloads

VARIABLES
    row,        \* the table: one row per key
    completed,  \* completed_count of idempotency_metadata
    lock,       \* _request_locks of each process
    users,      \* _request_lock_users of each process
    held,       \* the lock objects that are held
    mine,       \* the local variable lock of each call
    pc,         \* where each call is
    outcome     \* what each call returns

dbVars == <<row, completed>>
lockVars == <<lock, users, held, mine>>
vars == <<row, completed, lock, users, held, mine, pc, outcome>>

-----------------------------------------------------------------------------
(* A row is owned by the call that claimed it; once completed it carries   *)
(* the answer of that call.  Its clock is the lease of the claim, then the *)
(* time to live of the answer.                                             *)

Row == [state: {"inflight", "completed"}, payload: Payloads, by: Calls,
        running: BOOLEAN]
NoRow == [state |-> "absent"]

Outcome == [kind: {"none", "refused", "failed"}]
           \cup [kind: {"answered", "replayed"}, by: Calls]
Nothing == [kind |-> "none"]

Phases == {"idle", "queued", "claiming", "running", "storing", "failing",
           "leaving", "left", "done", "dead"}

Is(k, state) == row[k].state = state
Peers(p, k) == {c \in Calls : ProcessOf[c] = p /\ KeyOf[c] = k}

\* Between the increment and the decrement of _request_lock_users.
Registered(c) ==
    pc[c] \in {"queued", "claiming", "running", "storing", "failing",
               "leaving", "left"}

\* Between lock.acquire() and lock.release().
Inside(c) ==
    pc[c] \in {"claiming", "running", "storing", "failing", "leaving"}

\* From the claim to the transaction that ends it.
Working(c) == pc[c] \in {"running", "storing", "failing"}

Ended(c) == pc[c] \in {"done", "dead"}

Answered(c) == [kind |-> "answered", by |-> c]

\* The table of an earlier run of the service; opening it recounts the
\* completed rows and enforces the capacity.
StoredRow(c) == [state |-> "completed", payload |-> PayloadOf[c], by |-> c,
                 running |-> TRUE]
Author(k) == CHOOSE c \in EarlierCalls : KeyOf[c] = k

Init ==
    /\ row = [k \in Keys |-> IF \E c \in EarlierCalls : KeyOf[c] = k
                             THEN StoredRow(Author(k)) ELSE NoRow]
    /\ completed = Cardinality({k \in Keys : Is(k, "completed")})
    /\ lock = [p \in Processes |-> [k \in Keys |-> NoCall]]
    /\ users = [p \in Processes |-> [k \in Keys |-> 0]]
    /\ held = {}
    /\ mine = [c \in Calls |-> NoCall]
    /\ pc = [c \in Calls |-> IF c \in EarlierCalls THEN "done" ELSE "idle"]
    /\ outcome = [c \in Calls |-> IF c \in EarlierCalls THEN Answered(c) ELSE Nothing]

-----------------------------------------------------------------------------
(* The lock of a key in one process: _request_lock.                        *)

\* Mutant of LockFor: every call brings its own lock.
LockForEach(c) == c

LockFor(c) ==
    IF lock[ProcessOf[c]][KeyOf[c]] = NoCall THEN c ELSE lock[ProcessOf[c]][KeyOf[c]]

Register(c) ==
    LET p == ProcessOf[c]
        k == KeyOf[c]
    IN  /\ pc[c] = "idle"
        /\ lock' = [lock EXCEPT ![p][k] = LockFor(c)]
        /\ users' = [users EXCEPT ![p][k] = @ + 1]
        /\ mine' = [mine EXCEPT ![c] = LockFor(c)]
        /\ pc' = [pc EXCEPT ![c] = "queued"]
        /\ UNCHANGED <<dbVars, held, outcome>>

Acquire(c) ==
    /\ pc[c] = "queued"
    /\ mine[c] \notin held
    /\ held' = held \cup {mine[c]}
    /\ pc' = [pc EXCEPT ![c] = "claiming"]
    /\ UNCHANGED <<dbVars, lock, users, mine, outcome>>

ReleaseLock(c) ==
    /\ pc[c] = "leaving"
    /\ held' = held \ {mine[c]}
    /\ pc' = [pc EXCEPT ![c] = "left"]
    /\ UNCHANGED <<dbVars, lock, users, mine, outcome>>

\* The last user takes the lock object out of the registry.
Drained(c) ==
    LET p == ProcessOf[c]
        k == KeyOf[c]
        remaining == users[p][k] - 1
    IN  /\ users' = [users EXCEPT ![p][k] = IF remaining <= 0 THEN 0 ELSE remaining]
        /\ lock' = [lock EXCEPT ![p][k] =
                      IF remaining <= 0 /\ @ = mine[c] THEN NoCall ELSE @]

Unregister(c) ==
    /\ pc[c] = "left"
    /\ Drained(c)
    /\ mine' = [mine EXCEPT ![c] = NoCall]
    /\ pc' = [pc EXCEPT ![c] = "done"]
    /\ UNCHANGED <<dbVars, held, outcome>>

-----------------------------------------------------------------------------
(* The transactions of execute.                                            *)

\* Mutant of Write: deleting a completed row does not lower the counter.
WriteUncounted(rows) ==
    /\ row' = rows
    /\ completed' = completed
         + Cardinality({k \in Keys : ~Is(k, "completed") /\ rows[k].state = "completed"})

Write(rows) ==
    /\ row' = rows
    /\ completed' = completed
         + Cardinality({k \in Keys : ~Is(k, "completed") /\ rows[k].state = "completed"})
         - Cardinality({k \in Keys : Is(k, "completed") /\ rows[k].state # "completed"})

Without(rows, gone) == [k \in Keys |-> IF k \in gone THEN NoRow ELSE rows[k]]

Expired == {k \in Keys : Is(k, "completed") /\ ~row[k].running}

\* The periodic cleanup and the look at the own row.  The time was read
\* before the transaction began, so a row that has expired since may stay.
Cleaned(rows) == \E gone \in SUBSET Expired : rows = Without(row, gone)

End(c, result) ==
    /\ pc' = [pc EXCEPT ![c] = "leaving"]
    /\ outcome' = [outcome EXCEPT ![c] = result]

\* Mutants of Claimable: the lease is not looked at; nothing is taken over.
ClaimableInLease(r, c) ==
    \/ r.state = "absent"
    \/ r.state = "inflight" /\ r.payload = PayloadOf[c]

ClaimableOnce(r, c) == r.state = "absent"

Claimable(r, c) ==
    \/ r.state = "absent"
    \/ r.state = "inflight" /\ r.payload = PayloadOf[c] /\ ~r.running

Claim(c) ==
    /\ pc[c] = "claiming"
    /\ \E gone \in SUBSET Expired :
         LET rows == Without(row, gone)
         IN  /\ Claimable(rows[KeyOf[c]], c)
             /\ Write([rows EXCEPT ![KeyOf[c]] =
                         [state |-> "inflight", payload |-> PayloadOf[c],
                          by |-> c, running |-> TRUE]])
    /\ pc' = [pc EXCEPT ![c] = "running"]
    /\ UNCHANGED <<lockVars, outcome>>

\* Polling: the row is in flight under a lease that (still) runs.
Wait(c) ==
    /\ pc[c] = "claiming"
    /\ Is(KeyOf[c], "inflight")
    /\ row[KeyOf[c]].payload = PayloadOf[c]
    /\ \E gone \in SUBSET Expired : Write(Without(row, gone))
    /\ UNCHANGED <<lockVars, pc, outcome>>

Replay(c) ==
    /\ pc[c] = "claiming"
    /\ \E gone \in SUBSET (Expired \ {KeyOf[c]}) : Write(Without(row, gone))
    /\ Is(KeyOf[c], "completed")
    /\ row[KeyOf[c]].payload = PayloadOf[c]
    /\ End(c, [kind |-> "replayed", by |-> row[KeyOf[c]].by])
    /\ UNCHANGED lockVars

\* The exception rolls the transaction back, the cleanup with it.
Refuse(c) ==
    /\ pc[c] = "claiming"
    /\ row[KeyOf[c]].state # "absent"
    /\ row[KeyOf[c]].payload # PayloadOf[c]
    /\ End(c, [kind |-> "refused"])
    /\ UNCHANGED <<dbVars, lockVars>>

OperationReturns(c) ==
    /\ pc[c] = "running"
    /\ pc' = [pc EXCEPT ![c] = "storing"]
    /\ UNCHANGED <<dbVars, lockVars, outcome>>

OperationFails(c) ==
    /\ pc[c] = "running"
    /\ pc' = [pc EXCEPT ![c] = "failing"]
    /\ UNCHANGED <<dbVars, lockVars, outcome>>

\* Mutant of Owns: the UPDATE does not compare the owner token.
OwnsByState(c) == Is(KeyOf[c], "inflight")

Owns(c) == Is(KeyOf[c], "inflight") /\ row[KeyOf[c]].by = c

\* The claim of a call that failed is withdrawn.
Withdraw(c) ==
    /\ pc[c] = "failing"
    /\ Write(Without(row, IF Owns(c) THEN {KeyOf[c]} ELSE {}))
    /\ End(c, [kind |-> "failed"])
    /\ UNCHANGED lockVars

\* _enforce_capacity_locked deletes the completed rows beyond max_entries, by
\* the counter, in which the row being completed is included already.
\* The code takes those with the oldest time stamps; the stamps are read
\* outside the transaction, so that may be any of them.
Evicted(rows, gone) ==
    LET full == {k \in Keys : rows[k].state = "completed"}
        overflow == completed + 1 - MaxEntries
    IN  /\ gone \subseteq full
        /\ Cardinality(gone) =
             IF overflow <= 0 THEN 0
             ELSE IF overflow <= Cardinality(full) THEN overflow ELSE Cardinality(full)

Store(c) ==
    /\ pc[c] = "storing"
    /\ Owns(c)
    /\ LET rows == [row EXCEPT ![KeyOf[c]].state = "completed",
                               ![KeyOf[c]].running = TRUE]
       IN  \E gone \in SUBSET Keys :
             /\ Evicted(rows, gone)
             /\ Write(Without(rows, gone))
    /\ End(c, Answered(c))
    /\ UNCHANGED lockVars

\* rowcount # 1: another call has taken the claim over.
ClaimLost(c) ==
    /\ pc[c] = "storing"
    /\ ~Owns(c)
    /\ End(c, [kind |-> "failed"])
    /\ UNCHANGED <<dbVars, lockVars>>

\* A transaction fails (locked beyond busy_timeout, or the commit fails): it
\* is rolled back and the call raises, whatever it has claimed.
DatabaseError(c) ==
    /\ pc[c] \in {"claiming", "storing", "failing"}
    /\ End(c, [kind |-> "failed"])
    /\ UNCHANGED <<dbVars, lockVars>>

-----------------------------------------------------------------------------
(* Time and crashes.                                                       *)

\* A claim lapses after 60 s: its owner is gone, or its operation is slow.
LeaseLapses(k) ==
    /\ Is(k, "inflight")
    /\ row[k].running
    /\ Working(row[k].by) => row[k].by \in SlowOperations
    /\ row' = [row EXCEPT ![k].running = FALSE]
    /\ UNCHANGED <<completed, lockVars, pc, outcome>>

AnswerExpires(k) ==
    /\ Is(k, "completed")
    /\ row[k].running
    /\ row' = [row EXCEPT ![k].running = FALSE]
    /\ UNCHANGED <<completed, lockVars, pc, outcome>>

\* A process is killed: its calls and its locks are gone, the table stays.
\* Opening it again recounts the completed rows and enforces the capacity.
Crash(p) ==
    LET lost == {c \in Calls : ProcessOf[c] = p /\ Registered(c)}
    IN  /\ lost # {}
        /\ pc' = [c \in Calls |-> IF c \in lost THEN "dead" ELSE pc[c]]
        /\ mine' = [c \in Calls |-> IF c \in lost THEN NoCall ELSE mine[c]]
        /\ held' = {l \in held : ProcessOf[l] # p}
        /\ lock' = [lock EXCEPT ![p] = [k \in Keys |-> NoCall]]
        /\ users' = [users EXCEPT ![p] = [k \in Keys |-> 0]]
        /\ completed' = Cardinality({k \in Keys : Is(k, "completed")})
        /\ UNCHANGED <<row, outcome>>

-----------------------------------------------------------------------------

LockStep(c) == Register(c) \/ Acquire(c) \/ ReleaseLock(c) \/ Unregister(c)
ClaimStep(c) == Claim(c) \/ Wait(c) \/ Replay(c) \/ Refuse(c)
WorkStep(c) == OperationReturns(c) \/ OperationFails(c)
StoreStep(c) == Store(c) \/ ClaimLost(c) \/ Withdraw(c)

Next ==
    \/ \E c \in Calls : \/ LockStep(c) \/ ClaimStep(c) \/ WorkStep(c)
                        \/ StoreStep(c) \/ DatabaseError(c)
    \/ \E k \in Keys : LeaseLapses(k) \/ AnswerExpires(k)
    \/ \E p \in Processes : Crash(p)

Spec == Init /\ [][Next]_vars

(* Threads keep running, operations end (every call of a model or a peer   *)
(* has a deadline), leases run out.  Python's locks are not fair, but a    *)
(* lock that is free again and again is taken in the end.                  *)
Fairness ==
    /\ \A c \in Calls :
         /\ SF_vars(Acquire(c))
         /\ WF_vars(ReleaseLock(c) \/ Unregister(c))
         /\ WF_vars(Claim(c) \/ Replay(c) \/ Refuse(c))
         /\ WF_vars(WorkStep(c))
         /\ WF_vars(StoreStep(c))
    /\ \A k \in Keys : WF_vars(LeaseLapses(k))

FairSpec == Spec /\ Fairness

-----------------------------------------------------------------------------
(* Type invariant of the table, the lock registry and the calls.           *)
TypeOK ==
    /\ row \in [Keys -> Row \cup {NoRow}]
    /\ completed \in Int
    /\ lock \in [Processes -> [Keys -> Calls \cup {NoCall}]]
    /\ users \in [Processes -> [Keys -> Nat]]
    /\ held \subseteq Calls \cup {NoCall}
    /\ mine \in [Calls -> Calls \cup {NoCall}]
    /\ pc \in [Calls -> Phases]
    /\ outcome \in [Calls -> Outcome]

(* Two calls of one process never work on the same key at the same time,   *)
(* although the lock object of a key is removed from the registry and made *)
(* anew while others may still be using the old one (_request_lock).       *)
KeyIsSerialized ==
    \A c, d \in Calls :
        (c # d /\ Inside(c) /\ Inside(d) /\ KeyOf[c] = KeyOf[d])
            => ProcessOf[c] # ProcessOf[d]

(* The registry holds a lock exactly while some call uses it: it neither   *)
(* loses one that is waited for nor grows with the keys ever seen.         *)
RegistryIsExact ==
    \A p \in Processes, k \in Keys :
        /\ users[p][k] = Cardinality({c \in Peers(p, k) : Registered(c)})
        /\ lock[p][k] = NoCall <=> users[p][k] = 0

(* Across processes the claim keeps a second operation from starting while *)
(* one is under way, unless the first has outlasted its lease: "a short    *)
(* cross-instance claim prevents two service processes ... from both       *)
(* executing the same side-effecting operation" (execute).                 *)
OperationsRunAlone ==
    \A c, d \in Calls :
        (c # d /\ Working(c) /\ Working(d) /\ KeyOf[c] = KeyOf[d])
            => \/ c \in SlowOperations /\ ~Owns(c)
               \/ d \in SlowOperations /\ ~Owns(d)

(* What a repeat is given was computed for the same request, whoever owned *)
(* the row in between (replay, takeover, expiry and reuse of the key).     *)
AnswersFitTheRequest ==
    \A c \in Calls :
        outcome[c].kind = "replayed" =>
            /\ KeyOf[outcome[c].by] = KeyOf[c]
            /\ PayloadOf[outcome[c].by] = PayloadOf[c]

(* The counter that bounds the cache stays equal to the number of          *)
(* completed rows through claims, withdrawals, expiry and restarts, and    *)
(* the cache within its capacity (the triggers and                         *)
(* _enforce_capacity_locked).                                              *)
CapacityIsKept ==
    /\ completed = Cardinality({k \in Keys : Is(k, "completed")})
    /\ completed <= MaxEntries

(* Each key behaves like the cell of AnswerOnce: one request at a time is  *)
(* bound to it, one answer is stored, and every caller that is told an     *)
(* answer was told the one in the cell, although the work is done outside  *)
(* all locks, claims are taken over and cleanup deletes rows meanwhile.    *)
Cell(k) == INSTANCE AnswerOnce WITH
    Requests   <- {c \in Calls : KeyOf[c] = k},
    PayloadFor <- PayloadOf,
    NoAnswer   <- NoCall,
    bound      <- IF row[k] = NoRow THEN NoPayload ELSE row[k].payload,
    answer     <- IF Is(k, "completed") THEN row[k].by ELSE NoCall,
    result     <- [c \in {d \in Calls : KeyOf[d] = k} |-> outcome[c]]

KeysAreCells ==
    /\ \A k \in Keys : Cell(k)!Init
    /\ [][\A k \in Keys : Cell(k)!Next \/ UNCHANGED Cell(k)!vars]_vars

(* Every call ends, whatever its peers do: waiters are released by the     *)
(* answer, by the withdrawal or by the end of a lease whose owner died.    *)
EveryCallEnds == \A c \in Calls : pc[c] # "idle" ~> Ended(c)

=============================================================================
