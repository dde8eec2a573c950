-------------------------- MODULE IdempotencyProofs --------------------------
(***************************************************************************)
(* Proofs about Idempotency: type correctness, the exclusion that the lock *)
(* registry gives to the calls of one process, the exclusion that claims   *)
(* give to the processes, the answers that repeats are given, the capacity *)
(* of the cache, and that every key implements the cell of AnswerOnce.     *)
(***************************************************************************)
EXTENDS Idempotency, FiniteSetTheorems, TLAPS

\* Deleting rows leaves a table.
LEMMA WithoutType ==
  ASSUME NEW T, NEW rows \in [Keys -> T], NEW gone, NoRow \in T
  PROVE  Without(rows, gone) \in [Keys -> T]
BY DEF Without

\* Sets of keys and of calls are finite, so they can be counted.
LEMMA Countable ==
  /\ \A S \in SUBSET Keys : IsFiniteSet(S) /\ Cardinality(S) \in Nat
  /\ \A S \in SUBSET Calls : IsFiniteSet(S) /\ Cardinality(S) \in Nat
BY FiniteAssumption, FS_Subset, FS_CardinalityType

\* A write leaves a table and a number.
LEMMA WriteType ==
  ASSUME TypeOK, NEW rows \in [Keys -> Row \cup {NoRow}], Write(rows)
  PROVE  row' \in [Keys -> Row \cup {NoRow}] /\ completed' \in Int
<1>1. {k \in Keys : ~Is(k, "completed") /\ rows[k].state = "completed"} \in SUBSET Keys
  OBVIOUS
<1>2. {k \in Keys : Is(k, "completed") /\ rows[k].state # "completed"} \in SUBSET Keys
  OBVIOUS
<1>3. completed \in Int
  BY DEF TypeOK
<1> QED BY <1>1, <1>2, <1>3, Countable DEF Write

\* The rows of the table at the start hold the answers of earlier calls.
LEMMA InitialRows ==
  ASSUME Init, NEW k \in Keys
  PROVE  \/ row[k] = NoRow
         \/ \E c \in EarlierCalls : KeyOf[c] = k /\ row[k] = StoredRow(c)
<1>1. CASE \E c \in EarlierCalls : KeyOf[c] = k
  <2>1. Author(k) \in EarlierCalls /\ KeyOf[Author(k)] = k
    BY <1>1 DEF Author
  <2> QED BY <1>1, <2>1 DEF Init
<1>2. CASE ~\E c \in EarlierCalls : KeyOf[c] = k
  BY <1>2 DEF Init
<1> QED BY <1>1, <1>2

\* The table, the registry, the lock objects and the calls keep their types;
\* in particular no counter of users ever falls below zero.
THEOREM TypeCorrect == Spec => []TypeOK
<1> USE CallsAssumption
<1>1. Init => TypeOK
  <2> SUFFICES ASSUME Init PROVE TypeOK
    OBVIOUS
  <2>1. row \in [Keys -> Row \cup {NoRow}]
    <3>1. \A c \in EarlierCalls : StoredRow(c) \in Row
      BY DEF StoredRow, Row
    <3>2. \A k \in Keys : row[k] \in Row \cup {NoRow}
      BY <3>1, InitialRows
    <3> QED BY <3>2 DEF Init
  <2>2. completed \in Int
    <3>1. {k \in Keys : Is(k, "completed")} \in SUBSET Keys
      OBVIOUS
    <3> QED BY <3>1, Countable DEF Init
  <2>3. outcome \in [Calls -> Outcome]
    BY DEF Init, Outcome, Answered, Nothing
  <2> QED BY <2>1, <2>2, <2>3 DEF Init, TypeOK, Phases
<1>2. TypeOK /\ [Next]_vars => TypeOK'
  <2> SUFFICES ASSUME TypeOK, [Next]_vars PROVE TypeOK'
    OBVIOUS
  <2> USE DEF dbVars, lockVars, vars
  <2>1. ASSUME NEW c \in Calls, LockStep(c) PROVE TypeOK'
    <3>1. CASE Register(c)
      BY <3>1 DEF Register, LockFor, TypeOK, Phases
    <3>2. CASE Acquire(c)
      <4>1. mine[c] \in Calls \cup {NoCall}
        BY DEF TypeOK
      <4> QED BY <3>2, <4>1 DEF Acquire, TypeOK, Phases
    <3>3. CASE ReleaseLock(c)
      BY <3>3 DEF ReleaseLock, TypeOK, Phases
    <3>4. CASE Unregister(c)
      BY <3>4 DEF Unregister, Drained, TypeOK, Phases
    <3> QED BY <2>1, <3>1, <3>2, <3>3, <3>4 DEF LockStep
  <2>2. ASSUME NEW c \in Calls, ClaimStep(c) PROVE TypeOK'
    <3>1. CASE Claim(c)
      <4>1. PICK gone \in SUBSET Expired :
              Write([Without(row, gone) EXCEPT ![KeyOf[c]] =
                       [state |-> "inflight", payload |-> PayloadOf[c],
                        by |-> c, running |-> TRUE]])
        BY <3>1 DEF Claim
      <4>2. [Without(row, gone) EXCEPT ![KeyOf[c]] =
               [state |-> "inflight", payload |-> PayloadOf[c],
                by |-> c, running |-> TRUE]] \in [Keys -> Row \cup {NoRow}]
        BY WithoutType DEF TypeOK, Row
      <4> QED BY <3>1, <4>1, <4>2, WriteType DEF Claim, TypeOK, Phases
    <3>2. CASE Wait(c)
      BY <3>2, WithoutType, WriteType DEF Wait, TypeOK
    <3>3. CASE Replay(c)
      <4>1. row' \in [Keys -> Row \cup {NoRow}] /\ completed' \in Int
        BY <3>3, WithoutType, WriteType DEF Replay, TypeOK
      <4>2. row[KeyOf[c]].by \in Calls
        BY <3>3 DEF Replay, TypeOK, Row, NoRow, Is
      <4> QED BY <3>3, <4>1, <4>2 DEF Replay, End, TypeOK, Phases, Outcome
    <3>4. CASE Refuse(c)
      BY <3>4 DEF Refuse, End, TypeOK, Phases, Outcome
    <3> QED BY <2>2, <3>1, <3>2, <3>3, <3>4 DEF ClaimStep
  <2>3. ASSUME NEW c \in Calls, WorkStep(c) PROVE TypeOK'
    BY <2>3 DEF WorkStep, OperationReturns, OperationFails, TypeOK, Phases
  <2>4. ASSUME NEW c \in Calls, StoreStep(c) PROVE TypeOK'
    <3>1. CASE Store(c)
      <4> DEFINE rows == [row EXCEPT ![KeyOf[c]].state = "completed",
                                     ![KeyOf[c]].running = TRUE]
      <4>1. row[KeyOf[c]] \in Row
        BY <3>1 DEF Store, Owns, Is, TypeOK, NoRow
      <4>2. rows \in [Keys -> Row \cup {NoRow}]
        BY <4>1 DEF TypeOK, Row
      <4>3. PICK gone \in SUBSET Keys : Write(Without(rows, gone))
        BY <3>1 DEF Store
      <4>4. row' \in [Keys -> Row \cup {NoRow}] /\ completed' \in Int
        BY <4>2, <4>3, WithoutType, WriteType
      <4> QED BY <3>1, <4>4 DEF Store, End, TypeOK, Phases, Outcome, Answered
    <3>2. CASE ClaimLost(c)
      BY <3>2 DEF ClaimLost, End, TypeOK, Phases, Outcome
    <3>3. CASE Withdraw(c)
      <4>1. row' \in [Keys -> Row \cup {NoRow}] /\ completed' \in Int
        BY <3>3, WithoutType, WriteType DEF Withdraw, TypeOK
      <4> QED BY <3>3, <4>1 DEF Withdraw, End, TypeOK, Phases, Outcome
    <3> QED BY <2>4, <3>1, <3>2, <3>3 DEF StoreStep
  <2>5. ASSUME NEW c \in Calls, DatabaseError(c) PROVE TypeOK'
    BY <2>5 DEF DatabaseError, End, TypeOK, Phases, Outcome
  <2>6. ASSUME NEW k \in Keys, LeaseLapses(k) \/ AnswerExpires(k) PROVE TypeOK'
    <3>1. row[k] \in Row /\ row' = [row EXCEPT ![k].running = FALSE]
      BY <2>6 DEF LeaseLapses, AnswerExpires, TypeOK, Is, NoRow
    <3>2. row' \in [Keys -> Row \cup {NoRow}]
      BY <3>1 DEF TypeOK, Row
    <3> QED BY <2>6, <3>2 DEF LeaseLapses, AnswerExpires, TypeOK
  <2>7. ASSUME NEW p \in Processes, Crash(p) PROVE TypeOK'
    <3>1. {k \in Keys : Is(k, "completed")} \in SUBSET Keys
      OBVIOUS
    <3> QED BY <2>7, <3>1, Countable DEF Crash, TypeOK, Phases
  <2>8. CASE UNCHANGED vars
    BY <2>8 DEF TypeOK
  <2> QED BY <2>1, <2>2, <2>3, <2>4, <2>5, <2>6, <2>7, <2>8 DEF Next
<1> QED BY <1>1, <1>2, PTL DEF Spec

-----------------------------------------------------------------------------
(* The lock registry.  A registered call uses the object that is in the    *)
(* registry now, because an object leaves it only with its last user; so   *)
(* two calls of a process that are inside for one key hold one lock.       *)

Users(p, k) == {c \in Peers(p, k) : Registered(c)}

\* A registered call uses the lock of its key in the registry.
RegistryInv ==
  /\ \A c \in Calls : Registered(c) => /\ mine[c] # NoCall
                                     /\ mine[c] = lock[ProcessOf[c]][KeyOf[c]]
  /\ \A p \in Processes, k \in Keys :
       /\ users[p][k] = Cardinality(Users(p, k))
       /\ lock[p][k] = NoCall <=> users[p][k] = 0
       /\ lock[p][k] # NoCall => ProcessOf[lock[p][k]] = p /\ KeyOf[lock[p][k]] = k

\* A call that is inside holds its lock, and nobody else holds that lock.
HoldInv ==
  /\ \A c \in Calls : Inside(c) => mine[c] \in held
  /\ \A c, d \in Calls : c # d /\ Inside(c) /\ Inside(d) => mine[c] # mine[d]

\* The counter of a key is zero exactly if no call uses its lock.
LEMMA UsersCounted ==
  ASSUME NEW p, NEW k
  PROVE  /\ IsFiniteSet(Users(p, k))
         /\ Cardinality(Users(p, k)) \in Nat
         /\ Cardinality(Users(p, k)) = 0 <=> Users(p, k) = {}
<1>1. Users(p, k) \in SUBSET Calls
  BY DEF Users, Peers
<1> QED BY <1>1, Countable, FS_EmptySet

\* Whatever leaves the registry, the lock objects and the set of registered
\* calls alone keeps RegistryInv.
LEMMA RegistryFrame ==
  ASSUME TypeOK, RegistryInv, UNCHANGED <<lock, users, mine>>,
         \A c \in Calls : Registered(c)' <=> Registered(c)
  PROVE  RegistryInv'
<1>1. \A p, k : Users(p, k)' = Users(p, k)
  BY DEF Users, Peers
<1> QED BY <1>1 DEF RegistryInv

\* Whatever leaves the lock objects alone and lets no call in keeps HoldInv.
LEMMA HoldFrame ==
  ASSUME HoldInv, UNCHANGED <<held, mine>>, \A c \in Calls : Inside(c)' => Inside(c)
  PROVE  HoldInv'
BY DEF HoldInv

\* A transaction or an operation moves one call within the lock.
LEMMA LocksUntouched ==
  ASSUME TypeOK, RegistryInv, HoldInv, UNCHANGED lockVars, NEW c \in Calls, Inside(c),
         NEW q \in {"claiming", "running", "storing", "failing", "leaving"},
         pc' = [pc EXCEPT ![c] = q]
  PROVE  RegistryInv' /\ HoldInv'
<1>1. \A d \in Calls : Registered(d)' <=> Registered(d)
  BY DEF TypeOK, Registered, Inside
<1>2. \A d \in Calls : Inside(d)' => Inside(d)
  BY DEF TypeOK, Inside
<1> QED BY <1>1, <1>2, RegistryFrame, HoldFrame DEF lockVars

\* One more call uses the lock of its key.
LEMMA RegisterSafe ==
  ASSUME TypeOK, RegistryInv, HoldInv, NEW c \in Calls, Register(c)
  PROVE  RegistryInv' /\ HoldInv'
<1> DEFINE p == ProcessOf[c]
           k == KeyOf[c]
<1> USE CallsAssumption, NoCallAssumption
<1>1. p \in Processes /\ k \in Keys
  OBVIOUS
<1>2. pc[c] = "idle" /\ \A d \in Calls : pc'[d] = IF d = c THEN "queued" ELSE pc[d]
  BY DEF Register, TypeOK
<1>3. \A d \in Calls : /\ Registered(d)' <=> (d = c \/ Registered(d))
                       /\ Inside(d)' <=> Inside(d)
                       /\ mine'[d] = IF d = c THEN LockFor(c) ELSE mine[d]
                       /\ Inside(d) => d # c
  BY <1>2 DEF Registered, Inside, Register, TypeOK
<1>4. \A q \in Processes, j \in Keys :
        /\ lock'[q][j] = IF q = p /\ j = k THEN LockFor(c) ELSE lock[q][j]
        /\ users'[q][j] = IF q = p /\ j = k THEN users[q][j] + 1 ELSE users[q][j]
  BY <1>1 DEF Register, TypeOK
<1>5. LockFor(c) # NoCall /\ ProcessOf[LockFor(c)] = p /\ KeyOf[LockFor(c)] = k
  BY <1>1 DEF LockFor, RegistryInv
<1>6. \A d \in Calls : Registered(d) /\ ProcessOf[d] = p /\ KeyOf[d] = k => LockFor(c) = lock[p][k]
  BY <1>1 DEF LockFor, RegistryInv
<1>7. RegistryInv'
  <2>1. \A d \in Calls : Registered(d)' => mine'[d] # NoCall /\ mine'[d] = lock'[ProcessOf[d]][KeyOf[d]]
    BY <1>1, <1>3, <1>4, <1>5, <1>6 DEF RegistryInv
  <2>2. ASSUME NEW q \in Processes, NEW j \in Keys
        PROVE  /\ users'[q][j] = Cardinality(Users(q, j)')
               /\ lock'[q][j] = NoCall <=> users'[q][j] = 0
               /\ lock'[q][j] # NoCall => ProcessOf[lock'[q][j]] = q /\ KeyOf[lock'[q][j]] = j
    <3>1. CASE q = p /\ j = k
      <4>1. Users(q, j)' = Users(q, j) \cup {c} /\ c \notin Users(q, j)
        BY <1>2, <1>3, <3>1 DEF Users, Peers, Registered
      <4>2. Cardinality(Users(q, j)') = Cardinality(Users(q, j)) + 1
        BY <4>1, UsersCounted, FS_AddElement
      <4> QED BY <1>4, <1>5, <3>1, <4>2, UsersCounted DEF RegistryInv
    <3>2. CASE ~(q = p /\ j = k)
      <4>1. Users(q, j)' = Users(q, j)
        BY <1>3, <3>2 DEF Users, Peers
      <4> QED BY <1>4, <3>2, <4>1 DEF RegistryInv
    <3> QED BY <3>1, <3>2
  <2> QED BY <2>1, <2>2 DEF RegistryInv
<1>8. HoldInv'
  BY <1>3 DEF HoldInv, Register
<1> QED BY <1>7, <1>8

\* The last user takes the lock out of the registry; an earlier one leaves it.
LEMMA UnregisterSafe ==
  ASSUME TypeOK, RegistryInv, HoldInv, NEW c \in Calls, Unregister(c)
  PROVE  RegistryInv' /\ HoldInv'
<1> DEFINE p == ProcessOf[c]
           k == KeyOf[c]
<1> USE CallsAssumption, NoCallAssumption
<1>1. p \in Processes /\ k \in Keys
  OBVIOUS
<1>2. pc[c] = "left" /\ \A d \in Calls : pc'[d] = IF d = c THEN "done" ELSE pc[d]
  BY DEF Unregister, TypeOK
<1>3. \A d \in Calls : /\ Registered(d)' <=> (d # c /\ Registered(d))
                       /\ Inside(d)' <=> Inside(d)
                       /\ mine'[d] = IF d = c THEN NoCall ELSE mine[d]
                       /\ Inside(d) => d # c
  BY <1>2 DEF Registered, Inside, Unregister, TypeOK
<1>4. mine[c] = lock[p][k]
  BY <1>2 DEF RegistryInv, Registered
<1>5. \A q \in Processes, j \in Keys :
        /\ lock'[q][j] = IF q = p /\ j = k /\ users[p][k] - 1 <= 0 THEN NoCall ELSE lock[q][j]
        /\ users'[q][j] = IF q = p /\ j = k THEN IF users[p][k] - 1 <= 0 THEN 0 ELSE users[p][k] - 1
                         ELSE users[q][j]
  BY <1>1, <1>4 DEF Unregister, Drained, TypeOK
<1>6. \A q \in Processes, j \in Keys :
        Users(q, j)' = IF q = p /\ j = k THEN Users(p, k) \ {c} ELSE Users(q, j)
  BY <1>3 DEF Users, Peers
<1>7. c \in Users(p, k)
  BY <1>2 DEF Users, Peers, Registered
<1>8. Cardinality(Users(p, k) \ {c}) = users[p][k] - 1 /\ users[p][k] - 1 \in Nat
  <2>1. users[p][k] = Cardinality(Users(p, k))
    BY <1>1 DEF RegistryInv
  <2>2. IsFiniteSet(Users(p, k))
    BY UsersCounted
  <2>3. /\ IsFiniteSet(Users(p, k) \ {c})
        /\ Cardinality(Users(p, k) \ {c}) = Cardinality(Users(p, k)) - 1
    BY <1>7, <2>2, FS_RemoveElement
  <2> QED BY <2>1, <2>3, FS_CardinalityType
<1>9. \A d \in Calls : Registered(d)' /\ ProcessOf[d] = p /\ KeyOf[d] = k => ~(users[p][k] - 1 <= 0)
  <2> SUFFICES ASSUME NEW d \in Calls, Registered(d)', ProcessOf[d] = p, KeyOf[d] = k
               PROVE  ~(users[p][k] - 1 <= 0)
    OBVIOUS
  <2>1. d \in Users(p, k) \ {c}
    BY <1>3 DEF Users, Peers
  <2>2. IsFiniteSet(Users(p, k))
    BY UsersCounted
  <2>3. IsFiniteSet(Users(p, k) \ {c})
    BY <2>2, FS_RemoveElement
  <2>4. Cardinality(Users(p, k) \ {c}) # 0
    BY <2>1, <2>3, FS_EmptySet
  <2> QED BY <1>8, <2>4
<1>10. RegistryInv'
  <2>1. \A d \in Calls : Registered(d)' => mine'[d] # NoCall /\ mine'[d] = lock'[ProcessOf[d]][KeyOf[d]]
    BY <1>1, <1>3, <1>5, <1>9 DEF RegistryInv
  <2>2. ASSUME NEW q \in Processes, NEW j \in Keys
        PROVE  /\ users'[q][j] = Cardinality(Users(q, j)')
               /\ lock'[q][j] = NoCall <=> users'[q][j] = 0
               /\ lock'[q][j] # NoCall => ProcessOf[lock'[q][j]] = q /\ KeyOf[lock'[q][j]] = j
    <3>1. CASE q = p /\ j = k
      <4>1. PICK n \in Nat : n = users[p][k] - 1
        BY <1>8
      <4>2. Cardinality(Users(q, j)') = n
        <5>1. Users(q, j)' = Users(p, k) \ {c}
          BY <1>6, <3>1
        <5> QED BY <1>8, <4>1, <5>1
      <4>3. /\ users'[q][j] = n
            /\ lock'[q][j] = IF n = 0 THEN NoCall ELSE lock[q][j]
        <5>1. users[p][k] \in Nat
          BY <1>1 DEF TypeOK
        <5>2. users[p][k] - 1 <= 0 <=> n = 0
          BY <4>1, <5>1
        <5>3. /\ lock'[q][j] = IF users[p][k] - 1 <= 0 THEN NoCall ELSE lock[q][j]
              /\ users'[q][j] = IF users[p][k] - 1 <= 0 THEN 0 ELSE users[p][k] - 1
          BY <1>5, <3>1
        <5> QED BY <4>1, <5>2, <5>3
      <4>4. n # 0 => lock[p][k] # NoCall /\ ProcessOf[lock[p][k]] = p /\ KeyOf[lock[p][k]] = k
        <5>1. users[p][k] \in Nat
          BY <1>1 DEF TypeOK
        <5>2. n # 0 => users[p][k] # 0
          BY <4>1, <5>1
        <5> QED BY <1>1, <5>2 DEF RegistryInv
      <4> QED BY <3>1, <4>2, <4>3, <4>4
    <3>2. CASE ~(q = p /\ j = k)
      BY <1>5, <1>6, <3>2 DEF RegistryInv
    <3> QED BY <3>1, <3>2
  <2> QED BY <2>1, <2>2 DEF RegistryInv
<1>11. HoldInv'
  BY <1>3 DEF HoldInv, Unregister
<1> QED BY <1>10, <1>11

\* A killed process takes its registry with it and no call of another one.
LEMMA CrashSafe ==
  ASSUME TypeOK, RegistryInv, HoldInv, NEW p \in Processes, Crash(p)
  PROVE  RegistryInv' /\ HoldInv'
<1> USE CallsAssumption, NoCallAssumption
<1>1. \A d \in Calls : /\ Registered(d)' <=> ProcessOf[d] # p /\ Registered(d)
                       /\ Inside(d)' => ProcessOf[d] # p /\ Inside(d)
                       /\ ProcessOf[d] # p => mine'[d] = mine[d]
  BY DEF Crash, TypeOK, Registered, Inside
<1>2. \A q \in Processes, j \in Keys :
        /\ lock'[q][j] = IF q = p THEN NoCall ELSE lock[q][j]
        /\ users'[q][j] = IF q = p THEN 0 ELSE users[q][j]
        /\ Users(q, j)' = IF q = p THEN {} ELSE Users(q, j)
  <2>1. \A q \in Processes, j \in Keys : Users(q, j)' = IF q = p THEN {} ELSE Users(q, j)
    BY <1>1 DEF Users, Peers
  <2>2. \A q \in Processes, j \in Keys :
          /\ lock'[q][j] = IF q = p THEN NoCall ELSE lock[q][j]
          /\ users'[q][j] = IF q = p THEN 0 ELSE users[q][j]
    BY DEF Crash, TypeOK
  <2> QED BY <2>1, <2>2
<1>3. RegistryInv'
  <2>1. \A d \in Calls : Registered(d)' => mine'[d] # NoCall /\ mine'[d] = lock'[ProcessOf[d]][KeyOf[d]]
    BY <1>1, <1>2 DEF RegistryInv
  <2>2. ASSUME NEW q \in Processes, NEW j \in Keys
        PROVE  /\ users'[q][j] = Cardinality(Users(q, j)')
               /\ lock'[q][j] = NoCall <=> users'[q][j] = 0
               /\ lock'[q][j] # NoCall => ProcessOf[lock'[q][j]] = q /\ KeyOf[lock'[q][j]] = j
    <3>1. CASE q = p
      BY <1>2, <3>1, FS_EmptySet
    <3>2. CASE q # p
      BY <1>2, <3>2 DEF RegistryInv
    <3> QED BY <3>1, <3>2
  <2> QED BY <2>1, <2>2 DEF RegistryInv
<1>4. HoldInv'
  <2>1. ASSUME NEW d \in Calls, Inside(d)' PROVE mine'[d] \in held'
    <3>1. Inside(d) /\ ProcessOf[d] # p /\ mine'[d] = mine[d] /\ mine[d] \in held
      BY <1>1, <2>1 DEF HoldInv
    <3>2. Registered(d)
      BY <3>1 DEF Inside, Registered
    <3>3. ProcessOf[mine[d]] = ProcessOf[d]
      BY <3>2 DEF RegistryInv
    <3> QED BY <3>1, <3>3 DEF Crash
  <2>2. \A d, e \in Calls : d # e /\ Inside(d)' /\ Inside(e)' => mine'[d] # mine'[e]
    BY <1>1 DEF HoldInv
  <2> QED BY <2>1, <2>2 DEF HoldInv
<1> QED BY <1>3, <1>4

\* The registry and the locks are kept by every step.
LEMMA LocksCorrect == Spec => [](TypeOK /\ RegistryInv /\ HoldInv)
<1> DEFINE Inv == RegistryInv /\ HoldInv
<1>1. Init => Inv
  <2> SUFFICES ASSUME Init PROVE Inv
    OBVIOUS
  <2>1. \A c \in Calls : ~Registered(c) /\ ~Inside(c)
    BY DEF Init, Registered, Inside
  <2>2. \A p \in Processes, k \in Keys : Users(p, k) = {}
    BY <2>1 DEF Users, Peers
  <2>3. \A p \in Processes, k \in Keys : users[p][k] = Cardinality(Users(p, k))
    BY <2>2, FS_EmptySet DEF Init
  <2> QED BY <2>1, <2>3 DEF Init, RegistryInv, HoldInv
<1>2. TypeOK /\ Inv /\ [Next]_vars => Inv'
  <2> SUFFICES ASSUME TypeOK, RegistryInv, HoldInv, [Next]_vars PROVE Inv'
    OBVIOUS
  <2> USE DEF dbVars, lockVars, vars
  <2>1. ASSUME NEW c \in Calls, Acquire(c) PROVE Inv'
    <3>1. \A d \in Calls : /\ Registered(d)' <=> Registered(d)
                           /\ Inside(d)' <=> (d = c \/ Inside(d))
      BY <2>1 DEF Acquire, TypeOK, Registered, Inside
    <3>2. RegistryInv'
      BY <2>1, <3>1, RegistryFrame DEF Acquire
    <3>3. HoldInv'
      BY <2>1, <3>1 DEF Acquire, HoldInv
    <3> QED BY <3>2, <3>3
  <2>2. ASSUME NEW c \in Calls, ReleaseLock(c) PROVE Inv'
    <3>1. \A d \in Calls : /\ Registered(d)' <=> Registered(d)
                           /\ Inside(d)' <=> (d # c /\ Inside(d))
      BY <2>2 DEF ReleaseLock, TypeOK, Registered, Inside
    <3>2. RegistryInv'
      BY <2>2, <3>1, RegistryFrame DEF ReleaseLock
    <3>3. Inside(c)
      BY <2>2 DEF ReleaseLock, Inside
    <3>4. HoldInv'
      BY <2>2, <3>1, <3>3 DEF ReleaseLock, HoldInv
    <3> QED BY <3>2, <3>4
  <2>3. ASSUME NEW c \in Calls, LockStep(c) PROVE Inv'
    BY <2>1, <2>2, <2>3, RegisterSafe, UnregisterSafe DEF LockStep
  <2>4. ASSUME NEW c \in Calls,
               ClaimStep(c) \/ WorkStep(c) \/ StoreStep(c) \/ DatabaseError(c)
        PROVE  Inv'
    <3>1. UNCHANGED lockVars /\ Inside(c)
      BY <2>4 DEF ClaimStep, Claim, Wait, Replay, Refuse, WorkStep, OperationReturns,
         OperationFails, StoreStep, Store, ClaimLost, Withdraw, DatabaseError, Inside
    <3>2. \/ pc' = pc
          \/ \E q \in {"claiming", "running", "storing", "failing", "leaving"} :
               pc' = [pc EXCEPT ![c] = q]
      BY <2>4 DEF ClaimStep, Claim, Wait, Replay, Refuse, WorkStep, OperationReturns,
         OperationFails, StoreStep, Store, ClaimLost, Withdraw, DatabaseError, End
    <3>3. CASE pc' = pc
      BY <3>1, <3>3, RegistryFrame, HoldFrame DEF Registered, Inside
    <3> QED BY <3>1, <3>2, <3>3, LocksUntouched
  <2>5. ASSUME NEW k \in Keys, LeaseLapses(k) \/ AnswerExpires(k) PROVE Inv'
    BY <2>5, RegistryFrame, HoldFrame DEF LeaseLapses, AnswerExpires, Registered, Inside
  <2>6. CASE UNCHANGED vars
    BY <2>6, RegistryFrame, HoldFrame DEF Registered, Inside
  <2> QED BY <2>3, <2>4, <2>5, <2>6, CrashSafe DEF Next
<1> QED BY <1>1, <1>2, TypeCorrect, PTL DEF Spec

\* At most one call of a process is inside for a key: _request_lock excludes.
THEOREM KeysSerialized == Spec => []KeyIsSerialized
<1>1. RegistryInv /\ HoldInv => KeyIsSerialized
  <2> SUFFICES ASSUME RegistryInv, HoldInv, NEW c \in Calls, NEW d \in Calls,
                      c # d, Inside(c), Inside(d), KeyOf[c] = KeyOf[d],
                      ProcessOf[c] = ProcessOf[d]
               PROVE  FALSE
    BY DEF KeyIsSerialized
  <2>1. Registered(c) /\ Registered(d)
    BY DEF Inside, Registered
  <2> QED BY <2>1 DEF RegistryInv, HoldInv
<1> QED BY <1>1, LocksCorrect, PTL

\* The registry counts the calls that use a key and holds its lock meanwhile.
THEOREM RegistryExact == Spec => []RegistryIsExact
<1>1. RegistryInv => RegistryIsExact
  BY DEF RegistryInv, RegistryIsExact, Users
<1> QED BY <1>1, LocksCorrect, PTL

-----------------------------------------------------------------------------
(* What the transactions do to the table.                                  *)

\* A row is absent exactly if it is NoRow, and an expired one is completed.
LEMMA RowKinds ==
  ASSUME TypeOK, NEW k \in Keys
  PROVE  /\ row[k].state = "absent" <=> row[k] = NoRow
         /\ row[k].state # "absent" => row[k] \in Row
         /\ k \in Expired => Is(k, "completed") /\ ~row[k].running
BY DEF TypeOK, Row, NoRow, Expired, Is

\* A claim deletes expired rows and takes a row that is free, expired, or
\* claimed for the same request under a lease that has lapsed.
LEMMA ClaimEffect ==
  ASSUME TypeOK, NEW c \in Calls, Claim(c)
  PROVE  /\ row'[KeyOf[c]] = [state |-> "inflight", payload |-> PayloadOf[c],
                              by |-> c, running |-> TRUE]
         /\ \/ row[KeyOf[c]] = NoRow
            \/ KeyOf[c] \in Expired
            \/ /\ Is(KeyOf[c], "inflight")
               /\ row[KeyOf[c]].payload = PayloadOf[c]
               /\ ~row[KeyOf[c]].running
         /\ \A k \in Keys \ {KeyOf[c]} : row'[k] = row[k] \/ (k \in Expired /\ row'[k] = NoRow)
<1> USE CallsAssumption
<1>1. PICK gone \in SUBSET Expired :
        /\ Claimable(Without(row, gone)[KeyOf[c]], c)
        /\ row' = [Without(row, gone) EXCEPT ![KeyOf[c]] =
                     [state |-> "inflight", payload |-> PayloadOf[c],
                      by |-> c, running |-> TRUE]]
  BY DEF Claim, Write
<1>2. \A k \in Keys : Without(row, gone)[k] = IF k \in gone THEN NoRow ELSE row[k]
  BY DEF Without
<1>3. DOMAIN Without(row, gone) = Keys
  BY DEF Without
<1>4. KeyOf[c] \in Keys
  OBVIOUS
<1>5. \/ row[KeyOf[c]].state = "absent"
      \/ KeyOf[c] \in gone
      \/ /\ row[KeyOf[c]].state = "inflight"
         /\ row[KeyOf[c]].payload = PayloadOf[c]
         /\ ~row[KeyOf[c]].running
  BY <1>1, <1>2, <1>4 DEF Claimable
<1> QED BY <1>1, <1>2, <1>3, <1>4, <1>5, RowKinds DEF Is

\* Waiting and replaying delete expired rows, never the one they look at.
LEMMA LookEffect ==
  ASSUME TypeOK, NEW c \in Calls, Wait(c) \/ Replay(c)
  PROVE  /\ row'[KeyOf[c]] = row[KeyOf[c]]
         /\ \A k \in Keys \ {KeyOf[c]} : row'[k] = row[k] \/ (k \in Expired /\ row'[k] = NoRow)
<1> USE CallsAssumption
<1>1. KeyOf[c] \in Keys
  OBVIOUS
<1>2. CASE Wait(c)
  BY <1>1, <1>2, RowKinds DEF Wait, Write, Without, Is
<1>3. CASE Replay(c)
  BY <1>1, <1>3 DEF Replay, Write, Without
<1> QED BY <1>2, <1>3

\* Storing an answer completes the own row and evicts completed ones.
LEMMA StoreEffect ==
  ASSUME TypeOK, NEW c \in Calls, Store(c)
  PROVE  /\ Is(KeyOf[c], "inflight") /\ row[KeyOf[c]].by = c
         /\ \/ row'[KeyOf[c]] = NoRow
            \/ row'[KeyOf[c]] = [state |-> "completed", payload |-> row[KeyOf[c]].payload,
                                 by |-> c, running |-> TRUE]
         /\ \A k \in Keys \ {KeyOf[c]} :
              row'[k] = row[k] \/ (Is(k, "completed") /\ row'[k] = NoRow)
<1> USE CallsAssumption
<1> DEFINE rows == [row EXCEPT ![KeyOf[c]].state = "completed",
                               ![KeyOf[c]].running = TRUE]
<1>1. KeyOf[c] \in Keys
  OBVIOUS
<1>2. Is(KeyOf[c], "inflight") /\ row[KeyOf[c]].by = c
  BY DEF Store, Owns
<1>3. row[KeyOf[c]] \in Row
  BY <1>1, <1>2, RowKinds DEF Is
<1>4. /\ rows[KeyOf[c]] = [state |-> "completed", payload |-> row[KeyOf[c]].payload,
                           by |-> c, running |-> TRUE]
      /\ \A k \in Keys \ {KeyOf[c]} : rows[k] = row[k]
  BY <1>1, <1>2, <1>3 DEF TypeOK, Row
<1>5. PICK gone \in SUBSET Keys : Evicted(rows, gone) /\ row' = Without(rows, gone)
  BY DEF Store, Write
<1>6. \A k \in Keys : row'[k] = IF k \in gone THEN NoRow ELSE rows[k]
  BY <1>5 DEF Without
<1>7. \A k \in gone : rows[k].state = "completed"
  BY <1>5 DEF Evicted
<1> HIDE DEF rows
<1> QED BY <1>1, <1>2, <1>4, <1>6, <1>7 DEF Is

\* A withdrawal deletes the own row if it still is the own row.
LEMMA WithdrawEffect ==
  ASSUME TypeOK, NEW c \in Calls, Withdraw(c)
  PROVE  /\ row'[KeyOf[c]] = IF Owns(c) THEN NoRow ELSE row[KeyOf[c]]
         /\ \A k \in Keys \ {KeyOf[c]} : row'[k] = row[k]
BY CallsAssumption DEF Withdraw, Write, Without

-----------------------------------------------------------------------------
(* Claims and answers.                                                     *)

\* A call whose operation ends in time owns its row under a running lease.
ClaimInv ==
  \A c \in Calls : Working(c) /\ c \notin SlowOperations => Owns(c) /\ row[KeyOf[c]].running

\* A row carries the request of the call it belongs to.
RowInv ==
  \A k \in Keys : row[k] # NoRow => /\ KeyOf[row[k].by] = k
                                   /\ row[k].payload = PayloadOf[row[k].by]

\* A call is told something when it has ended, and only then.
ToldInv ==
  \A c \in Calls : pc[c] \in {"idle", "queued", "claiming", "running", "storing", "failing"}
                     => outcome[c] = Nothing

AnswerInv == ClaimInv /\ RowInv /\ ToldInv /\ AnswersFitTheRequest

\* Whatever leaves the table and the results alone and starts no operation
\* keeps the claims and the answers.
LEMMA AnswerFrame ==
  ASSUME AnswerInv, UNCHANGED <<row, outcome>>,
         \A c \in Calls : /\ Working(c)' => Working(c)
                          /\ pc'[c] \in {"idle", "queued", "claiming", "running", "storing", "failing"}
                             => pc[c] \in {"idle", "queued", "claiming", "running", "storing", "failing"}
  PROVE  AnswerInv'
BY DEF AnswerInv, ClaimInv, RowInv, ToldInv, AnswersFitTheRequest, Owns, Is

\* A call that ends leaves the work it did, and the others as they were.
LEMMA EndEffect ==
  ASSUME TypeOK, NEW c \in Calls, NEW result, End(c, result)
  PROVE  \A d \in Calls : /\ pc'[d] = IF d = c THEN "leaving" ELSE pc[d]
                          /\ outcome'[d] = IF d = c THEN result ELSE outcome[d]
                          /\ Working(d)' <=> (d # c /\ Working(d))
BY DEF End, TypeOK, Working

\* Claims, stores and withdrawals, lapses and crashes keep them.
LEMMA AnswersCorrect == Spec => []AnswerInv
<1> USE CallsAssumption
<1>1. Init => AnswerInv
  <2> SUFFICES ASSUME Init PROVE AnswerInv
    OBVIOUS
  <2>1. ClaimInv
    BY DEF Init, ClaimInv, Working
  <2>2. RowInv
    <3> SUFFICES ASSUME NEW k \in Keys, row[k] # NoRow
                 PROVE  KeyOf[row[k].by] = k /\ row[k].payload = PayloadOf[row[k].by]
      BY DEF RowInv
    <3>1. PICK c \in EarlierCalls : KeyOf[c] = k /\ row[k] = StoredRow(c)
      BY InitialRows
    <3> QED BY <3>1 DEF StoredRow
  <2>3. ToldInv /\ AnswersFitTheRequest
    BY DEF Init, ToldInv, AnswersFitTheRequest, Nothing, Answered
  <2> QED BY <2>1, <2>2, <2>3 DEF AnswerInv
<1>2. TypeOK /\ AnswerInv /\ [Next]_vars => AnswerInv'
  <2> SUFFICES ASSUME TypeOK, AnswerInv, [Next]_vars PROVE AnswerInv'
    OBVIOUS
  <2> USE DEF AnswerInv, dbVars, lockVars, vars
  <2>1. ASSUME NEW c \in Calls, LockStep(c) PROVE AnswerInv'
    BY <2>1, AnswerFrame DEF LockStep, Register, Acquire, ReleaseLock, Unregister,
       Working, TypeOK
  <2>2. ASSUME NEW c \in Calls, Claim(c) PROVE AnswerInv'
    <3>1. /\ pc[c] = "claiming"
          /\ \A d \in Calls : pc'[d] = IF d = c THEN "running" ELSE pc[d]
          /\ outcome' = outcome
      BY <2>2 DEF Claim, TypeOK
    <3>2. ClaimInv'
      <4> SUFFICES ASSUME NEW d \in Calls, Working(d)', d \notin SlowOperations
                   PROVE  Is(KeyOf[d], "inflight")' /\ row'[KeyOf[d]].by = d /\ row'[KeyOf[d]].running
        BY DEF ClaimInv, Owns
      <4>1. CASE d = c
        <5>1. row'[KeyOf[c]] = [state |-> "inflight", payload |-> PayloadOf[c],
                                by |-> c, running |-> TRUE]
          BY <2>2, ClaimEffect
        <5> QED BY <4>1, <5>1 DEF Is
      <4>2. CASE d # c
        <5>1. Owns(d) /\ row[KeyOf[d]].running
          BY <3>1, <4>2 DEF ClaimInv, Working
        <5>2. KeyOf[d] \notin Expired /\ row[KeyOf[d]] # NoRow /\ KeyOf[d] # KeyOf[c]
          BY <2>2, <5>1, ClaimEffect, RowKinds DEF Owns, Is, NoRow
        <5> QED BY <2>2, <5>1, <5>2, ClaimEffect DEF Owns, Is
      <4> QED BY <4>1, <4>2
    <3>3. RowInv'
      <4>1. row'[KeyOf[c]] = [state |-> "inflight", payload |-> PayloadOf[c],
                              by |-> c, running |-> TRUE]
        BY <2>2, ClaimEffect
      <4>2. \A k \in Keys \ {KeyOf[c]} : row'[k] = row[k] \/ row'[k] = NoRow
        BY <2>2, ClaimEffect
      <4> QED BY <4>1, <4>2 DEF RowInv
    <3>4. ToldInv' /\ AnswersFitTheRequest'
      BY <3>1 DEF ToldInv, AnswersFitTheRequest
    <3> QED BY <3>2, <3>3, <3>4
  <2>3. ASSUME NEW c \in Calls, Wait(c) \/ Replay(c) PROVE AnswerInv'
    <3>1. \A d \in Calls : Working(d)' => Working(d)
      BY <2>3, EndEffect DEF Wait, Replay, Working
    <3>2. ClaimInv'
      <4> SUFFICES ASSUME NEW d \in Calls, Working(d)', d \notin SlowOperations
                   PROVE  Is(KeyOf[d], "inflight")' /\ row'[KeyOf[d]].by = d /\ row'[KeyOf[d]].running
        BY DEF ClaimInv, Owns
      <4>1. Owns(d) /\ row[KeyOf[d]].running
        BY <3>1 DEF ClaimInv
      <4>2. KeyOf[d] \notin Expired
        BY <4>1, RowKinds
      <4> QED BY <2>3, <4>1, <4>2, LookEffect DEF Owns, Is
    <3>3. RowInv'
      BY <2>3, LookEffect DEF RowInv
    <3>4. CASE Wait(c)
      BY <3>2, <3>3, <3>4 DEF Wait, ToldInv, AnswersFitTheRequest
    <3>5. CASE Replay(c)
      <4>1. /\ row[KeyOf[c]] # NoRow
            /\ row[KeyOf[c]].payload = PayloadOf[c]
            /\ End(c, [kind |-> "replayed", by |-> row[KeyOf[c]].by])
        BY <3>5, RowKinds DEF Replay, Is, NoRow
      <4>2. KeyOf[row[KeyOf[c]].by] = KeyOf[c] /\ PayloadOf[row[KeyOf[c]].by] = PayloadOf[c]
        BY <4>1 DEF RowInv
      <4>3. ToldInv' /\ AnswersFitTheRequest'
        BY <4>1, <4>2, EndEffect DEF ToldInv, AnswersFitTheRequest
      <4> QED BY <3>2, <3>3, <4>3
    <3> QED BY <2>3, <3>4, <3>5
  <2>4. ASSUME NEW c \in Calls, Refuse(c) \/ ClaimLost(c) \/ DatabaseError(c) PROVE AnswerInv'
    <3>1. PICK result \in {[kind |-> "refused"], [kind |-> "failed"]} : End(c, result)
      BY <2>4 DEF Refuse, ClaimLost, DatabaseError
    <3>2. row' = row
      BY <2>4 DEF Refuse, ClaimLost, DatabaseError
    <3>3. ClaimInv' /\ RowInv'
      BY <3>1, <3>2, EndEffect DEF ClaimInv, RowInv, Owns, Is
    <3>4. ToldInv' /\ AnswersFitTheRequest'
      BY <3>1, EndEffect DEF ToldInv, AnswersFitTheRequest
    <3> QED BY <3>3, <3>4
  <2>5. ASSUME NEW c \in Calls, WorkStep(c) PROVE AnswerInv'
    BY <2>5, AnswerFrame DEF WorkStep, OperationReturns, OperationFails, Working, TypeOK
  <2>6. ASSUME NEW c \in Calls, Store(c) \/ Withdraw(c) PROVE AnswerInv'
    <3>1. PICK result \in {Answered(c), [kind |-> "failed"]} : End(c, result)
      BY <2>6 DEF Store, Withdraw
    <3>2. \A k \in Keys \ {KeyOf[c]} : row'[k] = row[k] \/ (Is(k, "completed") /\ row'[k] = NoRow)
      BY <2>6, StoreEffect, WithdrawEffect
    <3>3. \A d \in Calls : d # c /\ KeyOf[d] = KeyOf[c] /\ Owns(d) => row'[KeyOf[c]] = row[KeyOf[c]]
      BY <2>6, StoreEffect, WithdrawEffect DEF Owns
    <3>4. ClaimInv'
      <4> SUFFICES ASSUME NEW d \in Calls, Working(d)', d \notin SlowOperations
                   PROVE  Is(KeyOf[d], "inflight")' /\ row'[KeyOf[d]].by = d /\ row'[KeyOf[d]].running
        BY DEF ClaimInv, Owns
      <4>1. d # c /\ Owns(d) /\ row[KeyOf[d]].running
        BY <3>1, EndEffect DEF ClaimInv
      <4> QED BY <3>2, <3>3, <4>1 DEF Owns, Is
    <3>5. RowInv'
      <4>1. CASE Store(c)
        <5>1. Is(KeyOf[c], "inflight") /\ row[KeyOf[c]].by = c
          BY <4>1, StoreEffect
        <5>2. row[KeyOf[c]] # NoRow
          BY <5>1 DEF Is, NoRow
        <5>3. row[KeyOf[c]].payload = PayloadOf[c]
          BY <5>1, <5>2 DEF RowInv
        <5>4. \/ row'[KeyOf[c]] = NoRow
              \/ row'[KeyOf[c]] = [state |-> "completed", payload |-> PayloadOf[c],
                                   by |-> c, running |-> TRUE]
          BY <4>1, <5>3, StoreEffect
        <5> QED BY <3>2, <5>4 DEF RowInv
      <4>2. CASE Withdraw(c)
        BY <4>2, WithdrawEffect DEF RowInv
      <4> QED BY <2>6, <4>1, <4>2
    <3>6. ToldInv' /\ AnswersFitTheRequest'
      BY <3>1, EndEffect DEF ToldInv, AnswersFitTheRequest, Answered
    <3> QED BY <3>4, <3>5, <3>6
  <2>7. ASSUME NEW k \in Keys, LeaseLapses(k) \/ AnswerExpires(k) PROVE AnswerInv'
    <3>1. /\ row[k] \in Row /\ row[k] # NoRow
          /\ row' = [row EXCEPT ![k].running = FALSE]
          /\ pc' = pc /\ outcome' = outcome
      BY <2>7, RowKinds DEF LeaseLapses, AnswerExpires, Is, NoRow
    <3>2. /\ row'[k] = [row[k] EXCEPT !.running = FALSE]
          /\ \A j \in Keys \ {k} : row'[j] = row[j]
      BY <3>1 DEF TypeOK
    <3>3. row'[k].by = row[k].by /\ row'[k].payload = row[k].payload
      BY <3>1, <3>2 DEF Row
    <3>4. ClaimInv'
      <4> SUFFICES ASSUME NEW d \in Calls, Working(d), d \notin SlowOperations
                   PROVE  Is(KeyOf[d], "inflight")' /\ row'[KeyOf[d]].by = d /\ row'[KeyOf[d]].running
        BY <3>1 DEF ClaimInv, Owns, Working
      <4>1. Owns(d) /\ row[KeyOf[d]].running
        BY DEF ClaimInv
      <4>2. KeyOf[d] # k
        BY <2>7, <4>1 DEF LeaseLapses, AnswerExpires, Owns, Is
      <4> QED BY <3>2, <4>1, <4>2 DEF Owns, Is
    <3>5. RowInv'
      BY <3>1, <3>2, <3>3 DEF RowInv
    <3> QED BY <3>1, <3>4, <3>5 DEF ToldInv, AnswersFitTheRequest
  <2>8. ASSUME NEW p \in Processes, Crash(p) PROVE AnswerInv'
    <3>1. \A c \in Calls : pc'[c] = "dead" \/ pc'[c] = pc[c]
      BY <2>8 DEF Crash
    <3> QED BY <2>8, <3>1, AnswerFrame DEF Crash, Working
  <2>9. CASE UNCHANGED vars
    BY <2>9, AnswerFrame DEF Working
  <2> QED BY <2>1, <2>2, <2>3, <2>4, <2>5, <2>6, <2>7, <2>8, <2>9
          DEF Next, ClaimStep, StoreStep
<1> QED BY <1>1, <1>2, TypeCorrect, PTL DEF Spec

\* Two operations for one key run at the same time only if one of them has
\* outlasted its lease and its claim has been taken over or withdrawn.
THEOREM OperationsAlone == Spec => []OperationsRunAlone
<1>1. AnswerInv => OperationsRunAlone
  BY DEF AnswerInv, ClaimInv, OperationsRunAlone, Owns
<1> QED BY <1>1, AnswersCorrect, PTL

\* A repeat is only ever given what was computed for its own request.
THEOREM AnswersFit == Spec => []AnswersFitTheRequest
<1>1. AnswerInv => AnswersFitTheRequest
  BY DEF AnswerInv
<1> QED BY <1>1, AnswersCorrect, PTL

-----------------------------------------------------------------------------
(* The capacity of the cache.                                              *)

Full == {k \in Keys : Is(k, "completed")}

\* The triggers keep the counter equal to the number of completed rows.
LEMMA WriteCounts ==
  ASSUME TypeOK, completed = Cardinality(Full),
         NEW rows \in [Keys -> Row \cup {NoRow}], Write(rows)
  PROVE  /\ completed' = Cardinality(Full')
         /\ Full' = {k \in Keys : rows[k].state = "completed"}
<1> DEFINE More == {k \in Keys : ~Is(k, "completed") /\ rows[k].state = "completed"}
           Less == {k \in Keys : Is(k, "completed") /\ rows[k].state # "completed"}
<1>1. row' = rows /\ completed' = completed + Cardinality(More) - Cardinality(Less)
  BY DEF Write
<1>2. /\ IsFiniteSet(Full) /\ IsFiniteSet(More) /\ IsFiniteSet(Less)
      /\ Cardinality(Full) \in Nat /\ Cardinality(More) \in Nat /\ Cardinality(Less) \in Nat
  BY Countable DEF Full
<1>3. Full' = {k \in Keys : rows[k].state = "completed"}
  BY <1>1 DEF Full, Is
<1>4. Full' = (Full \cup More) \ Less
  BY <1>3 DEF Full
<1>5. Full \cap More = {} /\ (Full \cup More) \cap Less = Less
  BY DEF Full
<1> HIDE DEF More, Less
<1>6. IsFiniteSet(Full \cup More) /\ Cardinality(Full \cup More) = Cardinality(Full) + Cardinality(More)
  <2>1. Cardinality(Full \cap More) = 0
    BY <1>5, FS_EmptySet
  <2>2. /\ IsFiniteSet(Full \cup More)
        /\ Cardinality(Full \cup More)
             = Cardinality(Full) + Cardinality(More) - Cardinality(Full \cap More)
    BY <1>2, FS_Union
  <2> QED BY <1>2, <2>1, <2>2
<1>7. Cardinality((Full \cup More) \ Less) = Cardinality(Full \cup More) - Cardinality(Less)
  <2>1. Cardinality((Full \cup More) \ Less)
          = Cardinality(Full \cup More) - Cardinality((Full \cup More) \cap Less)
    BY <1>6, FS_Difference
  <2> QED BY <1>5, <2>1
<1>8. Cardinality(Full') = Cardinality(Full) + Cardinality(More) - Cardinality(Less)
  <2>1. Cardinality(Full') = Cardinality((Full \cup More) \ Less)
    BY <1>4
  <2> QED BY <1>2, <1>6, <1>7, <2>1
<1> QED BY <1>1, <1>3, <1>8

\* A write that completes no row leaves no more of them.
LEMMA WriteNoMore ==
  ASSUME TypeOK, CapacityIsKept,
         NEW rows \in [Keys -> Row \cup {NoRow}], Write(rows),
         \A k \in Keys : rows[k].state = "completed" => Is(k, "completed")
  PROVE  CapacityIsKept'
<1>1. completed = Cardinality(Full) /\ completed <= MaxEntries
  BY DEF CapacityIsKept, Full
<1>2. completed' = Cardinality(Full') /\ Full' \in SUBSET Full
  BY <1>1, WriteCounts DEF Full
<1>3. IsFiniteSet(Full) /\ Cardinality(Full) \in Nat
  BY Countable DEF Full
<1>4. Cardinality(Full') \in Nat /\ Cardinality(Full') <= Cardinality(Full)
  BY <1>2, <1>3, FS_Subset, FS_CardinalityType
<1> QED BY <1>1, <1>2, <1>3, <1>4, MaxEntriesAssumption DEF CapacityIsKept, Full

\* Evicting by the counter makes room for exactly the row that is completed.
LEMMA StoreKeepsCapacity ==
  ASSUME TypeOK, CapacityIsKept, NEW c \in Calls, Store(c)
  PROVE  CapacityIsKept'
<1> USE CallsAssumption, MaxEntriesAssumption
<1> DEFINE rows == [row EXCEPT ![KeyOf[c]].state = "completed",
                               ![KeyOf[c]].running = TRUE]
           after == {k \in Keys : rows[k].state = "completed"}
<1>1. KeyOf[c] \in Keys /\ row[KeyOf[c]] \in Row /\ ~Is(KeyOf[c], "completed")
  BY RowKinds DEF Store, Owns, Is
<1>2. rows \in [Keys -> Row \cup {NoRow}]
  BY <1>1 DEF TypeOK, Row
<1>3. PICK gone \in SUBSET Keys : Evicted(rows, gone) /\ Write(Without(rows, gone))
  BY DEF Store
<1>4. after = Full \cup {KeyOf[c]} /\ KeyOf[c] \notin Full
  <2>1. rows[KeyOf[c]].state = "completed" /\ \A k \in Keys \ {KeyOf[c]} : rows[k] = row[k]
    BY <1>1 DEF TypeOK, Row
  <2> HIDE DEF rows
  <2>2. \A k \in Keys : rows[k].state = "completed" <=> (Is(k, "completed") \/ k = KeyOf[c])
    BY <1>1, <2>1 DEF Is
  <2> QED BY <1>1, <2>2 DEF Full
<1>5. completed = Cardinality(Full) /\ completed <= MaxEntries
  BY DEF CapacityIsKept, Full
<1>6. IsFiniteSet(Full) /\ Cardinality(Full) \in Nat
  BY Countable DEF Full
<1>7. IsFiniteSet(after) /\ Cardinality(after) = completed + 1
  <2>1. /\ IsFiniteSet(Full \cup {KeyOf[c]})
        /\ Cardinality(Full \cup {KeyOf[c]}) = Cardinality(Full) + 1
    BY <1>4, <1>6, FS_AddElement
  <2> HIDE DEF after
  <2> QED BY <1>4, <1>5, <2>1
<1>8. gone \subseteq after /\ Cardinality(gone) =
        IF completed + 1 - MaxEntries <= 0 THEN 0
        ELSE IF completed + 1 - MaxEntries <= Cardinality(after) THEN completed + 1 - MaxEntries
        ELSE Cardinality(after)
  BY <1>3 DEF Evicted
<1>9. Without(rows, gone) \in [Keys -> Row \cup {NoRow}]
  BY <1>2, WithoutType
<1>10. completed' = Cardinality(Full') /\ Full' = after \ gone
  <2>1. completed' = Cardinality(Full') /\ Full' = {k \in Keys : Without(rows, gone)[k].state = "completed"}
    BY <1>3, <1>5, <1>9, WriteCounts
  <2> HIDE DEF rows
  <2>2. \A k \in Keys : Without(rows, gone)[k] = IF k \in gone THEN NoRow ELSE rows[k]
    BY DEF Without
  <2>3. \A k \in Keys : Without(rows, gone)[k].state = "completed" <=> k \in after \ gone
    BY <2>2 DEF NoRow
  <2> QED BY <2>1, <2>3
<1> HIDE DEF rows, after
<1>11. Cardinality(after \ gone) = Cardinality(after) - Cardinality(gone)
  <2>1. after \cap gone = gone
    BY <1>8
  <2> QED BY <1>7, <2>1, FS_Difference
<1>12. Cardinality(after \ gone) <= MaxEntries
  BY <1>5, <1>6, <1>7, <1>8, <1>11
<1> QED BY <1>10, <1>12 DEF CapacityIsKept, Full

\* The cache never exceeds max_entries, whatever is stored, expires, is
\* evicted or withdrawn, and whichever process restarts.
THEOREM CapacityKept == Spec => []CapacityIsKept
<1> USE CallsAssumption
<1>1. Init => CapacityIsKept
  <2> SUFFICES ASSUME Init PROVE CapacityIsKept
    OBVIOUS
  <2>1. PICK f \in [Full -> EarlierCalls] : \A k \in Full : KeyOf[f[k]] = k
    <3>1. \A k \in Full : \E c \in EarlierCalls : KeyOf[c] = k
      BY InitialRows DEF Full, Is, NoRow
    <3>2. [k \in Full |-> CHOOSE c \in EarlierCalls : KeyOf[c] = k] \in [Full -> EarlierCalls]
      BY <3>1
    <3> QED BY <3>1, <3>2
  <2>2. f \in Injection(Full, EarlierCalls)
    BY <2>1 DEF Injection, IsInjective
  <2>3. IsFiniteSet(EarlierCalls) /\ Cardinality(EarlierCalls) \in Nat
    BY Countable
  <2>4. Cardinality(Full) <= Cardinality(EarlierCalls)
    BY <2>2, <2>3, FS_Injection
  <2>5. completed = Cardinality(Full) /\ Cardinality(Full) \in Nat
    BY Countable DEF Init, Full
  <2> QED BY <2>3, <2>4, <2>5, MaxEntriesAssumption DEF CapacityIsKept, Full
<1>2. TypeOK /\ CapacityIsKept /\ [Next]_vars => CapacityIsKept'
  <2> SUFFICES ASSUME TypeOK, CapacityIsKept, [Next]_vars PROVE CapacityIsKept'
    OBVIOUS
  <2> USE DEF dbVars, lockVars, vars
  <2>1. CASE UNCHANGED dbVars
    BY <2>1 DEF CapacityIsKept, Is
  <2>2. ASSUME NEW c \in Calls, Claim(c) PROVE CapacityIsKept'
    <3>1. PICK gone \in SUBSET Expired :
            Write([Without(row, gone) EXCEPT ![KeyOf[c]] =
                     [state |-> "inflight", payload |-> PayloadOf[c],
                      by |-> c, running |-> TRUE]])
      BY <2>2 DEF Claim
    <3> DEFINE rows == [Without(row, gone) EXCEPT ![KeyOf[c]] =
                          [state |-> "inflight", payload |-> PayloadOf[c],
                           by |-> c, running |-> TRUE]]
    <3>2. rows \in [Keys -> Row \cup {NoRow}]
      BY WithoutType DEF TypeOK, Row
    <3>3. \A k \in Keys : rows[k].state = "completed" => Is(k, "completed")
      BY DEF Without, Is, NoRow
    <3> QED BY <3>1, <3>2, <3>3, WriteNoMore
  <2>3. ASSUME NEW gone \in SUBSET Keys, Write(Without(row, gone)) PROVE CapacityIsKept'
    <3>1. Without(row, gone) \in [Keys -> Row \cup {NoRow}]
      BY WithoutType DEF TypeOK
    <3>2. \A k \in Keys : Without(row, gone)[k].state = "completed" => Is(k, "completed")
      BY DEF Without, Is, NoRow
    <3> QED BY <2>3, <3>1, <3>2, WriteNoMore
  <2>4. ASSUME NEW c \in Calls, Wait(c) \/ Replay(c) \/ Withdraw(c) PROVE CapacityIsKept'
    BY <2>3, <2>4 DEF Wait, Replay, Withdraw, Expired
  <2>5. ASSUME NEW k \in Keys, LeaseLapses(k) \/ AnswerExpires(k) PROVE CapacityIsKept'
    <3>1. row[k] \in Row /\ row' = [row EXCEPT ![k].running = FALSE] /\ completed' = completed
      BY <2>5, RowKinds DEF LeaseLapses, AnswerExpires, Is
    <3>2. \A j \in Keys : Is(j, "completed")' <=> Is(j, "completed")
      BY <3>1 DEF TypeOK, Row, Is
    <3> QED BY <3>1, <3>2 DEF CapacityIsKept
  <2>6. ASSUME NEW p \in Processes, Crash(p) PROVE CapacityIsKept'
    BY <2>6 DEF Crash, CapacityIsKept, Is
  <2> QED
    BY <2>1, <2>2, <2>4, <2>5, <2>6, StoreKeepsCapacity
    DEF Next, LockStep, Register, Acquire, ReleaseLock, Unregister, ClaimStep, Refuse, WorkStep,
        OperationReturns, OperationFails, StoreStep, ClaimLost, DatabaseError
<1> QED BY <1>1, <1>2, TypeCorrect, PTL DEF Spec

-----------------------------------------------------------------------------
(* Every key implements the cell of AnswerOnce.                            *)

Bound(k) == IF row[k] = NoRow THEN NoPayload ELSE row[k].payload
Held(k) == IF Is(k, "completed") THEN row[k].by ELSE NoCall
Results(k) == [c \in {d \in Calls : KeyOf[d] = k} |-> outcome[c]]

CellStep(k) == Cell(k)!Next \/ UNCHANGED Cell(k)!vars

\* A step that changes neither binding, answer nor results of a key is none
\* of its cell.
LEMMA CellRests ==
  ASSUME NEW k \in Keys, Bound(k)' = Bound(k), Held(k)' = Held(k),
         \A c \in Calls : KeyOf[c] = k => outcome'[c] = outcome[c]
  PROVE  CellStep(k)
<1>1. Results(k)' = Results(k)
  BY DEF Results
<1> QED BY <1>1 DEF CellStep, Cell!vars, Bound, Held, Results

\* A step that leaves a row or deletes it is a stutter or Forget of its cell.
LEMMA CellForgets ==
  ASSUME NEW k \in Keys, row'[k] = row[k] \/ row'[k] = NoRow,
         \A c \in Calls : KeyOf[c] = k => outcome'[c] = outcome[c]
  PROVE  CellStep(k)
<1>1. CASE row'[k] = row[k]
  BY <1>1, CellRests DEF Bound, Held, Is
<1>2. CASE row'[k] = NoRow
  <2>1. Results(k)' = Results(k)
    BY DEF Results
  <2> QED BY <1>2, <2>1 DEF CellStep, Cell!Next, Cell!Forget, Results, Is, NoRow
<1> QED BY <1>1, <1>2

\* A call that ends tells its result to the cell of its key.
LEMMA CellTold ==
  ASSUME TypeOK, AnswerInv, NEW c \in Calls, NEW result, End(c, result),
         pc[c] \in {"claiming", "storing", "failing"}
  PROVE  /\ Cell(KeyOf[c])!Tell(c, result)
         /\ \A k \in Keys \ {KeyOf[c]} :
              \A d \in Calls : KeyOf[d] = k => outcome'[d] = outcome[d]
<1>1. outcome[c] = Nothing
  BY DEF AnswerInv, ToldInv
<1>2. Results(KeyOf[c])' = [Results(KeyOf[c]) EXCEPT ![c] = result]
  BY EndEffect DEF Results
<1> QED BY <1>1, <1>2, EndEffect DEF Cell!Tell, Cell!Untold, Nothing, Results

\* At the start a key is free or holds the answer of an earlier call.
LEMMA CellStarts ==
  ASSUME Init, NEW k \in Keys
  PROVE  Cell(k)!Init
<1> USE CallsAssumption
<1>1. CASE \E c \in EarlierCalls : KeyOf[c] = k
  <2>1. PICK a \in EarlierCalls : KeyOf[a] = k /\ row[k] = StoredRow(a)
    BY <1>1 DEF Init, Author
  <2>2. row[k] # NoRow /\ Is(k, "completed") /\ row[k].by = a /\ row[k].payload = PayloadOf[a]
    BY <2>1 DEF StoredRow, NoRow, Is
  <2>3. \A c \in Calls : KeyOf[c] = k => outcome[c] = IF c = a THEN Answered(a) ELSE Nothing
    BY <2>1 DEF Init
  <2>4. Results(k) = [d \in {d \in Calls : KeyOf[d] = k} |->
                        IF d = a THEN Answered(a) ELSE Nothing]
    BY <2>3 DEF Results
  <2>5. Bound(k) = PayloadOf[a] /\ Held(k) = a
    BY <2>2 DEF Bound, Held
  <2>6. a \in {d \in Calls : KeyOf[d] = k}
    BY <2>1
  <2>7. \E c \in {d \in Calls : KeyOf[d] = k} :
          /\ Bound(k) = PayloadOf[c] /\ Held(k) = c
          /\ Results(k) = [d \in {d \in Calls : KeyOf[d] = k} |->
                             IF d = c THEN Answered(c) ELSE Nothing]
    BY <2>4, <2>5, <2>6
  <2> QED BY <2>7 DEF Cell!Init, Cell!Told, Cell!Untold, Bound, Held, Results, Answered, Nothing
<1>2. CASE ~\E c \in EarlierCalls : KeyOf[c] = k
  <2>1. row[k] = NoRow /\ ~Is(k, "completed")
    BY <1>2 DEF Init, NoRow, Is
  <2>2. Results(k) = [d \in {d \in Calls : KeyOf[d] = k} |-> Nothing]
    BY <1>2 DEF Init, Results
  <2> QED BY <2>1, <2>2 DEF Cell!Init, Cell!Untold, Results, Nothing
<1> QED BY <1>1, <1>2

\* A claim binds the cell of its key, or takes over the same binding.
LEMMA ClaimBinds ==
  ASSUME TypeOK, NEW c \in Calls, Claim(c), NEW k \in Keys
  PROVE  CellStep(k)
<1> USE CallsAssumption, NoCallAssumption
<1>1. outcome' = outcome
  BY DEF Claim
<1>2. CASE k # KeyOf[c]
  BY <1>1, <1>2, ClaimEffect, CellForgets
<1>3. CASE k = KeyOf[c]
  <2>1. row'[k] = [state |-> "inflight", payload |-> PayloadOf[c], by |-> c, running |-> TRUE]
    BY <1>3, ClaimEffect
  <2>2. row'[k] # NoRow /\ Bound(k)' = PayloadOf[c] /\ Held(k)' = NoCall
    BY <2>1 DEF NoRow, Bound, Held, Is
  <2>3. CASE row[k] = NoRow \/ k \in Expired
    <3>1. Bound(k) = NoPayload \/ Held(k) # NoCall
      <4>1. CASE row[k] = NoRow
        BY <4>1 DEF Bound
      <4>2. CASE k \in Expired
        <5>1. Is(k, "completed")
          BY <4>2 DEF Expired
        <5>2. row[k] \in Row
          BY <5>1, RowKinds DEF Is
        <5> QED BY <5>1, <5>2 DEF Held, Row
      <4> QED BY <2>3, <4>1, <4>2
    <3>2. Results(k)' = Results(k)
      BY <1>1 DEF Results
    <3>3. Cell(k)!Bind(c)
      BY <2>2, <3>1, <3>2 DEF Cell!Bind, Bound, Held, Results
    <3> QED BY <1>3, <3>3 DEF CellStep, Cell!Next
  <2>4. CASE Is(k, "inflight") /\ row[k].payload = PayloadOf[c]
    <3>1. Bound(k) = PayloadOf[c] /\ Held(k) = NoCall
      BY <2>4 DEF Bound, Held, Is, NoRow
    <3> QED BY <1>1, <2>2, <3>1, CellRests
  <2> QED BY <1>3, <2>3, <2>4, ClaimEffect
<1> QED BY <1>2, <1>3

\* Waiting is invisible, and a replay is told the answer in the cell.
LEMMA LookRepeats ==
  ASSUME TypeOK, AnswerInv, NEW c \in Calls, Wait(c) \/ Replay(c), NEW k \in Keys
  PROVE  CellStep(k)
<1> USE CallsAssumption, NoCallAssumption
<1>1. CASE Wait(c)
  <2>1. outcome' = outcome
    BY <1>1 DEF Wait
  <2>2. row'[k] = row[k] \/ row'[k] = NoRow
    BY <1>1, LookEffect
  <2> QED BY <2>1, <2>2, CellForgets
<1>2. CASE Replay(c)
  <2>1. /\ pc[c] = "claiming" /\ Is(KeyOf[c], "completed")
        /\ row[KeyOf[c]].payload = PayloadOf[c]
        /\ End(c, [kind |-> "replayed", by |-> row[KeyOf[c]].by])
    BY <1>2 DEF Replay
  <2>2. CASE k # KeyOf[c]
    BY <1>2, <2>1, <2>2, LookEffect, CellTold, CellForgets
  <2>3. CASE k = KeyOf[c]
    <3>1. row[k] \in Row /\ row[k] # NoRow /\ row'[k] = row[k]
      BY <1>2, <2>1, <2>3, RowKinds, LookEffect DEF Is
    <3>2. Bound(k) = PayloadOf[c] /\ Held(k) = row[k].by /\ Held(k) # NoCall
      BY <2>1, <2>3, <3>1 DEF Bound, Held, Row
    <3>3. Bound(k)' = Bound(k) /\ Held(k)' = Held(k)
      BY <3>1 DEF Bound, Held, Is
    <3>4. PICK result : result = [kind |-> "replayed", by |-> Held(k)]
      OBVIOUS
    <3>5. End(c, result) /\ pc[c] = "claiming"
      BY <2>1, <2>3, <3>2, <3>4
    <3>6. Cell(k)!Tell(c, result)
      BY <2>3, <3>5, CellTold
    <3>7. Cell(k)!Repeat(c)
      BY <3>2, <3>3, <3>4, <3>6 DEF Cell!Repeat, Cell!Tell, Bound, Held
    <3> QED BY <2>3, <3>7 DEF CellStep, Cell!Next
  <2> QED BY <2>2, <2>3
<1> QED BY <1>1, <1>2

\* Storing an answer answers the cell.
LEMMA StoreAnswers ==
  ASSUME TypeOK, AnswerInv, NEW c \in Calls, Store(c), NEW k \in Keys
  PROVE  CellStep(k)
<1> USE CallsAssumption, NoCallAssumption
<1>1. pc[c] = "storing" /\ End(c, Answered(c))
  BY DEF Store
<1>2. CASE k # KeyOf[c]
  <2>1. row'[k] = row[k] \/ row'[k] = NoRow
    <3>1. \A j \in Keys \ {KeyOf[c]} : row'[j] = row[j] \/ (Is(j, "completed") /\ row'[j] = NoRow)
      BY StoreEffect
    <3> QED BY <1>2, <3>1
  <2>2. \A d \in Calls : KeyOf[d] = k => outcome'[d] = outcome[d]
    BY <1>1, <1>2, EndEffect
  <2> QED BY <2>1, <2>2, CellForgets
<1>3. CASE k = KeyOf[c]
  <2>1. Is(k, "inflight") /\ row[k].by = c /\ row[k] # NoRow
    <3>1. Is(k, "inflight") /\ row[k].by = c
      BY <1>3, StoreEffect
    <3> QED BY <3>1 DEF Is, NoRow
  <2>2. row[k].payload = PayloadOf[c]
    BY <1>3, <2>1 DEF AnswerInv, RowInv
  <2>3. Bound(k) = PayloadOf[c] /\ Held(k) = NoCall
    BY <2>1, <2>2 DEF Bound, Held, Is
  <2>4. \/ row'[k] = NoRow
        \/ row'[k] = [state |-> "completed", payload |-> PayloadOf[c], by |-> c, running |-> TRUE]
    BY <1>3, <2>2, StoreEffect
  <2>5. \/ Bound(k)' = Bound(k) /\ Held(k)' = c
        \/ Bound(k)' = NoPayload /\ Held(k)' = NoCall
    BY <2>3, <2>4 DEF Bound, Held, Is, NoRow
  <2>6. Cell(k)!Tell(c, Answered(c))
    BY <1>1, <1>3, CellTold
  <2>7. Cell(k)!Answer(c)
    BY <2>3, <2>5, <2>6 DEF Cell!Answer, Cell!Told, Answered, Bound, Held
  <2> QED BY <1>3, <2>7 DEF CellStep, Cell!Next
<1> QED BY <1>2, <1>3

\* A call that fails or is refused leaves the cell or frees it.
LEMMA FailureFrees ==
  ASSUME TypeOK, AnswerInv, NEW c \in Calls,
         Refuse(c) \/ ClaimLost(c) \/ DatabaseError(c) \/ Withdraw(c), NEW k \in Keys
  PROVE  CellStep(k)
<1> USE CallsAssumption, NoCallAssumption, NoPayloadAssumption
<1>1. PICK result \in {[kind |-> "refused"], [kind |-> "failed"]} :
        End(c, result) /\ pc[c] \in {"claiming", "storing", "failing"}
  BY DEF Refuse, ClaimLost, DatabaseError, Withdraw
<1>2. CASE k # KeyOf[c]
  <2>1. row'[k] = row[k]
    BY <1>2, WithdrawEffect DEF Refuse, ClaimLost, DatabaseError, dbVars
  <2> QED BY <1>1, <1>2, <2>1, CellTold, CellForgets
<1>3. CASE k = KeyOf[c] /\ Refuse(c)
  <2>1. /\ row[k].state # "absent" /\ row[k].payload # PayloadOf[c]
        /\ row' = row /\ End(c, [kind |-> "refused"]) /\ pc[c] = "claiming"
    BY <1>3 DEF Refuse, dbVars
  <2>2. row[k] # NoRow /\ row[k] \in Row
    BY <2>1, RowKinds
  <2>3. Bound(k) # NoPayload /\ Bound(k) # PayloadOf[c]
    BY <2>1, <2>2 DEF Bound, Row
  <2>4. Bound(k)' = Bound(k) /\ Held(k)' = Held(k)
    BY <2>1 DEF Bound, Held, Is
  <2>5. Cell(k)!Tell(c, [kind |-> "refused"])
    BY <1>3, <2>1, CellTold
  <2>6. Cell(k)!Refuse(c)
    BY <2>3, <2>4, <2>5 DEF Cell!Refuse, Bound, Held
  <2> QED BY <1>3, <2>6 DEF CellStep, Cell!Next
<1>4. CASE k = KeyOf[c] /\ (ClaimLost(c) \/ DatabaseError(c) \/ Withdraw(c))
  <2>1. End(c, [kind |-> "failed"]) /\ pc[c] \in {"claiming", "storing", "failing"}
    BY <1>4 DEF ClaimLost, DatabaseError, Withdraw
  <2>2. row'[k] = row[k] \/ (Owns(c) /\ row'[k] = NoRow)
    BY <1>4, WithdrawEffect DEF ClaimLost, DatabaseError, dbVars
  <2>3. \/ Bound(k)' = Bound(k) /\ Held(k)' = Held(k)
        \/ Held(k) = NoCall /\ Bound(k)' = NoPayload /\ Held(k)' = NoCall
    BY <1>4, <2>2 DEF Bound, Held, Is, Owns, NoRow
  <2>4. Cell(k)!Tell(c, [kind |-> "failed"])
    BY <1>4, <2>1, CellTold
  <2>5. Cell(k)!Fail(c)
    BY <2>3, <2>4 DEF Cell!Fail, Bound, Held
  <2> QED BY <1>4, <2>5 DEF CellStep, Cell!Next
<1> QED BY <1>2, <1>3, <1>4

\* The table implements one AnswerOnce per key: who is told an answer is told
\* the one that is stored for its request, and a key changes its request only
\* when it is free or its answer is forgotten.
THEOREM KeysImplementCells == Spec => KeysAreCells
<1>1. Init => \A k \in Keys : Cell(k)!Init
  BY CellStarts
<1>2. TypeOK /\ AnswerInv /\ [Next]_vars
        => [\A k \in Keys : Cell(k)!Next \/ UNCHANGED Cell(k)!vars]_vars
  <2> SUFFICES ASSUME TypeOK, AnswerInv, [Next]_vars, NEW k \in Keys PROVE CellStep(k)
    BY DEF CellStep
  <2> USE DEF dbVars, lockVars, vars
  <2>1. CASE UNCHANGED <<row, outcome>>
    BY <2>1, CellForgets
  <2>2. ASSUME NEW j \in Keys, LeaseLapses(j) \/ AnswerExpires(j) PROVE CellStep(k)
    <3>1. row[j] \in Row /\ row[j] # NoRow /\ row' = [row EXCEPT ![j].running = FALSE] /\ outcome' = outcome
      BY <2>2, RowKinds DEF LeaseLapses, AnswerExpires, Is, NoRow
    <3>2. CASE j # k
      BY <3>1, <3>2, CellForgets DEF TypeOK
    <3>3. CASE j = k
      <4>1. row'[k] = [row[k] EXCEPT !.running = FALSE]
        BY <3>1, <3>3 DEF TypeOK
      <4>2. /\ row'[k] # NoRow /\ row'[k].payload = row[k].payload
            /\ row'[k].by = row[k].by /\ row'[k].state = row[k].state
        BY <3>1, <3>3, <4>1 DEF Row, NoRow
      <4>3. Bound(k)' = Bound(k) /\ Held(k)' = Held(k)
        BY <3>1, <3>3, <4>2 DEF Bound, Held, Is
      <4> QED BY <3>1, <4>3, CellRests
    <3> QED BY <3>2, <3>3
  <2> QED
    BY <2>1, <2>2, ClaimBinds, LookRepeats, StoreAnswers, FailureFrees
    DEF Next, LockStep, Register, Acquire, ReleaseLock, Unregister, ClaimStep, WorkStep,
        OperationReturns, OperationFails, StoreStep, Crash
<1> QED BY <1>1, <1>2, TypeCorrect, AnswersCorrect, PTL DEF Spec, KeysAreCells

=============================================================================
