---------------------------- MODULE PluginProofs ----------------------------
(***************************************************************************)
(* Proofs about PluginSnapshots.  Three invariants carry them: who is      *)
(* about to close what (nobody else, once), what the counts by generation  *)
(* say of the leases that are out, and, while the service runs, that       *)
(* generations number the snapshots and every lease is on the active or a  *)
(* retired one.  They make the manager an implementation of SnapshotPool.  *)
(***************************************************************************)
EXTENDS PluginSnapshots, FiniteSetTheorems, TLAPS

\* Generations never run ahead of the snapshots that were installed.
OrderInv ==
  /\ active <= installed
  /\ \A s \in Snapshots : s <= installed => generation[s] \in 1..s
  /\ \A t \in Reloaders : job[t].phase = "building" => job[t].next <= installed + 1
  /\ \A r \in Requests : leased[r] <= installed
  /\ \A g \in Generations : /\ retired[g] <= installed
                            /\ retired[g] # None => generation[retired[g]] = g
  /\ \A t \in Threads : \A s \in doomed[t] : s <= installed

\* Snapshots and generations are positive numbers, so None is neither.
LEMMA Numbers ==
  /\ Snapshots \subseteq Nat /\ Generations \subseteq Nat
  /\ None = 0 /\ None \notin Snapshots /\ None \notin Generations
  /\ \A s \in Snapshots : s >= 1
BY DEF Snapshots, Generations, None

\* The fields of a job follow from its phase.
LEMMA JobKinds ==
  ASSUME TypeOK, NEW t \in Reloaders
  PROVE  /\ job[t] = Idle \/ job[t].phase \in {"building", "swapped"}
         /\ job[t].phase = "building" => job[t].next \in Generations
BY DEF TypeOK, Jobs, Idle

\* A snapshot that was installed has a generation.
LEMMA Generated ==
  ASSUME TypeOK, OrderInv, NEW s \in Snapshots, s <= installed
  PROVE  generation[s] \in Generations /\ generation[s] <= s
<1>1. generation[s] \in 1..s /\ generation[s] \in Generations \cup {None}
  BY DEF OrderInv, TypeOK
<1> QED BY <1>1, Numbers

\* The manager keeps its types; no count of leases falls below zero.
THEOREM TypeCorrect == Spec => [](TypeOK /\ OrderInv)
<1> USE ThreadsAssumption, Numbers
<1>1. Init => TypeOK /\ OrderInv
  <2> SUFFICES ASSUME Init PROVE TypeOK /\ OrderInv
    OBVIOUS
  <2>1. 1 \in Snapshots /\ 1 \in Generations
    BY MaxSnapshotsAssumption DEF Snapshots, Generations
  <2>2. TypeOK
    BY <2>1 DEF Init, TypeOK, Jobs, Idle
  <2>3. OrderInv
    BY <2>1 DEF Init, OrderInv, Idle
  <2> QED BY <2>2, <2>3
<1>2. TypeOK /\ OrderInv /\ [Next]_vars => TypeOK' /\ OrderInv'
  <2> SUFFICES ASSUME TypeOK, OrderInv, [Next]_vars PROVE TypeOK' /\ OrderInv'
    OBVIOUS
  <2> USE DEF tables, vars
  <2>1. ASSUME NEW r \in Requests, Lease(r) PROVE TypeOK' /\ OrderInv'
    BY <2>1 DEF Lease, TypeOK, OrderInv
  <2>2. ASSUME NEW r \in Requests, Leave(r) PROVE TypeOK' /\ OrderInv'
    <3> DEFINE g == generation[leased[r]]
    <3>1. leased[r] \in Snapshots /\ leased[r] <= installed /\ g \in Generations
      <4>1. leased[r] \in Snapshots /\ leased[r] <= installed
        BY <2>2 DEF Leave, TypeOK, OrderInv
      <4> QED BY <4>1, Generated
    <3>2. CASE inflight[g] <= 1
      <4>1. LastLease(r, g)
        BY <2>2, <3>2 DEF Leave
      <4>2. r \in Threads
        BY DEF Threads
      <4> HIDE DEF g
      <4>3. TypeOK'
        BY <2>2, <3>1, <4>1, <4>2 DEF Leave, LastLease, TypeOK
      <4>4. OrderInv'
        BY <2>2, <3>1, <4>1, <4>2 DEF Leave, LastLease, TypeOK, OrderInv
      <4> QED BY <4>3, <4>4
    <3>3. CASE ~(inflight[g] <= 1)
      <4>1. inflight' = [inflight EXCEPT ![g] = @ - 1] /\ UNCHANGED <<retired, doomed>>
        BY <2>2, <3>3 DEF Leave
      <4> HIDE DEF g
      <4> QED BY <2>2, <3>1, <3>3, <4>1 DEF Leave, TypeOK, OrderInv
    <3> QED BY <3>2, <3>3
  <2>3. ASSUME NEW t \in Threads, CloseDoomed(t) PROVE TypeOK' /\ OrderInv'
    BY <2>3 DEF CloseDoomed, TypeOK, OrderInv
  <2>4. ASSUME NEW t \in Reloaders, BeginReload(t) PROVE TypeOK' /\ OrderInv'
    <3> DEFINE n == IF active = None THEN 1 ELSE generation[active] + 1
    <3>1. n \in Generations /\ n <= installed + 1
      <4>1. installed \in Snapshots /\ installed + 1 \in Generations
        BY <2>4, MaxSnapshotsAssumption DEF BeginReload, TypeOK, Snapshots, Generations
      <4>2. CASE active = None
        BY <4>1, <4>2, MaxSnapshotsAssumption DEF Generations, Snapshots
      <4>3. CASE active # None
        <5>1. active \in Snapshots /\ active <= installed
          BY <4>3 DEF TypeOK, OrderInv
        <5>2. generation[active] \in Generations /\ generation[active] <= active
          BY <5>1, Generated
        <5>3. n = generation[active] + 1
          BY <4>3
        <5>4. n <= installed + 1 /\ n >= 1
          <6>1. PICK i \in Nat, j \in Nat, k \in Nat :
                  i = installed /\ j = active /\ k = generation[active] /\ k <= j /\ j <= i
            BY <4>1, <5>1, <5>2
          <6> QED BY <5>3, <6>1
        <5> QED BY <4>1, <5>2, <5>3, <5>4, MaxSnapshotsAssumption DEF Generations, Snapshots
      <4> QED BY <4>2, <4>3
    <3>2. job' = [job EXCEPT ![t] = [phase |-> "building", next |-> n]]
      BY <2>4 DEF BeginReload
    <3> HIDE DEF n
    <3>3. TypeOK'
      BY <2>4, <3>1, <3>2 DEF BeginReload, TypeOK, Jobs
    <3>4. OrderInv'
      BY <2>4, <3>1, <3>2 DEF BeginReload, OrderInv, TypeOK
    <3> QED BY <3>3, <3>4
  <2>5. ASSUME NEW t \in Reloaders, BuildFails(t) \/ EndReload(t) PROVE TypeOK' /\ OrderInv'
    <3>1. TypeOK'
      BY <2>5 DEF BuildFails, EndReload, TypeOK, Jobs
    <3>2. \A u \in Reloaders : job'[u].phase = "building" => job'[u] = job[u]
      BY <2>5 DEF BuildFails, EndReload, TypeOK, Idle
    <3>3. OrderInv'
      BY <2>5, <3>2 DEF BuildFails, EndReload, OrderInv
    <3> QED BY <3>1, <3>3
  <2>6. ASSUME NEW t \in Reloaders, Swap(t) PROVE TypeOK' /\ OrderInv'
    <3>1. /\ job[t].next \in Generations /\ job[t].next <= installed + 1
          /\ installed + 1 \in Snapshots /\ active' = installed + 1 /\ installed' = installed + 1
          /\ generation' = [generation EXCEPT ![installed + 1] = job[t].next]
          /\ job' = [job EXCEPT ![t] = [phase |-> "swapped"]]
          /\ UNCHANGED <<inflight, leased, closed, shut>>
      BY <2>6, JobKinds DEF Swap, OrderInv
    <3>2. t \in Threads
      BY DEF Threads
    <3>3. active # None => active \in Snapshots /\ active <= installed /\ generation[active] \in Generations
      BY DEF TypeOK, OrderInv
    <3>4. \/ /\ active # None
             /\ retired' = [retired EXCEPT ![generation[active]] = active]
             /\ doomed' = doomed
          \/ /\ doomed' = [doomed EXCEPT ![t] = {active} \ {None}]
             /\ retired' = retired
      BY <2>6 DEF Swap
    <3>5. TypeOK'
      BY <3>1, <3>2, <3>3, <3>4 DEF TypeOK, Jobs
    <3>6. installed \in Nat
      BY DEF TypeOK
    <3>7. \A s \in Snapshots : s <= installed' => generation'[s] \in 1..s
      <4> SUFFICES ASSUME NEW s \in Snapshots, s <= installed + 1 PROVE generation'[s] \in 1..s
        BY <3>1
      <4>1. CASE s = installed + 1
        BY <3>1, <4>1 DEF TypeOK, Generations
      <4>2. CASE s # installed + 1
        <5>1. s <= installed
          BY <3>6, <4>2
        <5> QED BY <3>1, <4>2, <5>1 DEF TypeOK, OrderInv
      <4> QED BY <4>1, <4>2
    <3>8. \A s \in Snapshots \cup {None} : s <= installed => s <= installed' /\ generation'[s] = generation[s]
      BY <3>1, <3>6 DEF TypeOK
    <3>9. \A g \in Generations : /\ retired'[g] <= installed'
                                 /\ retired'[g] # None => generation'[retired'[g]] = g
      <4> SUFFICES ASSUME NEW g \in Generations
                   PROVE  retired'[g] <= installed' /\ (retired'[g] # None => generation'[retired'[g]] = g)
        OBVIOUS
      <4>1. CASE retired'[g] = retired[g]
        BY <3>8, <4>1 DEF TypeOK, OrderInv
      <4>2. CASE active # None /\ g = generation[active] /\ retired'[g] = active
        BY <3>3, <3>8, <4>2
      <4> QED BY <3>3, <3>4, <4>1, <4>2 DEF TypeOK
    <3>10. \A u \in Threads : \A s \in doomed'[u] : s <= installed'
      <4> SUFFICES ASSUME NEW u \in Threads, NEW s \in doomed'[u] PROVE s <= installed'
        OBVIOUS
      <4>1. s \in doomed[u] \/ (s = active /\ active # None)
        BY <3>4 DEF TypeOK
      <4>2. s \in Snapshots /\ s <= installed
        BY <3>3, <4>1 DEF TypeOK, OrderInv
      <4> QED BY <3>8, <4>2
    <3>11. \A u \in Reloaders : job'[u].phase = "building" => job'[u].next <= installed' + 1
      <4> SUFFICES ASSUME NEW u \in Reloaders, job'[u].phase = "building"
                   PROVE  job'[u].next <= installed' + 1
        OBVIOUS
      <4>1. job'[u] = job[u]
        BY <3>1 DEF TypeOK
      <4>2. PICK n \in Nat : n = job[u].next /\ n <= installed + 1
        BY <4>1, JobKinds DEF OrderInv
      <4>3. n <= (installed + 1) + 1
        BY <3>6, <4>2
      <4> QED BY <3>1, <4>1, <4>2, <4>3
    <3>12. active' <= installed' /\ \A r \in Requests : leased'[r] <= installed'
      <4>1. \A r \in Requests : leased'[r] = leased[r] /\ leased[r] \in Snapshots \cup {None} /\ leased[r] <= installed
        BY <3>1 DEF TypeOK, OrderInv
      <4>2. \A r \in Requests : leased'[r] <= installed'
        BY <3>8, <4>1
      <4> QED BY <3>1, <3>6, <4>2
    <3>13. OrderInv'
      BY <3>7, <3>9, <3>10, <3>11, <3>12 DEF OrderInv
    <3> QED BY <3>5, <3>13
  <2>7. CASE Shutdown
    <3>1. TypeOK'
      BY <2>7 DEF Shutdown, TypeOK, RetiredSnapshots, Threads
    <3>2. OrderInv'
      BY <2>7 DEF Shutdown, TypeOK, OrderInv, RetiredSnapshots, Threads
    <3> QED BY <3>1, <3>2
  <2>8. CASE UNCHANGED vars
    BY <2>8 DEF TypeOK, OrderInv
  <2> QED BY <2>1, <2>2, <2>3, <2>4, <2>5, <2>6, <2>7, <2>8 DEF Next
<1> QED BY <1>1, <1>2, PTL DEF Spec

-----------------------------------------------------------------------------
(* Who closes what.                                                        *)

\* The snapshot is in use or waits for its last lease.
Kept(s) == s = active \/ \E g \in Generations : retired[g] = s

\* A snapshot is kept by the manager, or about to be closed by one thread, or
\* has been closed once, and never two of these.
OwnInv ==
  /\ \A g \in Generations : retired[g] # None => retired[g] # active
  /\ \A t \in Threads : \A s \in doomed[t] :
       /\ ~Kept(s)
       /\ closed[s] = 0
       /\ \A u \in Threads : u # t => s \notin doomed[u]
  /\ \A s \in Snapshots : /\ closed[s] <= 1
                          /\ Kept(s) \/ s > installed => closed[s] = 0

\* Whatever the manager and the closing threads do not see keeps OwnInv.
LEMMA OwnFrame ==
  ASSUME OwnInv, UNCHANGED <<active, installed, retired, doomed, closed>>
  PROVE  OwnInv'
BY DEF OwnInv, Kept

\* The last lease hands the retired snapshot to its thread.
LEMMA LeaveOwns ==
  ASSUME TypeOK, OrderInv, OwnInv, NEW r \in Requests, Leave(r)
  PROVE  OwnInv'
<1> USE ThreadsAssumption, Numbers
<1> DEFINE g == generation[leased[r]]
<1>1. g \in Generations
  BY Generated DEF Leave, TypeOK, OrderInv
<1>2. UNCHANGED <<active, installed, closed>> /\ r \in Threads
  BY DEF Leave, Threads
<1>3. CASE inflight[g] <= 1
  <2>1. /\ retired' = [retired EXCEPT ![g] = None]
        /\ doomed' = [doomed EXCEPT ![r] = {retired[g]} \ {None}]
    BY <1>3 DEF Leave, LastLease
  <2> HIDE DEF g
  <2>2. \A j \in Generations : retired'[j] = IF j = g THEN None ELSE retired[j]
    BY <1>1, <2>1 DEF TypeOK
  <2>3. \A t \in Threads : doomed'[t] = IF t = r THEN {retired[g]} \ {None} ELSE doomed[t]
    BY <1>2, <2>1 DEF TypeOK
  <2>4. \A s \in Snapshots : Kept(s)' => Kept(s)
    BY <1>2, <2>2 DEF Kept
  <2>5. \A s \in Snapshots : s = retired[g] =>
          ~Kept(s)' /\ closed[s] = 0 /\ \A u \in Threads : s \notin doomed[u]
    <3> SUFFICES ASSUME NEW s \in Snapshots, s = retired[g]
                 PROVE  ~Kept(s)' /\ closed[s] = 0 /\ \A u \in Threads : s \notin doomed[u]
      OBVIOUS
    <3>1. Kept(s) /\ s # None /\ s # active
      BY <1>1 DEF Kept, OwnInv
    <3>2. \A j \in Generations : retired[j] = s => j = g
      BY <1>1, <3>1 DEF OrderInv
    <3>3. ~Kept(s)'
      BY <1>2, <2>2, <3>1, <3>2 DEF Kept
    <3> QED BY <3>1, <3>3 DEF OwnInv
  <2>6. \A t \in Threads : \A s \in doomed'[t] :
          ~Kept(s)' /\ closed[s] = 0 /\ \A u \in Threads : u # t => s \notin doomed'[u]
    <3> SUFFICES ASSUME NEW t \in Threads, NEW s \in doomed'[t]
                 PROVE  ~Kept(s)' /\ closed[s] = 0 /\ \A u \in Threads : u # t => s \notin doomed'[u]
      OBVIOUS
    <3>1. CASE t = r
      <4>1. s = retired[g] /\ s \in Snapshots
        BY <1>1, <2>3, <3>1 DEF TypeOK
      <4> QED BY <2>3, <2>5, <3>1, <4>1
    <3>2. CASE t # r
      <4>1. s \in doomed[t] /\ s \in Snapshots
        BY <2>3, <3>2 DEF TypeOK
      <4>2. ~Kept(s)' /\ closed[s] = 0 /\ \A u \in Threads : u # t => s \notin doomed[u]
        BY <2>4, <4>1 DEF OwnInv
      <4>3. s # retired[g]
        BY <1>1, <4>1 DEF OwnInv, Kept
      <4> QED BY <2>3, <4>2, <4>3
    <3> QED BY <3>1, <3>2
  <2> QED BY <1>2, <2>2, <2>4, <2>6 DEF OwnInv
<1>4. CASE ~(inflight[g] <= 1)
  BY <1>2, <1>4, OwnFrame DEF Leave
<1> QED BY <1>3, <1>4

\* A swap retires the previous snapshot or hands it to the reloader.
LEMMA SwapOwns ==
  ASSUME TypeOK, OrderInv, OwnInv, NEW t \in Reloaders, Swap(t), doomed[t] = {}
  PROVE  OwnInv'
<1> USE ThreadsAssumption, Numbers
<1>1. /\ installed + 1 \in Snapshots /\ active' = installed + 1 /\ installed' = installed + 1
      /\ closed' = closed /\ t \in Threads /\ installed \in Nat
  BY DEF Swap, Threads, TypeOK
<1>2. /\ active <= installed
      /\ \A g \in Generations : retired[g] <= installed
      /\ \A u \in Threads : \A s \in doomed[u] : s <= installed
  BY DEF OrderInv
<1>3. active # None => active \in Snapshots /\ generation[active] \in Generations
  BY Generated DEF TypeOK, OrderInv
<1>4. \A s \in Snapshots \cup {None} : s <= installed => s # installed + 1
  BY <1>1
<1>5. \A s \in Snapshots : s > installed' => s > installed /\ s # active'
  BY <1>1
<1>6. closed[installed + 1] = 0
  BY <1>1 DEF OwnInv
<1>7. \A g \in Generations : retired[g] \in Snapshots \cup {None}
  BY DEF TypeOK
<1>8. CASE active # None /\ InUse(active)
  <2>1. /\ retired' = [retired EXCEPT ![generation[active]] = active]
        /\ doomed' = doomed
    BY <1>8 DEF Swap
  <2>2. \A g \in Generations : retired'[g] = IF g = generation[active] THEN active ELSE retired[g]
    BY <1>3, <1>8, <2>1 DEF TypeOK
  <2>3. \A s \in Snapshots : Kept(s)' => Kept(s) \/ s = installed + 1
    BY <1>1, <2>2 DEF Kept
  <2>4. \A g \in Generations : retired'[g] # active'
    BY <1>1, <1>2, <1>3, <1>4, <1>7, <1>8, <2>2
  <2>5. \A u \in Threads : \A s \in doomed[u] : s \in Snapshots /\ s # installed + 1
    BY <1>2, <1>4 DEF TypeOK
  <2>6. \A u \in Threads : \A s \in doomed'[u] :
          ~Kept(s)' /\ closed'[s] = 0 /\ \A v \in Threads : v # u => s \notin doomed'[v]
    BY <1>1, <2>1, <2>3, <2>5 DEF OwnInv
  <2>7. \A s \in Snapshots : closed'[s] <= 1 /\ (Kept(s)' \/ s > installed' => closed'[s] = 0)
    BY <1>1, <1>5, <1>6, <2>3 DEF OwnInv
  <2> QED BY <2>4, <2>6, <2>7 DEF OwnInv
<1>9. CASE ~(active # None /\ InUse(active))
  <2>1. doomed' = [doomed EXCEPT ![t] = {active} \ {None}] /\ retired' = retired
    BY <1>9 DEF Swap
  <2>2. \A u \in Threads : doomed'[u] = IF u = t THEN {active} \ {None} ELSE doomed[u]
    BY <1>1, <2>1 DEF TypeOK
  <2>3. \A s \in Snapshots : Kept(s)' => (Kept(s) /\ s # active) \/ s = installed + 1
    BY <1>1, <2>1 DEF Kept, OwnInv
  <2>4. \A g \in Generations : retired'[g] # None => retired'[g] # active'
    BY <1>1, <1>2, <1>4, <1>7, <2>1
  <2>5. \A u \in Threads : \A s \in doomed[u] : s \in Snapshots /\ s # installed + 1
    BY <1>2, <1>4 DEF TypeOK
  <2>6. active # None => /\ active # installed + 1 /\ closed[active] = 0
                         /\ \A u \in Threads : active \notin doomed[u]
    BY <1>2, <1>3, <1>4 DEF OwnInv, Kept
  <2>7. \A u \in Threads : \A s \in doomed'[u] :
          ~Kept(s)' /\ closed'[s] = 0 /\ \A v \in Threads : v # u => s \notin doomed'[v]
    <3> SUFFICES ASSUME NEW u \in Threads, NEW s \in doomed'[u]
                 PROVE  ~Kept(s)' /\ closed'[s] = 0 /\ \A v \in Threads : v # u => s \notin doomed'[v]
      OBVIOUS
    <3>1. CASE u = t
      <4>1. s = active /\ active # None
        BY <2>2, <3>1
      <4>2. s \in Snapshots /\ s # installed + 1 /\ closed[s] = 0
        BY <1>3, <2>6, <4>1
      <4>3. \A v \in Threads : v # u => s \notin doomed'[v]
        BY <2>2, <2>6, <3>1, <4>1
      <4> QED BY <1>1, <2>3, <4>1, <4>2, <4>3
    <3>2. CASE u # t
      <4>1. s \in doomed[u] /\ s \in Snapshots /\ s # installed + 1
        BY <2>2, <2>5, <3>2
      <4>2. s # active
        BY <1>3, <2>6, <4>1, <1>1
      <4> QED BY <1>1, <2>2, <2>3, <4>1, <4>2 DEF OwnInv
    <3> QED BY <3>1, <3>2
  <2>8. \A s \in Snapshots : closed'[s] <= 1 /\ (Kept(s)' \/ s > installed' => closed'[s] = 0)
    BY <1>1, <1>5, <1>6, <2>3 DEF OwnInv
  <2> QED BY <2>4, <2>7, <2>8 DEF OwnInv
<1> QED BY <1>8, <1>9

\* Closing the service takes every kept snapshot over.
LEMMA ShutdownOwns ==
  ASSUME TypeOK, OwnInv, Shutdown
  PROVE  OwnInv'
<1> USE ThreadsAssumption, Numbers
<1>1. /\ active' = None /\ UNCHANGED <<installed, closed>>
      /\ \A g \in Generations : retired'[g] = None
      /\ \A t \in Threads : doomed'[t] = IF t = Closer THEN (RetiredSnapshots \cup {active}) \ {None}
                                         ELSE doomed[t]
  BY DEF Shutdown, TypeOK
<1>2. \A s \in Snapshots : ~Kept(s)'
  BY <1>1 DEF Kept
<1>3. \A s \in (RetiredSnapshots \cup {active}) \ {None} :
        s \in Snapshots /\ closed[s] = 0 /\ \A u \in Threads : s \notin doomed[u]
  <2> SUFFICES ASSUME NEW s \in (RetiredSnapshots \cup {active}) \ {None}
               PROVE  s \in Snapshots /\ closed[s] = 0 /\ \A u \in Threads : s \notin doomed[u]
    OBVIOUS
  <2>1. Kept(s) /\ s \in Snapshots
    BY DEF Kept, RetiredSnapshots, TypeOK
  <2> QED BY <2>1 DEF OwnInv
<1>4. \A t \in Threads : \A s \in doomed'[t] :
        ~Kept(s)' /\ closed'[s] = 0 /\ \A u \in Threads : u # t => s \notin doomed'[u]
  <2> SUFFICES ASSUME NEW t \in Threads, NEW s \in doomed'[t]
               PROVE  ~Kept(s)' /\ closed'[s] = 0 /\ \A u \in Threads : u # t => s \notin doomed'[u]
    OBVIOUS
  <2>1. CASE t = Closer
    BY <1>1, <1>2, <1>3, <2>1
  <2>2. CASE t # Closer
    <3>1. s \in doomed[t] /\ s \in Snapshots
      BY <1>1, <2>2 DEF TypeOK
    <3> QED BY <1>1, <1>2, <1>3, <2>2, <3>1 DEF OwnInv
  <2> QED BY <2>1, <2>2
<1> QED BY <1>1, <1>2, <1>4 DEF OwnInv

\* A reloader that does not swap has nothing to close.
JobInv == \A t \in Reloaders : doomed[t] # {} => job[t].phase = "swapped"

\* Every snapshot has one owner at a time.
LEMMA OwnersCorrect == Spec => [](OwnInv /\ JobInv)
<1> USE ThreadsAssumption, Numbers
<1>1. Init => OwnInv /\ JobInv
  BY DEF Init, OwnInv, Kept, JobInv, Threads
<1>2. TypeOK /\ OrderInv /\ OwnInv /\ JobInv /\ [Next]_vars => OwnInv' /\ JobInv'
  <2> SUFFICES ASSUME TypeOK, OrderInv, OwnInv, JobInv, [Next]_vars PROVE OwnInv' /\ JobInv'
    OBVIOUS
  <2> USE DEF tables, vars
  <2>1. ASSUME NEW r \in Requests, Lease(r) PROVE OwnInv' /\ JobInv'
    BY <2>1, OwnFrame DEF Lease, JobInv
  <2>2. ASSUME NEW r \in Requests, Leave(r) PROVE OwnInv' /\ JobInv'
    <3>1. job' = job /\ \A u \in Reloaders : doomed'[u] = doomed[u]
      BY <2>2 DEF Leave, LastLease, TypeOK, Threads
    <3>2. JobInv'
      BY <3>1 DEF JobInv
    <3> QED BY <2>2, <3>2, LeaveOwns
  <2>3. ASSUME NEW t \in Threads, CloseDoomed(t) PROVE OwnInv' /\ JobInv'
    <3>1. PICK s \in doomed[t] : /\ closed' = [closed EXCEPT ![s] = @ + 1]
                                 /\ doomed' = [doomed EXCEPT ![t] = @ \ {s}]
      BY <2>3 DEF CloseDoomed
    <3>2. UNCHANGED <<active, installed, retired, job>>
      BY <2>3 DEF CloseDoomed
    <3>3. s \in Snapshots /\ closed[s] = 0 /\ ~Kept(s) /\ s <= installed
      BY <3>1 DEF OwnInv, TypeOK, OrderInv
    <3>4. \A u \in Snapshots : closed'[u] = IF u = s THEN 1 ELSE closed[u]
      BY <3>1, <3>3 DEF TypeOK
    <3>5. \A u \in Threads : doomed'[u] = IF u = t THEN doomed[t] \ {s} ELSE doomed[u]
      BY <3>1 DEF TypeOK
    <3>6. \A u : Kept(u)' <=> Kept(u)
      BY <3>2 DEF Kept
    <3>7. ~(s > installed)
      BY <3>3 DEF TypeOK
    <3>8. \A u \in Threads : \A v \in doomed'[u] :
            ~Kept(v)' /\ closed'[v] = 0 /\ \A w \in Threads : w # u => v \notin doomed'[w]
      <4> SUFFICES ASSUME NEW u \in Threads, NEW v \in doomed'[u]
                   PROVE  ~Kept(v)' /\ closed'[v] = 0 /\ \A w \in Threads : w # u => v \notin doomed'[w]
        OBVIOUS
      <4>1. v \in doomed[u] /\ v \in Snapshots /\ v # s
        BY <3>1, <3>5 DEF TypeOK, OwnInv
      <4> QED BY <3>4, <3>5, <3>6, <4>1 DEF OwnInv
    <3>9. \A u \in Snapshots : closed'[u] <= 1 /\ (Kept(u)' \/ u > installed' => closed'[u] = 0)
      <4> SUFFICES ASSUME NEW u \in Snapshots
                   PROVE  closed'[u] <= 1 /\ (Kept(u)' \/ u > installed' => closed'[u] = 0)
        OBVIOUS
      <4>1. CASE u = s
        BY <3>2, <3>3, <3>4, <3>6, <3>7, <4>1
      <4>2. CASE u # s
        BY <3>2, <3>4, <3>6, <4>2 DEF OwnInv
      <4> QED BY <4>1, <4>2
    <3>10. OwnInv'
      BY <3>2, <3>8, <3>9 DEF OwnInv
    <3>11. JobInv'
      BY <3>2, <3>5 DEF JobInv, Threads
    <3> QED BY <3>10, <3>11
  <2>4. ASSUME NEW t \in Reloaders, BeginReload(t) \/ BuildFails(t) \/ EndReload(t)
        PROVE  OwnInv' /\ JobInv'
    <3>1. \A u \in Reloaders : job'[u] = job[u] \/ doomed[u] = {}
      BY <2>4 DEF BeginReload, BuildFails, EndReload, TypeOK, JobInv, Idle
    <3>2. UNCHANGED <<active, installed, retired, doomed, closed>>
      BY <2>4 DEF BeginReload, BuildFails, EndReload
    <3> QED BY <3>1, <3>2, OwnFrame DEF JobInv
  <2>5. ASSUME NEW t \in Reloaders, Swap(t) PROVE OwnInv' /\ JobInv'
    <3>1. doomed[t] = {}
      BY <2>5 DEF Swap, JobInv
    <3>2. job'[t].phase = "swapped"
      BY <2>5 DEF Swap, TypeOK
    <3>3. \A u \in Reloaders : u # t => job'[u] = job[u] /\ doomed'[u] = doomed[u]
      BY <2>5 DEF Swap, TypeOK, Threads
    <3>4. JobInv'
      BY <3>2, <3>3 DEF JobInv
    <3> QED BY <2>5, <3>1, <3>4, SwapOwns
  <2>6. CASE Shutdown
    <3>1. JobInv'
      BY <2>6 DEF Shutdown, JobInv, TypeOK
    <3> QED BY <2>6, <3>1, ShutdownOwns
  <2>7. CASE UNCHANGED vars
    BY <2>7, OwnFrame DEF JobInv
  <2> QED BY <2>1, <2>2, <2>3, <2>4, <2>5, <2>6, <2>7 DEF Next
<1> QED BY <1>1, <1>2, TypeCorrect, PTL DEF Spec

\* No snapshot is closed twice, not even by a shutdown among leases and swaps.
THEOREM SnapshotsClosedOnce == Spec => []ClosedOnce
<1>1. OwnInv => ClosedOnce
  BY DEF OwnInv, ClosedOnce
<1> QED BY <1>1, OwnersCorrect, PTL

-----------------------------------------------------------------------------
(* What the counts say of the leases.                                      *)

\* The requests that work with a snapshot of generation g.
Users(g) == {r \in Requests : leased[r] # None /\ generation[leased[r]] = g}

\* A count never exceeds the leases of its generation: a shutdown forgets
\* leases, nothing invents them.  A retired snapshot has a count.
CountInv ==
  \A g \in Generations : /\ inflight[g] <= Cardinality(Users(g))
                         /\ retired[g] # None => inflight[g] >= 1

LEMMA UsersFinite ==
  \A g : IsFiniteSet(Users(g)) /\ Cardinality(Users(g)) \in Nat
<1> SUFFICES ASSUME NEW g PROVE IsFiniteSet(Users(g)) /\ Cardinality(Users(g)) \in Nat
  OBVIOUS
<1>1. Users(g) \in SUBSET Requests
  BY DEF Users
<1>2. IsFiniteSet(Users(g))
  BY <1>1, FS_Subset, ThreadsAssumption
<1> QED BY <1>2, FS_CardinalityType

\* A lease adds its request to one generation.
LEMMA LeaseUsers ==
  ASSUME TypeOK, OrderInv, NEW r \in Requests, Lease(r)
  PROVE  /\ generation[active] \in Generations
         /\ \A g : Cardinality(Users(g))' = IF g = generation[active]
                                            THEN Cardinality(Users(g)) + 1
                                            ELSE Cardinality(Users(g))
<1> USE Numbers
<1>1. active \in Snapshots /\ active # None /\ generation' = generation
  BY DEF Lease, TypeOK
<1>2. \A q \in Requests : leased'[q] = IF q = r THEN active ELSE leased[q]
  BY DEF Lease, TypeOK
<1>3. leased[r] = None
  BY DEF Lease
<1>4. generation[active] \in Generations
  BY <1>1, Generated DEF OrderInv
<1>5. ASSUME NEW g
      PROVE  Cardinality(Users(g))' = IF g = generation[active] THEN Cardinality(Users(g)) + 1
                                                                ELSE Cardinality(Users(g))
  <2>1. CASE g = generation[active]
    <3>1. Users(g)' = Users(g) \cup {r}
      BY <1>1, <1>2, <2>1 DEF Users
    <3>2. r \notin Users(g)
      BY <1>3 DEF Users
    <3>3. IsFiniteSet(Users(g))
      BY UsersFinite
    <3>4. Cardinality(Users(g) \cup {r}) = Cardinality(Users(g)) + 1
      BY <3>2, <3>3, FS_AddElement
    <3> QED BY <2>1, <3>1, <3>4
  <2>2. CASE g # generation[active]
    <3>1. Users(g)' = Users(g)
      BY <1>1, <1>2, <1>3, <2>2 DEF Users
    <3> QED BY <2>2, <3>1
  <2> QED BY <2>1, <2>2
<1> QED BY <1>4, <1>5

\* The end of a lease takes its request from one generation.
LEMMA LeaveUsers ==
  ASSUME TypeOK, OrderInv, NEW r \in Requests, Leave(r)
  PROVE  /\ generation[leased[r]] \in Generations
         /\ r \in Users(generation[leased[r]])
         /\ \A g : Users(g)' = Users(g) \ {r}
         /\ \A g : Cardinality(Users(g))' = IF g = generation[leased[r]]
                                            THEN Cardinality(Users(g)) - 1
                                            ELSE Cardinality(Users(g))
<1> USE Numbers
<1>1. leased[r] \in Snapshots /\ leased[r] # None /\ generation' = generation
  BY DEF Leave, TypeOK
<1>2. \A q \in Requests : leased'[q] = IF q = r THEN None ELSE leased[q]
  BY DEF Leave, TypeOK
<1>3. generation[leased[r]] \in Generations
  BY <1>1, Generated DEF OrderInv
<1>4. r \in Users(generation[leased[r]])
  BY <1>1 DEF Users
<1>5. \A g : Users(g)' = Users(g) \ {r}
  BY <1>1, <1>2 DEF Users
<1>6. \A g : g # generation[leased[r]] => r \notin Users(g)
  BY DEF Users
<1>7. ASSUME NEW g
      PROVE  Cardinality(Users(g))' = IF g = generation[leased[r]] THEN Cardinality(Users(g)) - 1
                                                                   ELSE Cardinality(Users(g))
  <2>1. IsFiniteSet(Users(g))
    BY UsersFinite
  <2>2. Cardinality(Users(g) \ {r}) = IF r \in Users(g) THEN Cardinality(Users(g)) - 1
                                                        ELSE Cardinality(Users(g))
    BY <2>1, FS_RemoveElement
  <2>3. Cardinality(Users(g))' = Cardinality(Users(g) \ {r})
    BY <1>5
  <2>4. CASE g = generation[leased[r]]
    BY <1>4, <2>2, <2>3, <2>4
  <2>5. CASE g # generation[leased[r]]
    BY <1>6, <2>2, <2>3, <2>5
  <2> QED BY <2>4, <2>5
<1> QED BY <1>3, <1>4, <1>5, <1>7

\* No other step changes who works with what.
LEMMA SameUsers ==
  ASSUME TypeOK, OrderInv, leased' = leased,
         generation' = generation
           \/ \E n : generation' = [generation EXCEPT ![installed + 1] = n]
  PROVE  \A g : Users(g)' = Users(g) /\ Cardinality(Users(g))' = Cardinality(Users(g))
<1>1. \A r \in Requests : leased[r] # None => generation'[leased[r]] = generation[leased[r]]
  <2> SUFFICES ASSUME NEW r \in Requests, leased[r] # None
               PROVE  generation'[leased[r]] = generation[leased[r]]
    OBVIOUS
  <2>1. leased[r] \in Snapshots /\ leased[r] <= installed /\ installed \in Nat
    BY Numbers DEF TypeOK, OrderInv
  <2>2. leased[r] # installed + 1
    BY <2>1, Numbers
  <2> QED BY <2>1, <2>2 DEF TypeOK
<1>2. \A g : Users(g)' = Users(g)
  BY <1>1 DEF Users
<1> QED BY <1>2

\* Counts never invent a lease.
LEMMA CountsCorrect == Spec => []CountInv
<1> USE Numbers
<1>1. Init => CountInv
  <2> SUFFICES ASSUME Init, NEW g \in Generations
               PROVE  inflight[g] <= Cardinality(Users(g)) /\ retired[g] = None
    BY DEF CountInv
  <2>1. Cardinality(Users(g)) \in Nat
    BY UsersFinite
  <2> QED BY <2>1 DEF Init
<1>2. TypeOK /\ OrderInv /\ CountInv /\ [Next]_vars => CountInv'
  <2> SUFFICES ASSUME TypeOK, OrderInv, CountInv, [Next]_vars PROVE CountInv'
    OBVIOUS
  <2> USE DEF tables, vars
  <2>0. \A g \in Generations : inflight[g] \in Nat /\ Cardinality(Users(g)) \in Nat
    BY UsersFinite DEF TypeOK
  <2>1. ASSUME NEW r \in Requests, Lease(r) PROVE CountInv'
    <3>1. /\ retired' = retired
          /\ \A g \in Generations :
               inflight'[g] = IF g = generation[active] THEN inflight[g] + 1 ELSE inflight[g]
      BY <2>1 DEF Lease, TypeOK
    <3> SUFFICES ASSUME NEW g \in Generations
                 PROVE  inflight'[g] <= Cardinality(Users(g))' /\ (retired'[g] # None => inflight'[g] >= 1)
      BY DEF CountInv
    <3>2. Cardinality(Users(g))' = IF g = generation[active] THEN Cardinality(Users(g)) + 1
                                                             ELSE Cardinality(Users(g))
      BY <2>1, LeaseUsers
    <3>3. inflight[g] <= Cardinality(Users(g)) /\ (retired[g] # None => inflight[g] >= 1)
      BY DEF CountInv
    <3> QED BY <2>0, <3>1, <3>2, <3>3
  <2>2. ASSUME NEW r \in Requests, Leave(r) PROVE CountInv'
    <3> DEFINE h == generation[leased[r]]
    <3>1. h \in Generations
      BY <2>2, LeaveUsers
    <3>2. \A g \in Generations :
            \/ g # h /\ inflight'[g] = inflight[g] /\ retired'[g] = retired[g]
            \/ g = h /\ inflight[h] <= 1 /\ inflight'[g] = 0 /\ retired'[g] = None
            \/ g = h /\ ~(inflight[h] <= 1) /\ inflight'[g] = inflight[g] - 1 /\ retired'[g] = retired[g]
      BY <2>2, <3>1 DEF Leave, LastLease, TypeOK
    <3>3. \A g : Cardinality(Users(g))' = IF g = h THEN Cardinality(Users(g)) - 1
                                                   ELSE Cardinality(Users(g))
      BY <2>2, LeaveUsers
    <3>4. \A g : Cardinality(Users(g))' \in Nat
      <4>1. \A g : Users(g)' = Users(g) \ {r}
        BY <2>2, LeaveUsers
      <4>2. \A g : IsFiniteSet(Users(g) \ {r})
        BY UsersFinite, FS_RemoveElement
      <4>3. \A g : Cardinality(Users(g) \ {r}) \in Nat
        BY <4>2, FS_CardinalityType
      <4> QED BY <4>1, <4>3
    <3> HIDE DEF h
    <3> SUFFICES ASSUME NEW g \in Generations
                 PROVE  inflight'[g] <= Cardinality(Users(g))' /\ (retired'[g] # None => inflight'[g] >= 1)
      BY DEF CountInv
    <3>5. inflight[g] <= Cardinality(Users(g)) /\ (retired[g] # None => inflight[g] >= 1)
      BY DEF CountInv
    <3>6. PICK c \in Nat, n \in Nat : c = Cardinality(Users(g)) /\ n = inflight[g]
      BY <2>0
    <3> QED BY <3>2, <3>3, <3>4, <3>5, <3>6
  <2>3. ASSUME UNCHANGED <<generation, leased, retired, inflight>> PROVE CountInv'
    BY <2>3, SameUsers DEF CountInv
  <2>4. ASSUME NEW t \in Reloaders, Swap(t) PROVE CountInv'
    <3>1. \A g : Cardinality(Users(g))' = Cardinality(Users(g))
      BY <2>4, SameUsers DEF Swap
    <3>2. inflight' = inflight
      BY <2>4 DEF Swap
    <3>3. \A g \in Generations : retired'[g] = retired[g] \/ inflight[g] > 0
      BY <2>4 DEF Swap, InUse, TypeOK
    <3> QED BY <2>0, <3>1, <3>2, <3>3 DEF CountInv
  <2>5. CASE Shutdown
    <3>1. \A g : Cardinality(Users(g))' = Cardinality(Users(g))
      BY <2>5, SameUsers DEF Shutdown
    <3>2. \A g \in Generations : inflight'[g] = 0 /\ retired'[g] = None
      BY <2>5 DEF Shutdown
    <3> QED BY <2>0, <3>1, <3>2 DEF CountInv
  <2>6. ASSUME NEW t \in Threads, CloseDoomed(t) PROVE CountInv'
    BY <2>3, <2>6 DEF CloseDoomed
  <2>7. ASSUME NEW t \in Reloaders, BeginReload(t) \/ BuildFails(t) \/ EndReload(t) PROVE CountInv'
    BY <2>3, <2>7 DEF BeginReload, BuildFails, EndReload
  <2>8. CASE UNCHANGED vars
    BY <2>3, <2>8
  <2> QED BY <2>1, <2>2, <2>4, <2>5, <2>6, <2>7, <2>8 DEF Next
<1> QED BY <1>1, <1>2, TypeCorrect, PTL DEF Spec

\* A retired snapshot is kept for a lease, never longer.
THEOREM RetiredIsLeased == Spec => []RetiredHasLease
<1>1. TypeOK /\ CountInv => RetiredHasLease
  <2> SUFFICES ASSUME TypeOK, CountInv, NEW g \in Generations, retired[g] # None
               PROVE  \E r \in Requests : leased[r] # None /\ generation[leased[r]] = g
    BY DEF RetiredHasLease
  <2>1. inflight[g] >= 1 /\ inflight[g] <= Cardinality(Users(g)) /\ inflight[g] \in Nat
    BY DEF CountInv, TypeOK
  <2>2. Cardinality(Users(g)) # 0
    BY <2>1, UsersFinite
  <2>3. Users(g) # {}
    BY <2>2, FS_EmptySet
  <2> QED BY <2>3 DEF Users
<1> QED BY <1>1, TypeCorrect, CountsCorrect, PTL

-----------------------------------------------------------------------------
(* While the service runs.                                                 *)

\* One reload at a time.
OneReload == \A t, u \in Reloaders : job[t] # Idle /\ job[u] # Idle => t = u

\* Until the service is closed, generations number the snapshots, the next
\* one is the candidate's, every lease is counted, and every leased snapshot
\* is active or retired.
Running ==
  /\ active = installed
  /\ \A s \in Snapshots : s <= installed => generation[s] = s
  /\ \A t \in Reloaders : job[t].phase = "building" => job[t].next = installed + 1
  /\ \A g \in Generations : inflight[g] = Cardinality(Users(g))
  /\ \A r \in Requests : leased[r] # None => leased[r] = active \/ retired[leased[r]] = leased[r]

RunInv == OneReload /\ (~shut => Running)

\* In a running service the active snapshot is the newest.
LEMMA NewestActive ==
  ASSUME TypeOK, Running
  PROVE  active \in Snapshots /\ active = installed /\ generation[active] = active
BY Numbers DEF TypeOK, Running

\* Under a running service the end of a lease leaves the others covered.
LEMMA LeaveRuns ==
  ASSUME TypeOK, OrderInv, Running, NEW r \in Requests, Leave(r)
  PROVE  Running'
<1> USE Numbers
<1> DEFINE h == generation[leased[r]]
<1>1. h \in Generations /\ r \in Users(h)
  BY LeaveUsers
<1>2. \A g \in Generations :
        \/ g # h /\ inflight'[g] = inflight[g] /\ retired'[g] = retired[g]
        \/ g = h /\ inflight[h] <= 1 /\ inflight'[g] = 0 /\ retired'[g] = None
        \/ g = h /\ ~(inflight[h] <= 1) /\ inflight'[g] = inflight[g] - 1 /\ retired'[g] = retired[g]
  BY <1>1 DEF Leave, LastLease, TypeOK
<1>3. \A g : Cardinality(Users(g))' = IF g = h THEN Cardinality(Users(g)) - 1
                                               ELSE Cardinality(Users(g))
  BY LeaveUsers
<1>4. UNCHANGED <<active, installed, generation, job>>
  BY DEF Leave
<1>5. \A q \in Requests : leased'[q] = IF q = r THEN None ELSE leased[q]
  BY DEF Leave, TypeOK
<1>6. \A g \in Generations : inflight[g] = Cardinality(Users(g)) /\ inflight[g] \in Nat
  BY DEF Running, TypeOK
<1>7. Cardinality(Users(h)) # 0
  BY <1>1, UsersFinite, FS_EmptySet
<1>8. leased[r] \in Snapshots /\ leased[r] <= installed /\ h = leased[r]
  BY DEF Leave, TypeOK, OrderInv, Running
<1>9. \A g \in Generations : inflight'[g] = Cardinality(Users(g))'
  <2> HIDE DEF h
  <2> SUFFICES ASSUME NEW g \in Generations PROVE inflight'[g] = Cardinality(Users(g))'
    OBVIOUS
  <2>1. PICK n \in Nat : n = inflight[g] /\ n = Cardinality(Users(g))
    BY <1>6
  <2>2. CASE g = h
    <3>1. n # 0 /\ Cardinality(Users(g))' = n - 1
      BY <1>3, <1>7, <2>1, <2>2
    <3>2. \/ n <= 1 /\ inflight'[g] = 0
          \/ ~(n <= 1) /\ inflight'[g] = n - 1
      BY <1>2, <2>1, <2>2
    <3> QED BY <3>1, <3>2
  <2>3. CASE g # h
    BY <1>2, <1>3, <2>1, <2>3
  <2> QED BY <2>2, <2>3
<1>10. \A q \in Requests : leased'[q] # None => leased'[q] = active \/ retired'[leased'[q]] = leased'[q]
  <2> SUFFICES ASSUME NEW q \in Requests, leased'[q] # None, leased[q] # active
               PROVE  retired'[leased[q]] = leased[q]
    BY <1>5
  <2>1. q # r /\ leased[q] # None /\ retired[leased[q]] = leased[q]
    BY <1>5 DEF Running
  <2>2. leased[q] \in Generations
    BY <2>1 DEF TypeOK, Snapshots, Generations
  <2>3. CASE leased[q] # h
    BY <1>2, <2>1, <2>2, <2>3
  <2>4. CASE leased[q] = h
    <3>1. generation[leased[q]] = h
      BY <2>4, <1>8
    <3>2. q \in Users(h) \ {r}
      BY <2>1, <3>1 DEF Users
    <3>3. Cardinality(Users(h) \ {r}) = Cardinality(Users(h)) - 1
      BY <1>1, UsersFinite, FS_RemoveElement
    <3>4. IsFiniteSet(Users(h) \ {r})
      BY UsersFinite, FS_RemoveElement
    <3>5. Cardinality(Users(h) \ {r}) # 0
      BY <3>2, <3>4, FS_EmptySet
    <3> HIDE DEF h
    <3>6. PICK n \in Nat : n = inflight[h] /\ n = Cardinality(Users(h))
      BY <1>1, <1>6
    <3>7. ~(inflight[h] <= 1)
      BY <1>7, <3>3, <3>5, <3>6
    <3> QED BY <1>1, <1>2, <2>1, <2>4, <3>7
  <2> QED BY <2>3, <2>4
<1> QED BY <1>4, <1>9, <1>10 DEF Running

\* A swap in a running service retires what is leased.
LEMMA SwapRuns ==
  ASSUME TypeOK, OrderInv, Running, OneReload, NEW t \in Reloaders, Swap(t)
  PROVE  Running'
<1> USE Numbers
<1>1. /\ installed + 1 \in Snapshots /\ active' = installed + 1 /\ installed' = installed + 1
      /\ generation' = [generation EXCEPT ![installed + 1] = job[t].next]
      /\ UNCHANGED <<inflight, leased>> /\ job[t].next = installed + 1
      /\ job' = [job EXCEPT ![t] = [phase |-> "swapped"]]
  BY DEF Swap, Running
<1>2. active \in Snapshots /\ active # None /\ active = installed /\ generation[active] = active
  BY NewestActive
<1>3. installed \in Nat
  BY DEF TypeOK
<1>4. \A s \in Snapshots : s <= installed' => generation'[s] = s
  <2> SUFFICES ASSUME NEW s \in Snapshots, s <= installed + 1 PROVE generation'[s] = s
    BY <1>1
  <2>1. CASE s = installed + 1
    BY <1>1, <2>1 DEF TypeOK
  <2>2. CASE s # installed + 1
    <3>1. s <= installed
      BY <1>3, <2>2
    <3> QED BY <1>1, <2>2, <3>1 DEF TypeOK, Running
  <2> QED BY <2>1, <2>2
<1>5. \A u \in Reloaders : job'[u].phase # "building"
  <2> SUFFICES ASSUME NEW u \in Reloaders PROVE job'[u].phase # "building"
    OBVIOUS
  <2>1. CASE u = t
    BY <1>1, <2>1 DEF TypeOK
  <2>2. CASE u # t
    <3>1. job[t] # Idle
      BY DEF Swap, Idle
    <3>2. job[u] = Idle
      BY <2>2, <3>1 DEF OneReload
    <3> QED BY <1>1, <2>2, <3>2 DEF TypeOK, Idle
  <2> QED BY <2>1, <2>2
<1>6. \A g : Cardinality(Users(g))' = Cardinality(Users(g))
  BY <1>1, SameUsers
<1>7. \A r \in Requests : leased[r] # None => retired'[leased[r]] = leased[r]
  <2> SUFFICES ASSUME NEW r \in Requests, leased[r] # None PROVE retired'[leased[r]] = leased[r]
    OBVIOUS
  <2>1. CASE leased[r] = active
    <3>1. r \in Users(active)
      BY <1>2, <2>1 DEF Users
    <3>2. Cardinality(Users(active)) # 0
      BY <3>1, UsersFinite, FS_EmptySet
    <3>3. active \in Generations
      BY <1>2 DEF Snapshots, Generations
    <3>4. PICK n \in Nat : n = inflight[active] /\ n # 0
      BY <3>2, <3>3, UsersFinite DEF Running
    <3>5. InUse(active)
      BY <1>2, <3>4 DEF InUse
    <3>6. retired' = [retired EXCEPT ![active] = active]
      BY <1>2, <3>5 DEF Swap
    <3> QED BY <2>1, <3>3, <3>6 DEF TypeOK
  <2>2. CASE leased[r] # active
    <3>1. retired[leased[r]] = leased[r] /\ leased[r] \in Generations
      BY <2>2 DEF Running, TypeOK, Snapshots, Generations
    <3>2. retired' = retired \/ retired' = [retired EXCEPT ![active] = active]
      BY <1>2 DEF Swap
    <3> QED BY <2>2, <3>1, <3>2 DEF TypeOK
  <2> QED BY <2>1, <2>2
<1> QED BY <1>1, <1>4, <1>5, <1>6, <1>7 DEF Running

\* The running invariant.
LEMMA RunsCorrect == Spec => []RunInv
<1> USE ThreadsAssumption, Numbers
<1>1. Init => RunInv
  <2> SUFFICES ASSUME Init PROVE RunInv
    OBVIOUS
  <2>1. \A g : Users(g) = {}
    BY DEF Init, Users
  <2>2. \A g : Cardinality(Users(g)) = 0
    BY <2>1, FS_EmptySet
  <2>3. \A s \in Snapshots : s <= 1 => s = 1
    OBVIOUS
  <2> QED BY <2>2, <2>3 DEF Init, RunInv, OneReload, Running, Idle
<1>2. TypeOK /\ OrderInv /\ RunInv /\ [Next]_vars => RunInv'
  <2> SUFFICES ASSUME TypeOK, OrderInv, RunInv, [Next]_vars PROVE RunInv'
    OBVIOUS
  <2> USE DEF tables, vars
  <2>1. ASSUME NEW r \in Requests, Lease(r) PROVE RunInv'
    <3>1. OneReload' /\ (shut' = shut)
      BY <2>1 DEF Lease, RunInv, OneReload
    <3>2. ASSUME Running PROVE Running'
      <4>1. /\ UNCHANGED <<active, installed, generation, retired, job>>
            /\ \A g \in Generations :
                 inflight'[g] = IF g = generation[active] THEN inflight[g] + 1 ELSE inflight[g]
            /\ \A q \in Requests : leased'[q] = IF q = r THEN active ELSE leased[q]
        BY <2>1 DEF Lease, TypeOK
      <4>2. \A g \in Generations : inflight'[g] = Cardinality(Users(g))'
        BY <2>1, <3>2, <4>1, LeaseUsers DEF Running
      <4> QED BY <3>2, <4>1, <4>2 DEF Running
    <3> QED BY <3>1, <3>2 DEF RunInv
  <2>2. ASSUME NEW r \in Requests, Leave(r) PROVE RunInv'
    <3>1. OneReload' /\ (shut' = shut)
      BY <2>2 DEF Leave, RunInv, OneReload
    <3> QED BY <2>2, <3>1, LeaveRuns DEF RunInv
  <2>3. ASSUME UNCHANGED <<active, installed, generation, retired, inflight, leased, shut>>,
               OneReload',
               \A u \in Reloaders : job'[u].phase = "building" /\ ~shut => job'[u].next = installed + 1
        PROVE  RunInv'
    BY <2>3, SameUsers DEF RunInv, Running
  <2>4. ASSUME NEW t \in Threads, CloseDoomed(t) PROVE RunInv'
    BY <2>3, <2>4 DEF CloseDoomed, RunInv, Running, OneReload
  <2>5. ASSUME NEW t \in Reloaders, BeginReload(t) PROVE RunInv'
    <3>1. OneReload'
      BY <2>5 DEF BeginReload, ReloadLockFree, OneReload, TypeOK
    <3>2. \A u \in Reloaders : u # t => job'[u] = job[u]
      BY <2>5 DEF BeginReload, TypeOK
    <3>3. ~shut => job'[t].next = installed + 1
      BY <2>5, NewestActive DEF BeginReload, TypeOK, RunInv
    <3>4. UNCHANGED <<active, installed, generation, retired, inflight, leased, shut>>
      BY <2>5 DEF BeginReload
    <3> QED BY <2>3, <3>1, <3>2, <3>3, <3>4 DEF RunInv, Running
  <2>6. ASSUME NEW t \in Reloaders, BuildFails(t) \/ EndReload(t) PROVE RunInv'
    <3>1. UNCHANGED <<active, installed, generation, retired, inflight, leased, shut>>
      BY <2>6 DEF BuildFails, EndReload
    <3>2. \A u \in Reloaders : job'[u] = job[u] \/ job'[u] = Idle
      BY <2>6 DEF BuildFails, EndReload, TypeOK
    <3>3. OneReload'
      BY <3>2 DEF RunInv, OneReload
    <3>4. \A u \in Reloaders : job'[u].phase = "building" /\ ~shut => job'[u].next = installed + 1
      BY <3>2 DEF RunInv, Running, Idle
    <3> QED BY <2>3, <3>1, <3>3, <3>4
  <2>7. ASSUME NEW t \in Reloaders, Swap(t) PROVE RunInv'
    <3>1. job[t] # Idle /\ \A u \in Reloaders : u # t => job'[u] = job[u]
      BY <2>7 DEF Swap, Idle, TypeOK
    <3>2. OneReload'
      BY <3>1 DEF RunInv, OneReload
    <3>3. shut' = shut
      BY <2>7 DEF Swap
    <3> QED BY <2>7, <3>2, <3>3, SwapRuns DEF RunInv
  <2>8. CASE Shutdown
    BY <2>8 DEF Shutdown, RunInv, OneReload
  <2>9. CASE UNCHANGED vars
    BY <2>3, <2>9 DEF RunInv, Running, OneReload
  <2> QED BY <2>1, <2>2, <2>4, <2>5, <2>6, <2>7, <2>8, <2>9 DEF Next
<1> QED BY <1>1, <1>2, TypeCorrect, PTL DEF Spec

\* No request of a running service works with closed plugins.
THEOREM LeasesStayOpen == Spec => []LeasedIsOpen
<1>1. TypeOK /\ OwnInv /\ RunInv => LeasedIsOpen
  <2> SUFFICES ASSUME TypeOK, OwnInv, Running, NEW r \in Requests, leased[r] # None
               PROVE  closed[leased[r]] = 0
    BY DEF LeasedIsOpen, RunInv
  <2>1. leased[r] \in Snapshots
    BY DEF TypeOK
  <2>2. leased[r] \in Generations
    BY <2>1 DEF Snapshots, Generations
  <2>3. Kept(leased[r])
    BY <2>2 DEF Running, Kept
  <2> QED BY <2>1, <2>3 DEF OwnInv
<1> QED BY <1>1, TypeCorrect, OwnersCorrect, RunsCorrect, PTL

\* Reloads of a running service move it one generation at a time.
THEOREM ReloadsInOrder == Spec => GenerationsFollow
<1>1. TypeOK /\ RunInv /\ [Next]_vars
        => [active' # active /\ ~shut' => generation'[active'] = generation[active] + 1]_vars
  <2> SUFFICES ASSUME TypeOK, RunInv, [Next]_vars, active' # active, ~shut'
               PROVE  generation'[active'] = generation[active] + 1
    OBVIOUS
  <2>1. PICK t \in Reloaders : Swap(t)
    BY DEF Next, Lease, Leave, CloseDoomed, BeginReload, BuildFails, EndReload, Shutdown, vars
  <2>2. Running
    BY <2>1 DEF Swap, RunInv
  <2>3. job[t].next = installed + 1 /\ installed + 1 \in Snapshots
    BY <2>1, <2>2 DEF Swap, Running
  <2>4. generation'[active'] = installed + 1
    BY <2>1, <2>3 DEF Swap, TypeOK
  <2> QED BY <2>2, <2>4, NewestActive
<1> QED BY <1>1, TypeCorrect, RunsCorrect, PTL DEF Spec, GenerationsFollow

-----------------------------------------------------------------------------
(* The refinement.                                                         *)

\* What a snapshot that is in somebody's hands to be closed is like: it was
\* installed and is not active, and no request of a running service uses it.
LEMMA DoomedIsFree ==
  ASSUME TypeOK, OrderInv, OwnInv, RunInv, NEW t \in Threads, NEW s \in doomed[t]
  PROVE  /\ s \in Snapshots /\ s <= installed /\ s # active /\ closed[s] = 0
         /\ shut \/ \A r \in Requests : leased[r] # s
<1> USE Numbers
<1>1. s \in Snapshots /\ s <= installed /\ closed[s] = 0 /\ ~Kept(s)
  BY DEF TypeOK, OrderInv, OwnInv
<1>2. ASSUME ~shut, NEW r \in Requests, leased[r] = s
      PROVE  FALSE
  <2>1. s # None /\ s \in Generations
    BY <1>1 DEF Snapshots, Generations
  <2>2. s = active \/ retired[s] = s
    BY <1>2, <2>1 DEF RunInv, Running
  <2> QED BY <1>1, <2>1, <2>2 DEF Kept
<1> QED BY <1>1, <1>2 DEF Kept

\* The manager implements the pool: a lease is a use, its end a finish, a swap
\* a replacement, whichever thread closes a snapshot closes one of the pool,
\* and what keeps account of leases and reloads is not to be seen.
THEOREM ManagerImplementsPool == Spec => ImplementsSnapshotPool
<1> USE ThreadsAssumption, Numbers
<1>1. ASSUME Init PROVE Pool!PoolInit
  BY <1>1 DEF Init, Pool!PoolInit
<1>2. ASSUME TypeOK, OrderInv, OwnInv, RunInv, [Next]_vars
      PROVE  [Pool!PoolNext]_(Pool!poolVars)
  <2> USE <1>2
  <2>1. ASSUME NEW r \in Requests, Lease(r) PROVE Pool!PoolNext
    <3>1. Pool!Use(r)
      BY <2>1 DEF Lease, Pool!Use
    <3> QED BY <3>1 DEF Pool!PoolNext
  <2>2. ASSUME NEW r \in Requests, Leave(r) PROVE Pool!PoolNext
    <3>1. Pool!Finish(r)
      BY <2>2 DEF Leave, Pool!Finish
    <3> QED BY <3>1 DEF Pool!PoolNext
  <2>3. ASSUME NEW t \in Threads, CloseDoomed(t) PROVE Pool!PoolNext
    <3>1. PICK s \in doomed[t] : closed' = [closed EXCEPT ![s] = @ + 1]
      BY <2>3 DEF CloseDoomed
    <3>2. UNCHANGED <<active, installed, leased, shut>>
      BY <2>3 DEF CloseDoomed
    <3>3. s \in Snapshots /\ closed[s] = 0
      BY DoomedIsFree
    <3>4. closed[s] + 1 = 1
      BY <3>3
    <3>5. closed' = [closed EXCEPT ![s] = 1]
      BY <3>1, <3>4
    <3>6. Pool!Close(s)
      BY <3>2, <3>3, <3>5, DoomedIsFree DEF Pool!Close
    <3> QED BY <3>3, <3>6 DEF Pool!PoolNext
  <2>4. ASSUME NEW t \in Reloaders, BeginReload(t) \/ BuildFails(t) \/ EndReload(t)
        PROVE  UNCHANGED Pool!poolVars
    BY <2>4 DEF BeginReload, BuildFails, EndReload, Pool!poolVars
  <2>5. ASSUME NEW t \in Reloaders, Swap(t) PROVE Pool!PoolNext
    <3>1. Pool!Replace
      BY <2>5 DEF Swap, Pool!Replace
    <3> QED BY <3>1 DEF Pool!PoolNext
  <2>6. CASE Shutdown
    <3>1. Pool!Stop
      BY <2>6 DEF Shutdown, Pool!Stop
    <3> QED BY <3>1 DEF Pool!PoolNext
  <2>7. CASE UNCHANGED vars
    BY <2>7 DEF vars, tables, Pool!poolVars
  <2> QED BY <2>1, <2>2, <2>3, <2>4, <2>5, <2>6, <2>7 DEF Next
<1> QED
  BY <1>1, <1>2, TypeCorrect, OwnersCorrect, RunsCorrect, PTL
     DEF Spec, ImplementsSnapshotPool, Pool!PoolSpec
=============================================================================
