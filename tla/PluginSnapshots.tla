--------------------------- MODULE PluginSnapshots ---------------------------
(***************************************************************************)
(* PluginRuntimeManager (plugin_manager.py): the snapshot of scene plugins *)
(* that serves requests is replaced while requests run.  A request leases  *)
(* the active snapshot; a replaced snapshot is closed when its last lease  *)
(* ends.  Leases are counted per generation number, not per snapshot.      *)
(*                                                                         *)
(* Snapshots are numbered in the order in which they are installed.        *)
(***************************************************************************)
EXTENDS Integers, FiniteSets

CONSTANTS
    Requests,       \* request threads: /decide, /flush, health, replay worker
    Reloaders,      \* threads that reload: release watcher, /plugins/reload
    Closer,         \* the thread that closes the service
    MaxSnapshots    \* bound on the snapshots ever installed

ASSUME ThreadsAssumption ==
    /\ IsFiniteSet(Requests)
    /\ Requests \cap Reloaders = {}
    /\ Closer \notin Requests \cup Reloaders
ASSUME MaxSnapshotsAssumption == MaxSnapshots \in Nat \ {0}

Threads == Requests \cup Reloaders \cup {Closer}
Snapshots == 1..MaxSnapshots
Generations == 1..MaxSnapshots
None == 0

VARIABLES
    active,       \* _active
    installed,    \* number of snapshots installed so far
    generation,   \* generation number of each snapshot
    retired,      \* _retired: snapshots by generation
    inflight,     \* _inflight: leases by generation, 0 for no entry
    leased,       \* the snapshot each request works on
    job,          \* the reload each reloader is in
    doomed,       \* snapshots each thread is about to close, outside the lock
    closed,       \* how often each snapshot has been closed
    shut          \* close() has been called

tables == <<retired, inflight>>
vars == <<active, installed, generation, retired, inflight, leased, job, doomed,
          closed, shut>>

Idle == [phase |-> "idle"]
Jobs == [phase: {"building"}, next: Generations] \cup [phase: {"swapped"}] \cup {Idle}

\* The constructor has loaded the first snapshot.
Init ==
    /\ active = 1
    /\ installed = 1
    /\ generation = [s \in Snapshots |-> IF s = 1 THEN 1 ELSE None]
    /\ retired = [g \in Generations |-> None]
    /\ inflight = [g \in Generations |-> 0]
    /\ leased = [r \in Requests |-> None]
    /\ job = [t \in Reloaders |-> Idle]
    /\ doomed = [t \in Threads |-> {}]
    /\ closed = [s \in Snapshots |-> 0]
    /\ shut = FALSE

-----------------------------------------------------------------------------
(* lease: __enter__ and __exit__.                                          *)

Lease(r) ==
    /\ leased[r] = None /\ doomed[r] = {}
    /\ active # None
    /\ leased' = [leased EXCEPT ![r] = active]
    /\ inflight' = [inflight EXCEPT ![generation[active]] = @ + 1]
    /\ UNCHANGED <<active, installed, generation, retired, job, doomed, closed, shut>>

\* Mutant of LastLease: the retired snapshot is not closed.
LastLeaseLeaks(r, g) ==
    /\ inflight' = [inflight EXCEPT ![g] = 0]
    /\ retired' = [retired EXCEPT ![g] = None]
    /\ UNCHANGED doomed

LastLease(r, g) ==
    /\ inflight' = [inflight EXCEPT ![g] = 0]
    /\ retired' = [retired EXCEPT ![g] = None]
    /\ doomed' = [doomed EXCEPT ![r] = {retired[g]} \ {None}]

Leave(r) ==
    /\ leased[r] # None
    /\ LET g == generation[leased[r]]
       IN  IF inflight[g] <= 1
           THEN LastLease(r, g)
           ELSE /\ inflight' = [inflight EXCEPT ![g] = @ - 1]
                /\ UNCHANGED <<retired, doomed>>
    /\ leased' = [leased EXCEPT ![r] = None]
    /\ UNCHANGED <<active, installed, generation, job, closed, shut>>

\* registry.close(), after the lock has been released.
CloseDoomed(t) ==
    \E s \in doomed[t] :
        /\ closed' = [closed EXCEPT ![s] = @ + 1]
        /\ doomed' = [doomed EXCEPT ![t] = @ \ {s}]
        /\ UNCHANGED <<active, installed, generation, tables, leased, job, shut>>

-----------------------------------------------------------------------------
(* reload: one at a time, under _reload_lock; the candidate is built with  *)
(* no other lock held.                                                     *)

ReloadLockFree == \A t \in Reloaders : job[t] = Idle

BeginReload(t) ==
    /\ job[t] = Idle
    /\ ReloadLockFree
    /\ installed < MaxSnapshots
    /\ job' = [job EXCEPT ![t] =
                 [phase |-> "building",
                  next |-> IF active = None THEN 1 ELSE generation[active] + 1]]
    /\ UNCHANGED <<active, installed, generation, tables, leased, doomed, closed, shut>>

\* The candidate is closed before anyone has seen it; the exception ends the
\* reload.
BuildFails(t) ==
    /\ job[t].phase = "building"
    /\ job' = [job EXCEPT ![t] = Idle]
    /\ UNCHANGED <<active, installed, generation, tables, leased, doomed, closed, shut>>

\* Mutant of InUse: the previous snapshot is never kept for its leases.
NeverInUse(s) == FALSE

InUse(s) == inflight[generation[s]] > 0

\* The candidate becomes active; the previous snapshot is retired while it is
\* leased, else closed by this thread.
Swap(t) ==
    LET candidate == installed + 1
    IN  /\ job[t].phase = "building"
        /\ candidate \in Snapshots
        /\ active' = candidate
        /\ installed' = candidate
        /\ generation' = [generation EXCEPT ![candidate] = job[t].next]
        /\ IF active # None /\ InUse(active)
           THEN /\ retired' = [retired EXCEPT ![generation[active]] = active]
                /\ UNCHANGED doomed
           ELSE /\ doomed' = [doomed EXCEPT ![t] = {active} \ {None}]
                /\ UNCHANGED retired
        /\ job' = [job EXCEPT ![t] = [phase |-> "swapped"]]
        /\ UNCHANGED <<inflight, leased, closed, shut>>

EndReload(t) ==
    /\ job[t].phase = "swapped"
    /\ doomed[t] = {}
    /\ job' = [job EXCEPT ![t] = Idle]
    /\ UNCHANGED <<active, installed, generation, tables, leased, doomed, closed, shut>>

-----------------------------------------------------------------------------
(* close.  The HTTP threads are daemons and are not waited for, and the    *)
(* release watcher is waited for five seconds: leases and a reload may     *)
(* still be under way, and the watcher may still swap.                     *)

RetiredSnapshots == {retired[g] : g \in Generations} \ {None}

Shutdown ==
    /\ ~shut
    /\ shut' = TRUE
    /\ doomed' = [doomed EXCEPT ![Closer] = (RetiredSnapshots \cup {active}) \ {None}]
    /\ active' = None
    /\ retired' = [g \in Generations |-> None]
    /\ inflight' = [g \in Generations |-> 0]
    /\ UNCHANGED <<installed, generation, leased, job, closed>>

Next ==
    \/ \E r \in Requests : Lease(r) \/ Leave(r)
    \/ \E t \in Reloaders : BeginReload(t) \/ BuildFails(t) \/ Swap(t) \/ EndReload(t)
    \/ \E t \in Threads : CloseDoomed(t)
    \/ Shutdown

Spec == Init /\ [][Next]_vars

(* Requests end (they have deadlines), and so do the loops that close.     *)
Fairness ==
    /\ \A r \in Requests : WF_vars(Leave(r))
    /\ \A t \in Threads : WF_vars(CloseDoomed(t))

FairSpec == Spec /\ Fairness

-----------------------------------------------------------------------------
(* Type invariant of the manager and its threads.                          *)
TypeOK ==
    /\ active \in Snapshots \cup {None}
    /\ installed \in Snapshots
    /\ generation \in [Snapshots -> Generations \cup {None}]
    /\ retired \in [Generations -> Snapshots \cup {None}]
    /\ inflight \in [Generations -> Nat]
    /\ leased \in [Requests -> Snapshots \cup {None}]
    /\ job \in [Reloaders -> Jobs]
    /\ doomed \in [Threads -> SUBSET Snapshots]
    /\ closed \in [Snapshots -> Nat]
    /\ shut \in BOOLEAN

(* While the service runs, no request works with plugins that have been    *)
(* closed under it, however reloads and leases interleave (lease, reload). *)
LeasedIsOpen ==
    ~shut => \A r \in Requests : leased[r] # None => closed[leased[r]] = 0

(* No snapshot is closed twice, even when the service is closed while      *)
(* leases end and a reload swaps (close, lease, reload).                   *)
ClosedOnce == \A s \in Snapshots : closed[s] <= 1

(* A retired snapshot is kept for a lease that is still out, never longer: *)
(* whoever ends the last lease finds it (lease).                           *)
RetiredHasLease ==
    \A g \in Generations :
        retired[g] # None => \E r \in Requests : /\ leased[r] # None
                                                 /\ generation[leased[r]] = g

(* While the service runs, a step that changes the active snapshot makes   *)
(* the next generation active: an older candidate never replaces a newer   *)
(* one, and a failed reload leaves the service what it had (reload).       *)
GenerationsFollow ==
    [][active' # active /\ ~shut' => generation'[active'] = generation[active] + 1]_vars

Pool == INSTANCE SnapshotPool WITH current <- active, newest <- installed,
                                   using <- leased, stopped <- shut

(* Generation numbers, counts of leases, retired snapshots and threads     *)
(* that close outside the lock add up to the pool of SnapshotPool: nothing *)
(* is closed in use, closed twice or made current again (lease, reload,    *)
(* close).                                                                 *)
ImplementsSnapshotPool == Pool!PoolSpec

(* Every snapshot that has been replaced is closed in the end, in a        *)
(* running service and in one that is closed meanwhile.                    *)
ReplacedIsClosed ==
    \A s \in Snapshots : (s <= installed /\ s # active) ~> closed[s] = 1

=============================================================================
