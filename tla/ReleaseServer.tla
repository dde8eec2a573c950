----------------------------- MODULE ReleaseServer -----------------------------
(***************************************************************************)
(* The release of the edge model on one node: ReleaseStore                 *)
(* (release_store.py), which records what is active, the supervisor that   *)
(* makes it so (ActiveReleaseLlamaServer, serve_release.py) and the        *)
(* operator who promotes and rolls back meanwhile.                         *)
(*                                                                         *)
(* A revision stands for the release it activated: the process, the        *)
(* receipt and the two runtime outputs are numbered by the revision they   *)
(* were made for.                                                          *)
(***************************************************************************)
EXTENDS Integers, Sequences

CONSTANTS
    Releases,       \* release ids the operator may promote
    Broken,         \* those whose server never passes the startup gate
    First,          \* the release that is active at the beginning
    MaxEvents       \* bound on what happens to the node from outside: the
                    \* operator's calls, faults of files and processes, crashes

ASSUME ReleasesAssumption == First \in Releases /\ Broken \subseteq Releases
ASSUME BoundsAssumption == MaxEvents \in Nat

Scenes == {"traffic", "industrial"}
None == 0                                \* no revision
NoJournal == [s \in Scenes |-> -1]

VARIABLES
    history,     \* registry: its length is the revision, its last entry active
    known,       \* registry: releases, release_order
    outputs,     \* runtime output of each scene: the revision it is bound to
    journal,     \* transaction journal: the outputs before the publication
    receipt,     \* startup gate receipt
    process,     \* the revision the running server was started for
    sup,         \* the supervisor
    events       \* how often something has happened from outside

store == <<history, known>>
files == <<outputs, journal, receipt>>
server == <<history, known, outputs, journal, receipt, process, sup, events>>

Revision == Len(history)
ReleaseOf(n) == history[n].to
Active == ReleaseOf(Revision)

\* Between two calls of apply_current the supervisor knows what it applied;
\* mode, cand and prev are local to the call.
AtRest(pc, applied) ==
    [pc |-> pc, mode |-> "apply", cand |-> None, prev |-> None, applied |-> applied]

ServerInit ==
    /\ history = <<[action |-> "promote", to |-> First]>>
    /\ known = {First}
    /\ outputs = [s \in Scenes |-> None]
    /\ journal = NoJournal
    /\ receipt = None
    /\ process = None
    /\ sup = AtRest("off", None)
    /\ events = 0

-----------------------------------------------------------------------------
(* Events from outside are bounded.                                        *)
Event == events < MaxEvents /\ events' = events + 1

(* The store.  Each call holds the file lock and replaces one file.        *)

Activate(action, release) ==
    history' = Append(history, [action |-> action, to |-> release])

\* Promoting the active release changes nothing.
Promote(release) ==
    /\ Event
    /\ release # Active
    /\ known' = known \cup {release}
    /\ Activate("promote", release)
    /\ UNCHANGED <<files, process, sup>>

\* The target is named, or is the one registered before the active one.
Rollback(release) ==
    /\ Event
    /\ release \in known \ {Active}
    /\ Activate("rollback", release)
    /\ UNCHANGED <<known, files, process, sup>>

\* Mutant of StillActive: the revision is not compared.
SameRelease == Active = ReleaseOf(sup.cand)

\* rollback_if_active: compare the release and the revision, then swap.
StillActive == Revision = sup.cand /\ Active = ReleaseOf(sup.cand)

-----------------------------------------------------------------------------
(* The supervisor: apply_current.                                          *)

Goto(pc) == sup' = [sup EXCEPT !.pc = pc]
Return == sup' = AtRest("idle", sup.applied)

\* Mutant of Unchanged: the process is taken to be alive.
UnchangedRevision == Revision = sup.applied

Unchanged == Revision = sup.applied /\ process # None

Apply ==
    /\ sup.pc = "idle"
    /\ ~Unchanged
    /\ sup' = [sup EXCEPT !.pc = "verify", !.mode = "apply", !.cand = Revision, !.prev = sup.applied]
    /\ UNCHANGED <<store, files, process, events>>

\* The artifacts are hashed; they may have changed, and so may the store.
Verify ==
    /\ sup.pc = "verify"
    /\ \/ Revision = sup.cand /\ Goto("launch") /\ UNCHANGED events
       \/ Revision # sup.cand /\ Goto("failed") /\ UNCHANGED events
       \/ Event /\ Goto("failed")
    /\ UNCHANGED <<store, files, process>>

\* A start fails: of the candidate, or of the fallback.
Abandon == IF sup.mode = "apply" THEN Goto("failed") ELSE Return

\* Mutant of Launch: the old receipt stays.
LaunchKeepsReceipt ==
    /\ sup.pc = "launch"
    /\ process' = sup.cand
    /\ Goto("gate")
    /\ UNCHANGED <<store, files, events>>

\* _start_record: the old process is stopped and the receipt removed before the
\* new process is started; each of the three may fail.
Launch ==
    /\ sup.pc = "launch"
    /\ \/ process' = sup.cand /\ receipt' = None /\ Goto("gate") /\ UNCHANGED events
       \/ Event /\ process' \in {process, None} /\ Abandon /\ UNCHANGED receipt
    /\ UNCHANGED <<store, outputs, journal>>

\* The candidate is given up.
GiveUp == process' = None /\ Abandon

\* Readiness, properties, adapters and probes.
Gate ==
    /\ sup.pc = "gate"
    /\ \/ /\ process # None /\ ReleaseOf(sup.cand) \notin Broken
          /\ Goto("publish")
          /\ UNCHANGED <<process, events>>
       \/ /\ process = None \/ ReleaseOf(sup.cand) \in Broken
          /\ GiveUp
          /\ UNCHANGED events
       \/ Event /\ GiveUp
    /\ UNCHANGED <<store, files>>

\* Mutant of Recover: it does not look whether there is a journal.
RecoverBlindly == outputs' = journal /\ journal' = NoJournal

\* The outputs before an unfinished publication.
Recovered == IF journal = NoJournal THEN outputs ELSE journal

\* _recover_runtime_output_transaction.
Recover == outputs' = Recovered /\ journal' = NoJournal

\* An unfinished transaction is undone first; then the journal is written.
BeginPublish ==
    /\ sup.pc = "publish"
    /\ \/ /\ journal # NoJournal
          /\ Recover
          /\ UNCHANGED <<process, sup, events>>
       \/ /\ journal = NoJournal
          /\ journal' = outputs
          /\ Goto("write")
          /\ UNCHANGED <<outputs, process, events>>
       \/ /\ Event /\ GiveUp
          /\ UNCHANGED <<outputs, journal>>
    /\ UNCHANGED <<store, receipt>>

Pending == {s \in Scenes : outputs[s] # sup.cand}

\* A write that fails ends the transaction; undoing it may fail as well.
WriteOutput ==
    /\ sup.pc = "write"
    /\ \/ \E s \in Pending :
            /\ outputs' = [outputs EXCEPT ![s] = sup.cand]
            /\ UNCHANGED <<journal, process, sup, events>>
       \/ Event /\ GiveUp /\ Recover
       \/ Event /\ GiveUp /\ UNCHANGED <<outputs, journal>>
    /\ UNCHANGED <<store, receipt>>

\* Mutant of Commit: the journal is removed after the first output.
CommitEarly ==
    /\ sup.pc = "write"
    /\ Pending # Scenes
    /\ journal' = NoJournal
    /\ Goto("receipt")
    /\ UNCHANGED <<store, outputs, receipt, process, events>>

Commit ==
    /\ sup.pc = "write"
    /\ Pending = {}
    /\ journal' = NoJournal
    /\ Goto("receipt")
    /\ UNCHANGED <<store, outputs, receipt, process, events>>

\* The receipt is the last step of _start_record; a fallback is then only
\* compared with the store for the report.
PublishReceipt ==
    /\ sup.pc = "receipt"
    /\ \/ /\ receipt' = sup.cand
          /\ sup' = IF sup.mode = "apply"
                    THEN [sup EXCEPT !.applied = sup.cand, !.pc = "started"]
                    ELSE AtRest("idle", sup.cand)
          /\ UNCHANGED <<process, events>>
       \/ Event /\ GiveUp /\ UNCHANGED receipt
    /\ UNCHANGED <<store, outputs, journal>>

\* The store may have moved while the candidate was starting.
Started ==
    /\ sup.pc = "started"
    /\ \/ Revision = sup.cand /\ Return /\ UNCHANGED events
       \/ Revision # sup.cand /\ Goto("failed") /\ UNCHANGED events
       \/ Event /\ Goto("failed")
    /\ UNCHANGED <<store, files, process>>

\* A start that is to restore revision n.
Fallback(n) == sup' = [sup EXCEPT !.pc = "launch", !.mode = "fallback", !.cand = n]

\* The store goes back to the release served before, unless it has moved; an
\* error of the store (also: the release is the active one) leaves it alone.
Failback ==
    /\ sup.pc = "failed" /\ sup.prev # None
    /\ \/ /\ StillActive /\ ReleaseOf(sup.prev) # Active
          /\ Activate("failback", ReleaseOf(sup.prev))
          /\ Fallback(Revision + 1)
          /\ UNCHANGED events
       \/ /\ ~StillActive
          /\ Goto("latest")
          /\ UNCHANGED <<history, events>>
       \/ /\ (StillActive /\ ReleaseOf(sup.prev) = Active /\ UNCHANGED events) \/ Event
          /\ Fallback(sup.prev)
          /\ UNCHANGED history
    /\ UNCHANGED <<known, files, process>>

\* A newer activation won: converge to it.
Latest ==
    /\ sup.pc = "latest"
    /\ \/ Fallback(Revision) /\ UNCHANGED events
       \/ Event /\ Return
    /\ UNCHANGED <<store, files, process>>

SupervisorStep ==
    \/ Apply \/ Verify \/ Launch \/ Gate \/ BeginPublish \/ WriteOutput \/ Commit
    \/ PublishReceipt \/ Started \/ Failback \/ Latest

-----------------------------------------------------------------------------
(* The node: deploy_node removes the receipt, starts the supervisor, and   *)
(* stops everything when a part of the node exits.                         *)

StartNode ==
    /\ sup.pc = "off"
    /\ receipt' = None
    /\ Recover
    /\ sup' = AtRest("idle", None)
    /\ UNCHANGED <<store, process, events>>

StopNode ==
    /\ sup' = AtRest("off", None)
    /\ process' = None
    /\ UNCHANGED <<store, files>>

\* With nothing to fall back to, the first apply ends the supervisor.
FirstApplyFails ==
    /\ sup.pc = "failed" /\ sup.prev = None
    /\ StopNode
    /\ UNCHANGED events

Crash ==
    /\ sup.pc # "off"
    /\ Event
    /\ StopNode

\* llama-server dies.
ProcessDies ==
    /\ process # None
    /\ Event
    /\ process' = None
    /\ UNCHANGED <<store, files, sup>>

OperatorStep == \E release \in Releases : Promote(release) \/ Rollback(release)

-----------------------------------------------------------------------------
ServerTypeOK ==
    /\ history \in Seq([action: {"promote", "rollback", "failback"}, to: Releases])
    /\ known \subseteq Releases
    /\ outputs \in [Scenes -> Nat]
    /\ journal \in [Scenes -> Nat] \cup {NoJournal}
    /\ receipt \in Nat
    /\ process \in Nat
    /\ sup \in [pc: {"off", "idle", "verify", "launch", "gate", "publish", "write",
                     "receipt", "started", "failed", "latest"},
                mode: {"apply", "fallback"}, cand: Nat, prev: Nat, applied: Nat]
    /\ events \in 0..MaxEvents

=============================================================================
