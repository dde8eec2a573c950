---------------------------- MODULE ReleaseRollout ----------------------------
(***************************************************************************)
(* ReleaseServer composed with the edge service of the same node: the      *)
(* scene plugins, which read their runtime outputs when they are loaded,   *)
(* and EdgeLLMReleaseWatcher (release_watcher.py), which reloads them when *)
(* the revision of the store moves.                                        *)
(***************************************************************************)
EXTENDS ReleaseServer

VARIABLE edge   \* the edge service

vars == <<server, edge>>

\* Of the plugins: the outputs they were made from, and the revision of the
\* store the traffic plugin compared its output with.
Nothing == [output |-> [s \in Scenes |-> None], seen |-> None]

\* next is what a load under way has read so far, target the revision that
\* run_once reloads for, applied the last one it has reported.
EdgeOff == [pc |-> "off", next |-> Nothing, plugins |-> Nothing,
            target |-> None, applied |-> None, reloaded |-> FALSE]

Init == ServerInit /\ edge = EdgeOff

EdgeGoto(pc) == edge' = [edge EXCEPT !.pc = pc]

-----------------------------------------------------------------------------
(* Loading the plugins: the registry warms the scenes up in the order of   *)
(* their names.                                                            *)

\* deploy_node starts the edge service when the receipt is there.
StartEdge ==
    /\ edge.pc = "off"
    /\ sup.pc # "off" /\ receipt # None
    /\ EdgeGoto("industrial")
    /\ UNCHANGED server

\* The industrial plugin takes the output as it is.
LoadIndustrial ==
    /\ edge.pc = "industrial"
    /\ edge' = [edge EXCEPT !.next.output["industrial"] = outputs["industrial"],
                            !.pc = "traffic"]
    /\ UNCHANGED server

\* The traffic plugin reads the store first ...
ReadRelease ==
    /\ edge.pc = "traffic"
    /\ edge' = [edge EXCEPT !.next.seen = Revision, !.pc = "match"]
    /\ UNCHANGED server

\* run_once returns; what it had read is dropped.
Watching(plugins, applied, reloaded) ==
    edge' = [EdgeOff EXCEPT !.pc = "watch", !.plugins = plugins, !.applied = applied,
                            !.reloaded = reloaded]

ReloadFails == edge.target # None /\ Watching(edge.plugins, edge.applied, edge.reloaded)

\* Mutant of ReadRuntime: the mismatch is passed over and the reload counts as
\* done.
ReadRuntimeGivesUp ==
    /\ edge.pc = "match"
    /\ \/ outputs["traffic"] = edge.next.seen /\ EdgeGoto("model")
       \/ /\ outputs["traffic"] # edge.next.seen /\ edge.target # None
          /\ Watching(edge.plugins, edge.target, edge.reloaded)
    /\ UNCHANGED server

\* ... and compares the release binding of its output with it
\* (_runtime_matches_release); a mismatch fails the whole load.
ReadRuntime ==
    /\ edge.pc = "match"
    /\ \/ outputs["traffic"] = edge.next.seen /\ EdgeGoto("model")
       \/ outputs["traffic"] # edge.next.seen /\ ReloadFails
    /\ UNCHANGED server

\* The client is then built from the file, which is read once more.
LoadModel ==
    /\ edge.pc = "model"
    /\ edge' = [edge EXCEPT !.next.output["traffic"] = outputs["traffic"],
                            !.pc = IF edge.target = None THEN "construct" ELSE "install"]
    /\ UNCHANGED server

-----------------------------------------------------------------------------
(* The watcher.                                                            *)

\* The constructor takes the current revision for the one that is loaded.
Construct ==
    /\ edge.pc = "construct"
    /\ Watching(edge.next, Revision, FALSE)
    /\ UNCHANGED server

\* run_once: the quick look.
Notice ==
    /\ edge.pc = "watch"
    /\ Revision # edge.applied
    /\ edge' = [edge EXCEPT !.target = Revision, !.pc = "check"]
    /\ UNCHANGED server

\* The verified look must agree; then manager.reload().
Check ==
    /\ edge.pc = "check"
    /\ \/ Revision = edge.target /\ EdgeGoto("industrial")
       \/ Revision # edge.target /\ ReloadFails
    /\ UNCHANGED server

Install ==
    /\ edge.pc = "install"
    /\ Watching(edge.next, edge.target, TRUE)
    /\ UNCHANGED server

EdgeStep ==
    \/ StartEdge \/ LoadIndustrial \/ ReadRelease \/ ReadRuntime \/ LoadModel
    \/ Construct \/ Notice \/ Check \/ Install

-----------------------------------------------------------------------------
(* A mismatch in the first load ends the edge service and with it the node.*)
FirstLoadFails ==
    /\ edge.pc = "match" /\ edge.target = None
    /\ outputs["traffic"] # edge.next.seen
    /\ StopNode
    /\ edge' = EdgeOff
    /\ UNCHANGED events

NodeStops == (FirstApplyFails \/ Crash) /\ edge' = EdgeOff

Next ==
    \/ (OperatorStep \/ SupervisorStep \/ StartNode \/ ProcessDies) /\ UNCHANGED edge
    \/ NodeStops \/ FirstLoadFails
    \/ EdgeStep

Spec == Init /\ [][Next]_vars

\* The supervisor polls for ever, and so does the watcher, whose back-off is
\* at most a minute; a start that fails ends the node.
Fairness ==
    /\ WF_vars(SupervisorStep /\ UNCHANGED edge)
    /\ WF_vars(EdgeStep)
    /\ WF_vars(FirstApplyFails /\ edge' = EdgeOff)
    /\ WF_vars(FirstLoadFails)

FairSpec == Spec /\ Fairness

-----------------------------------------------------------------------------
(* Type invariant of the node.                                             *)
TypeOK ==
    /\ ServerTypeOK
    /\ edge \in [pc: {"off", "industrial", "traffic", "match", "model", "construct",
                      "install", "watch", "check"},
                 next: [output: [Scenes -> Nat], seen: Nat],
                 plugins: [output: [Scenes -> Nat], seen: Nat],
                 target: Nat, applied: Nat, reloaded: BOOLEAN]

(* At rest the two runtime outputs are of one revision; while they are     *)
(* being replaced, and after a crash or a failed write in the middle, the  *)
(* journal holds a pair of one revision (_publish_runtime_outputs).        *)
OutputsOfOneRevision ==
    LET pair == Recovered IN pair["traffic"] = pair["industrial"]

(* The receipt vouches for what is there: both outputs are of its revision *)
(* and so is the server, if it has not died (_start_record).               *)
ReceiptIsTrue ==
    receipt # None /\ sup.pc # "off" =>
        /\ journal = NoJournal
        /\ \A s \in Scenes : outputs[s] = receipt
        /\ process \in {None, receipt}

Certified == INSTANCE CertifiedRelease WITH latest <- Revision, runtime <- Recovered,
                                            server <- process

(* Seen through the journal, the stepwise replacement of the outputs, its  *)
(* recoveries, the fallbacks and the crashes are steps of CertifiedRelease *)
(* or invisible: outputs change all at once, and never under a receipt     *)
(* (_start_record, _publish_runtime_outputs).                              *)
ImplementsCertifiedRelease == Certified!ReleaseSpec

(* A failback undoes the very activation that failed to start, never a     *)
(* newer one, even of the same release, and never restores a release that  *)
(* cannot be served (apply_current, rollback_if_active).                   *)
FailbackUndoesItsCandidate ==
    [][Len(history') > Revision /\ history'[Revision + 1].action = "failback" =>
         /\ sup.cand = Revision
         /\ history'[Revision + 1].to \notin Broken]_vars

(* A node that stays up serves the active revision in the end: the server, *)
(* the outputs and the receipt are of it (apply_current, run).             *)
ServesActive ==
    process = Revision /\ receipt = Revision /\ \A s \in Scenes : outputs[s] = Revision
Converges == <>[](sup.pc # "off") => <>[]ServesActive

(* Reloads that fail while the supervisor is still starting the release    *)
(* are repeated until one succeeds: the traffic plugin ends up at the      *)
(* active revision (run_once).                                             *)
WatcherCatchesUp ==
    <>[](sup.pc # "off" /\ edge.reloaded) => <>[](edge.plugins.seen = Revision)

(* What README.md:158 promises of the two scenes: in the end both plugins  *)
(* work with the model of the active revision.                             *)
ScenesFollowRelease ==
    <>[](sup.pc # "off" /\ edge.reloaded) => <>[](\A s \in Scenes : edge.plugins.output[s] = Revision)

=============================================================================
