---------------------------- MODULE ReleaseProofs ----------------------------
(***************************************************************************)
(* Proofs about ReleaseServer within ReleaseRollout, for any releases and  *)
(* any number of events from outside: types, that the runtime outputs are  *)
(* of one revision or can be restored to one, that the receipt is true,    *)
(* that a failback undoes nothing but its own candidate, and that it all   *)
(* implements CertifiedRelease.                                            *)
(***************************************************************************)
EXTENDS ReleaseRollout, TLAPS

-----------------------------------------------------------------------------
(* Types.                                                                  *)

Entries == [action: {"promote", "rollback", "failback"}, to: Releases]
SupTypes == [pc: {"off", "idle", "verify", "launch", "gate", "publish", "write",
                  "receipt", "started", "failed", "latest"},
             mode: {"apply", "fallback"}, cand: Nat, prev: Nat, applied: Nat]
Loads == [output: [Scenes -> Nat], seen: Nat]
EdgeTypes == [pc: {"off", "industrial", "traffic", "match", "model", "construct",
                   "install", "watch", "check"},
              next: Loads, plugins: Loads, target: Nat, applied: Nat, reloaded: BOOLEAN]

(* TypeOK with its record types named.                                     *)
LEMMA Types ==
    TypeOK <=>
        /\ history \in Seq(Entries)
        /\ known \subseteq Releases
        /\ outputs \in [Scenes -> Nat]
        /\ journal \in [Scenes -> Nat] \cup {NoJournal}
        /\ receipt \in Nat
        /\ process \in Nat
        /\ sup \in SupTypes
        /\ events \in 0 .. MaxEvents
        /\ edge \in EdgeTypes
BY DEF TypeOK, ServerTypeOK, Entries, SupTypes, Loads, EdgeTypes

(* What is numbered is numbered by a revision that exists.                 *)
Underway == {"verify", "launch", "gate", "publish", "write", "receipt", "started",
             "failed", "latest"}
Numbered ==
    /\ Revision >= 1
    /\ sup.cand <= Revision /\ sup.prev <= Revision /\ sup.applied <= Revision
    /\ sup.pc \in Underway => sup.cand # None

(* What has passed the startup gate can be served: the release that was    *)
(* applied last, the one to fall back to, and a candidate beyond the gate. *)
Served ==
    /\ sup.applied # None => ReleaseOf(sup.applied) \notin Broken
    /\ sup.prev # None => ReleaseOf(sup.prev) \notin Broken
    /\ sup.pc \in {"publish", "write", "receipt", "started"} => ReleaseOf(sup.cand) \notin Broken

(* While outputs are being written there is a journal.                     *)
Journaled == sup.pc = "write" => journal # NoJournal

(* From the launch of a candidate to its receipt there is no receipt, and  *)
(* no other process; before the receipt is written the outputs are there.  *)
Unproven ==
    /\ sup.pc \in {"gate", "publish", "write", "receipt"} =>
           receipt = None /\ process \in {None, sup.cand}
    /\ sup.pc = "receipt" => journal = NoJournal /\ \A s \in Scenes : outputs[s] = sup.cand

Inv ==
    /\ TypeOK /\ Numbered /\ Served
    /\ OutputsOfOneRevision /\ Journaled
    /\ Unproven /\ ReceiptIsTrue

(* An activation adds one entry and leaves the others alone.               *)
LEMMA ActivateAppends ==
    ASSUME history \in Seq(Entries),
           NEW action \in {"promote", "rollback", "failback"}, NEW release \in Releases,
           Activate(action, release)
    PROVE  /\ history' \in Seq(Entries)
           /\ Revision \in Nat /\ Revision' = Revision + 1
           /\ \A n \in 1 .. Revision : history'[n] = history[n]
           /\ history'[Revision + 1] = [action |-> action, to |-> release]
BY DEF Activate, Entries, Revision

(* The names of the revisions that exist stay, whoever activates what.     *)
LEMMA HistoryGrows ==
    ASSUME TypeOK,
           \/ UNCHANGED history
           \/ \E action \in {"promote", "rollback", "failback"}, release \in Releases :
                 Activate(action, release)
    PROVE  /\ history' \in Seq(Entries)
           /\ Revision \in Nat /\ Revision' \in Nat /\ Revision' >= Revision
           /\ \A n \in 1 .. Revision : ReleaseOf(n)' = ReleaseOf(n)
<1>1. history \in Seq(Entries) /\ Revision \in Nat
  BY Types DEF Revision
<1>2. CASE UNCHANGED history
  BY <1>1, <1>2 DEF Revision, ReleaseOf
<1>3. ASSUME NEW action \in {"promote", "rollback", "failback"}, NEW release \in Releases,
             Activate(action, release)
      PROVE  /\ history' \in Seq(Entries)
             /\ Revision \in Nat /\ Revision' \in Nat /\ Revision' >= Revision
             /\ \A n \in 1 .. Revision : ReleaseOf(n)' = ReleaseOf(n)
  <2>1. history' \in Seq(Entries) /\ Revision' = Revision + 1
    BY <1>1, <1>3, ActivateAppends
  <2>2. \A n \in 1 .. Revision : history'[n] = history[n]
    BY <1>1, <1>3, ActivateAppends
  <2>3. \A n \in 1 .. Revision : ReleaseOf(n)' = ReleaseOf(n)
    BY <2>2 DEF ReleaseOf
  <2> QED
    BY <1>1, <2>1, <2>3
<1> QED
  BY <1>2, <1>3

(* Revision numbers name releases.                                         *)
LEMMA ReleaseType ==
    ASSUME TypeOK, NEW n \in 1 .. Revision
    PROVE  ReleaseOf(n) \in Releases
<1>1. history \in Seq(Entries) /\ n \in 1 .. Len(history)
  BY Types DEF Revision
<1>2. history[n] \in Entries
  BY <1>1
<1> QED
  BY <1>2 DEF Entries, ReleaseOf

-----------------------------------------------------------------------------
(* The steps.                                                              *)

(* The invariant holds at the start: one release, no output, no process.   *)
LEMMA InitKeeps == Init => Inv
<1> SUFFICES ASSUME Init PROVE Inv
  OBVIOUS
<1> USE DEF Init, ServerInit, None
<1>1. history \in Seq(Entries) /\ Revision = 1
  BY ReleasesAssumption DEF Entries, Revision
<1>2. TypeOK
  <2>1. edge \in EdgeTypes
    BY DEF EdgeOff, EdgeTypes, Loads, Nothing
  <2>2. sup \in SupTypes
    BY DEF AtRest, SupTypes
  <2> QED
    BY <1>1, <2>1, <2>2, Types, ReleasesAssumption, BoundsAssumption DEF NoJournal
<1>3. Numbered /\ Served
  BY <1>1 DEF Numbered, Served, AtRest, Underway
<1>4. OutputsOfOneRevision /\ Journaled /\ Unproven /\ ReceiptIsTrue
  BY DEF OutputsOfOneRevision, Recovered, Journaled, Unproven, ReceiptIsTrue, AtRest, Scenes
<1> QED
  BY <1>2, <1>3, <1>4 DEF Inv

(* The operator changes the store and nothing the supervisor relies on:    *)
(* revisions keep their releases.                                          *)
LEMMA OperatorKeeps ==
    ASSUME Inv, OperatorStep, UNCHANGED edge
    PROVE  Inv'
<1>1. PICK release \in Releases : Promote(release) \/ Rollback(release)
  BY DEF OperatorStep
<1>2. /\ UNCHANGED <<outputs, journal, receipt, process, sup>>
      /\ \/ Activate("promote", release)
         \/ Activate("rollback", release)
      /\ known' \subseteq Releases
      /\ events' \in 0 .. MaxEvents
  BY <1>1, Types, BoundsAssumption DEF Inv, Promote, Rollback, files, Event
<1>3. /\ history' \in Seq(Entries)
      /\ Revision \in Nat /\ Revision' \in Nat /\ Revision' >= Revision
      /\ \A n \in 1 .. Revision : ReleaseOf(n)' = ReleaseOf(n)
  BY <1>2, HistoryGrows DEF Inv
<1>4. TypeOK'
  BY <1>2, <1>3, Types DEF Inv, TypeOK, ServerTypeOK, Entries
<1>5. sup.cand \in Nat /\ sup.prev \in Nat /\ sup.applied \in Nat
  BY Types DEF Inv, SupTypes
<1>6. Numbered'
  BY <1>2, <1>3, <1>5 DEF Inv, Numbered
<1>7. Served'
  BY <1>2, <1>3, <1>5 DEF Inv, Numbered, Served, Underway, None
<1>8. (OutputsOfOneRevision /\ Journaled /\ Unproven /\ ReceiptIsTrue)'
  BY <1>2 DEF Inv, OutputsOfOneRevision, Recovered, Journaled, Unproven, ReceiptIsTrue
<1> QED
  BY <1>4, <1>6, <1>7, <1>8 DEF Inv

(* A step that leaves the store alone leaves what revisions mean alone.    *)
LEMMA StoreStays ==
    ASSUME UNCHANGED <<history, known>>
    PROVE  /\ Revision' = Revision /\ Active' = Active
           /\ \A n : ReleaseOf(n)' = ReleaseOf(n)
BY DEF Revision, Active, ReleaseOf

(* The supervisor takes a candidate, verifies it, finds it started, or     *)
(* turns to the latest one: only its own state changes.                    *)
LEMMA DeciderKeeps ==
    ASSUME Inv, Apply \/ Verify \/ Started \/ Latest, UNCHANGED edge
    PROVE  Inv'
<1> USE DEF None
<1>1. UNCHANGED <<history, known, outputs, journal, receipt, process>> /\ events' \in 0 .. MaxEvents
  BY Types, BoundsAssumption DEF Inv, Apply, Verify, Started, Latest, store, files, Event
<1>2. /\ Revision \in Nat /\ Revision' = Revision
      /\ \A n : ReleaseOf(n)' = ReleaseOf(n)
  BY <1>1, StoreStays, Types DEF Inv, Revision
<1>3. sup \in SupTypes
  BY Types DEF Inv
<1>4. /\ sup' \in SupTypes
      /\ sup'.applied = sup.applied
      /\ sup'.prev \in {None, sup.prev, sup.applied}
      /\ sup'.cand \in {None, sup.cand, Revision}
      /\ sup'.pc \in Underway => sup'.cand # None
      /\ sup.pc \in {"idle", "verify", "started", "latest"}
      /\ sup'.pc \in {"idle", "verify", "launch", "failed"}
  <2> USE <1>3 DEF SupTypes, Underway
  <2>1. Revision # None /\ (sup.pc \in Underway => sup.cand # None)
    BY <1>2 DEF Inv, Numbered
  <2>2. CASE Apply
    BY <1>2, <2>1, <2>2 DEF Apply
  <2>3. CASE Verify
    BY <2>1, <2>3 DEF Verify, Goto
  <2>4. CASE Started
    BY <2>1, <2>4 DEF Started, Goto, Return, AtRest
  <2>5. CASE Latest
    <3>1. sup.pc = "latest" /\ (Fallback(Revision) \/ Return)
      BY <2>5 DEF Latest
    <3>2. CASE Fallback(Revision)
      BY <1>2, <2>1, <3>1, <3>2 DEF Fallback
    <3>3. CASE Return
      BY <3>1, <3>3 DEF Return, AtRest
    <3> QED
      BY <3>1, <3>2, <3>3
  <2> QED
    BY <2>2, <2>3, <2>4, <2>5
<1>5. TypeOK'
  BY <1>1, <1>4, Types DEF Inv, TypeOK, ServerTypeOK, SupTypes
<1>6. Numbered'
  BY <1>2, <1>3, <1>4 DEF Inv, Numbered, SupTypes
<1>7. Served'
  BY <1>2, <1>4 DEF Inv, Served
<1>8. /\ sup.pc \notin {"gate", "publish", "write", "receipt", "off"}
      /\ sup'.pc \notin {"gate", "publish", "write", "receipt", "off"}
  BY <1>4
<1>9. (OutputsOfOneRevision /\ Journaled /\ Unproven /\ ReceiptIsTrue)'
  BY <1>1, <1>8 DEF Inv, OutputsOfOneRevision, Recovered, Journaled, Unproven, ReceiptIsTrue
<1> QED
  BY <1>5, <1>6, <1>7, <1>9 DEF Inv

(* What a start leaves of the supervisor when it is given up.              *)
LEMMA AbandonLeaves ==
    ASSUME Inv, Abandon, sup.pc \in Underway
    PROVE  /\ sup' \in SupTypes
           /\ sup'.pc \in {"failed", "idle"}
           /\ sup'.prev \in {None, sup.prev} /\ sup'.cand \in {None, sup.cand}
           /\ sup'.applied = sup.applied
           /\ sup'.pc = "failed" => sup'.cand = sup.cand
BY Types DEF Inv, SupTypes, Abandon, Goto, Return, AtRest, None, Underway

(* The candidate is given up without a word in the store: whatever the     *)
(* outputs are, there is no receipt and no process.                        *)
LEMMA GiveUpKeeps ==
    ASSUME Inv, GiveUp, sup.pc \in {"gate", "publish", "write", "receipt"},
           UNCHANGED <<history, known, receipt, edge>>,
           Recover \/ UNCHANGED <<outputs, journal>>, events' \in 0 .. MaxEvents
    PROVE  Inv'
<1> USE DEF None
<1>1. receipt' = None /\ process' = None
  BY DEF Inv, Unproven, GiveUp
<1>2. /\ sup \in SupTypes /\ sup' \in SupTypes /\ sup'.pc \in {"failed", "idle"}
      /\ sup'.prev \in {None, sup.prev} /\ sup'.cand \in {None, sup.cand}
      /\ sup'.applied = sup.applied
      /\ sup'.pc = "failed" => sup'.cand = sup.cand
      /\ sup.pc \in Underway
  BY AbandonLeaves, Types DEF GiveUp, Underway, Inv
<1>3. /\ Revision \in Nat /\ Revision' = Revision
      /\ \A n : ReleaseOf(n)' = ReleaseOf(n)
  BY StoreStays, Types DEF Inv, Revision
<1>4. /\ outputs' \in [Scenes -> Nat]
      /\ journal' \in [Scenes -> Nat] \cup {NoJournal}
      /\ OutputsOfOneRevision'
  BY Types DEF Inv, Recover, OutputsOfOneRevision, Recovered
<1>5. TypeOK'
  BY <1>1, <1>2, <1>4, Types DEF Inv, TypeOK, ServerTypeOK, SupTypes
<1>6. Numbered'
  BY <1>2, <1>3 DEF Inv, Numbered, SupTypes, Underway
<1>7. Served'
  BY <1>2, <1>3 DEF Inv, Served, SupTypes
<1>8. (Journaled /\ Unproven /\ ReceiptIsTrue)'
  BY <1>1, <1>2 DEF Journaled, Unproven, ReceiptIsTrue
<1> QED
  BY <1>4, <1>5, <1>6, <1>7, <1>8 DEF Inv

(* The launch: the receipt goes before anything else changes.              *)
LEMMA LaunchKeeps ==
    ASSUME Inv, Launch, UNCHANGED edge
    PROVE  Inv'
<1> USE DEF None
<1>1. /\ UNCHANGED <<history, known, outputs, journal>> /\ events' \in 0 .. MaxEvents
      /\ sup.pc = "launch" /\ sup \in SupTypes /\ receipt \in Nat /\ process \in Nat
  BY Types, BoundsAssumption DEF Inv, Launch, store, Event
<1>2. /\ Revision \in Nat /\ Revision' = Revision
      /\ \A n : ReleaseOf(n)' = ReleaseOf(n)
  BY <1>1, StoreStays, Types DEF Inv, Revision
<1>3. CASE process' = sup.cand /\ receipt' = None /\ Goto("gate")
  <2>1. /\ sup' \in SupTypes /\ sup'.pc = "gate"
        /\ sup'.cand = sup.cand /\ sup'.prev = sup.prev /\ sup'.applied = sup.applied
    BY <1>1, <1>3 DEF Goto, SupTypes
  <2>2. TypeOK'
    BY <1>1, <1>3, <2>1, Types DEF Inv, TypeOK, ServerTypeOK, SupTypes
  <2>3. Numbered' /\ Served'
    BY <1>1, <1>2, <2>1 DEF Inv, Numbered, Served, Underway
  <2>4. (OutputsOfOneRevision /\ Journaled /\ Unproven /\ ReceiptIsTrue)'
    BY <1>1, <1>3, <2>1 DEF Inv, OutputsOfOneRevision, Recovered, Journaled, Unproven, ReceiptIsTrue
  <2> QED
    BY <2>2, <2>3, <2>4 DEF Inv
<1>4. CASE process' \in {process, None} /\ Abandon /\ UNCHANGED receipt
  <2>1. /\ sup' \in SupTypes /\ sup'.pc \in {"failed", "idle"}
        /\ sup'.prev \in {None, sup.prev} /\ sup'.cand \in {None, sup.cand}
        /\ sup'.applied = sup.applied
        /\ sup'.pc = "failed" => sup'.cand = sup.cand
    BY <1>1, <1>4, AbandonLeaves DEF Underway
  <2>2. TypeOK'
    BY <1>1, <1>4, <2>1, Types DEF Inv, TypeOK, ServerTypeOK, SupTypes
  <2>3. Numbered' /\ Served'
    BY <1>1, <1>2, <2>1 DEF Inv, Numbered, Served, Underway, SupTypes
  <2>4. (OutputsOfOneRevision /\ Journaled /\ Unproven /\ ReceiptIsTrue)'
    BY <1>1, <1>4, <2>1 DEF Inv, OutputsOfOneRevision, Recovered, Journaled, Unproven, ReceiptIsTrue
  <2> QED
    BY <2>2, <2>3, <2>4 DEF Inv
<1> QED
  BY <1>3, <1>4 DEF Launch

(* A start that goes on: past the gate, through the outputs, to the        *)
(* receipt, which is written when server and outputs are there.            *)
LEMMA StartKeeps ==
    ASSUME Inv, Gate \/ BeginPublish \/ WriteOutput \/ Commit \/ PublishReceipt, UNCHANGED edge
    PROVE  Inv'
<1> USE DEF None
<1>1. /\ UNCHANGED <<history, known>> /\ events' \in 0 .. MaxEvents
      /\ sup.pc \in {"gate", "publish", "write", "receipt"} /\ sup \in SupTypes
      /\ outputs \in [Scenes -> Nat] /\ receipt = None /\ process \in {None, sup.cand}
      /\ sup.cand # None /\ sup.cand \in Nat
  <2>1. /\ UNCHANGED <<history, known>> /\ events' \in 0 .. MaxEvents
        /\ sup.pc \in {"gate", "publish", "write", "receipt"}
    BY Types, BoundsAssumption
       DEF Inv, Gate, BeginPublish, WriteOutput, Commit, PublishReceipt, store, Event
  <2> QED
    BY <2>1, Types DEF Inv, Unproven, Numbered, Underway, SupTypes
<1>2. /\ Revision \in Nat /\ Revision' = Revision
      /\ \A n : ReleaseOf(n)' = ReleaseOf(n)
  BY <1>1, StoreStays, Types DEF Inv, Revision
<1>3. CASE /\ GiveUp /\ UNCHANGED receipt
           /\ Recover \/ UNCHANGED <<outputs, journal>>
  BY <1>1, <1>3, GiveUpKeeps
<1>4. CASE /\ Goto("publish") /\ sup.pc = "gate" /\ ReleaseOf(sup.cand) \notin Broken
           /\ UNCHANGED <<outputs, journal, receipt, process>>
  <2>1. /\ sup' \in SupTypes /\ sup'.pc = "publish"
        /\ sup'.cand = sup.cand /\ sup'.prev = sup.prev /\ sup'.applied = sup.applied
    BY <1>1, <1>4 DEF Goto, SupTypes
  <2>2. TypeOK'
    BY <1>1, <1>4, <2>1, Types DEF Inv, TypeOK, ServerTypeOK, SupTypes
  <2>3. Numbered' /\ Served'
    BY <1>1, <1>2, <1>4, <2>1 DEF Inv, Numbered, Served
  <2>4. (OutputsOfOneRevision /\ Journaled /\ Unproven /\ ReceiptIsTrue)'
    BY <1>1, <1>4, <2>1 DEF Inv, OutputsOfOneRevision, Recovered, Journaled, Unproven, ReceiptIsTrue
  <2> QED
    BY <2>2, <2>3, <2>4 DEF Inv
<1>5. CASE journal # NoJournal /\ Recover /\ sup.pc = "publish" /\ UNCHANGED <<receipt, process, sup>>
  <2>1. /\ outputs' \in [Scenes -> Nat] /\ journal' = NoJournal /\ OutputsOfOneRevision'
    BY <1>5, Types DEF Inv, Recover, OutputsOfOneRevision, Recovered
  <2>2. TypeOK'
    BY <1>1, <1>5, <2>1, Types DEF Inv, TypeOK, ServerTypeOK, SupTypes
  <2>3. Numbered' /\ Served'
    BY <1>1, <1>2, <1>5 DEF Inv, Numbered, Served
  <2>4. (Journaled /\ Unproven /\ ReceiptIsTrue)'
    BY <1>1, <1>5, <2>1 DEF Inv, Journaled, Unproven, ReceiptIsTrue
  <2> QED
    BY <2>1, <2>2, <2>3, <2>4 DEF Inv
<1>6. CASE /\ sup.pc = "publish" /\ journal = NoJournal /\ journal' = outputs /\ Goto("write")
           /\ UNCHANGED <<outputs, receipt, process>>
  <2>1. /\ sup' \in SupTypes /\ sup'.pc = "write"
        /\ sup'.cand = sup.cand /\ sup'.prev = sup.prev /\ sup'.applied = sup.applied
    BY <1>1, <1>6 DEF Goto, SupTypes
  <2>2. journal' # NoJournal
    <3>1. outputs["traffic"] \in Nat
      BY <1>1 DEF Scenes
    <3>2. NoJournal["traffic"] = -1
      BY DEF NoJournal, Scenes
    <3> QED
      BY <1>6, <3>1, <3>2
  <2>3. TypeOK'
    BY <1>1, <1>6, <2>1, Types DEF Inv, TypeOK, ServerTypeOK, SupTypes
  <2>4. Numbered' /\ Served'
    BY <1>1, <1>2, <1>6, <2>1 DEF Inv, Numbered, Served, Underway
  <2>5. (OutputsOfOneRevision /\ Journaled /\ Unproven /\ ReceiptIsTrue)'
    BY <1>1, <1>6, <2>1, <2>2 DEF Inv, OutputsOfOneRevision, Recovered, Journaled, Unproven, ReceiptIsTrue
  <2> QED
    BY <2>3, <2>4, <2>5 DEF Inv
<1>7. CASE /\ sup.pc = "write" /\ UNCHANGED <<journal, receipt, process, sup>>
           /\ \E s \in Scenes : outputs' = [outputs EXCEPT ![s] = sup.cand]
  <2>1. outputs' \in [Scenes -> Nat]
    BY <1>1, <1>7
  <2>2. TypeOK'
    BY <1>1, <1>7, <2>1, Types DEF Inv, TypeOK, ServerTypeOK, SupTypes
  <2>3. Numbered' /\ Served'
    BY <1>1, <1>2, <1>7 DEF Inv, Numbered, Served
  <2>4. (OutputsOfOneRevision /\ Journaled /\ Unproven /\ ReceiptIsTrue)'
    BY <1>1, <1>7 DEF Inv, OutputsOfOneRevision, Recovered, Journaled, Unproven, ReceiptIsTrue
  <2> QED
    BY <2>2, <2>3, <2>4 DEF Inv
<1>8. CASE Commit
  <2>1. /\ sup' \in SupTypes /\ sup'.pc = "receipt" /\ sup.pc = "write"
        /\ sup'.cand = sup.cand /\ sup'.prev = sup.prev /\ sup'.applied = sup.applied
        /\ journal' = NoJournal /\ UNCHANGED <<outputs, receipt, process>>
    BY <1>1, <1>8 DEF Commit, Goto, SupTypes
  <2>2. \A s \in Scenes : outputs[s] = sup.cand
    BY <1>8 DEF Commit, Pending
  <2>3. TypeOK'
    BY <1>1, <2>1, Types DEF Inv, TypeOK, ServerTypeOK, SupTypes
  <2>4. Numbered' /\ Served'
    BY <1>1, <1>2, <2>1 DEF Inv, Numbered, Served, Underway
  <2>5. (OutputsOfOneRevision /\ Journaled /\ Unproven /\ ReceiptIsTrue)'
    BY <1>1, <2>1, <2>2 DEF OutputsOfOneRevision, Recovered, Journaled, Unproven, ReceiptIsTrue, Scenes
  <2> QED
    BY <2>3, <2>4, <2>5 DEF Inv
<1>9. CASE /\ sup.pc = "receipt" /\ receipt' = sup.cand
           /\ sup' = IF sup.mode = "apply"
                     THEN [sup EXCEPT !.applied = sup.cand, !.pc = "started"]
                     ELSE AtRest("idle", sup.cand)
           /\ UNCHANGED <<outputs, journal, process>>
  <2>1. /\ sup' \in SupTypes /\ sup'.pc \in {"started", "idle"} /\ sup'.applied = sup.cand
        /\ sup'.prev \in {None, sup.prev} /\ sup'.cand \in {None, sup.cand}
        /\ sup'.pc = "started" => sup'.cand = sup.cand
    BY <1>1, <1>9 DEF SupTypes, AtRest
  <2>2. TypeOK'
    BY <1>1, <1>9, <2>1, Types DEF Inv, TypeOK, ServerTypeOK, SupTypes
  <2>3. Numbered' /\ Served'
    BY <1>1, <1>2, <1>9, <2>1 DEF Inv, Numbered, Served, Underway
  <2>4. (OutputsOfOneRevision /\ Journaled /\ Unproven /\ ReceiptIsTrue)'
    BY <1>1, <1>9, <2>1 DEF Inv, OutputsOfOneRevision, Recovered, Journaled, Unproven, ReceiptIsTrue
  <2> QED
    BY <2>2, <2>3, <2>4 DEF Inv
<1>10. CASE Gate
  BY <1>3, <1>4, <1>10 DEF Gate, files
<1>11. CASE BeginPublish
  BY <1>3, <1>5, <1>6, <1>11 DEF BeginPublish
<1>12. CASE WriteOutput
  BY <1>3, <1>7, <1>12 DEF WriteOutput, Pending
<1>13. CASE PublishReceipt
  BY <1>3, <1>9, <1>13 DEF PublishReceipt
<1> QED
  BY <1>8, <1>10, <1>11, <1>12, <1>13

(* A start of something to fall back to.                                   *)
LEMMA FallbackTypes ==
    ASSUME sup \in SupTypes, NEW n \in Nat, Fallback(n)
    PROVE  /\ sup' \in SupTypes /\ sup'.pc = "launch" /\ sup'.cand = n
           /\ sup'.prev = sup.prev /\ sup'.applied = sup.applied
BY DEF Fallback, SupTypes

(* A failback appends one revision, and only when the active one is its    *)
(* candidate; otherwise the store stays.                                   *)
LEMMA FailbackActivates ==
    ASSUME Inv, Failback
    PROVE  \/ /\ StillActive /\ ReleaseOf(sup.prev) \in Releases \ Broken
              /\ Activate("failback", ReleaseOf(sup.prev))
              /\ Fallback(Revision + 1)
           \/ /\ UNCHANGED history
              /\ Goto("latest") \/ Fallback(sup.prev)
<1> USE DEF None
<1>1. sup.prev # None /\ sup.prev \in Nat /\ sup.prev <= Revision /\ Revision \in Nat
  BY Types DEF Inv, Numbered, SupTypes, Revision, Failback
<1>2. ReleaseOf(sup.prev) \in Releases
  BY <1>1, ReleaseType DEF Inv
<1>3. ReleaseOf(sup.prev) \notin Broken
  BY <1>1 DEF Inv, Served
<1> QED
  BY <1>2, <1>3 DEF Failback

(* The store or the supervisor moves on from a failed start.               *)
LEMMA FailbackKeeps ==
    ASSUME Inv, Failback, UNCHANGED edge
    PROVE  Inv'
<1> USE DEF None
<1>1. /\ UNCHANGED <<known, outputs, journal, receipt, process>> /\ events' \in 0 .. MaxEvents
      /\ sup.pc = "failed" /\ sup \in SupTypes /\ sup.prev # None
  BY Types, BoundsAssumption DEF Inv, Failback, files, Event
<1>2. /\ history' \in Seq(Entries)
      /\ Revision \in Nat /\ Revision' \in Nat /\ Revision' >= Revision
      /\ \A n \in 1 .. Revision : ReleaseOf(n)' = ReleaseOf(n)
  BY FailbackActivates, HistoryGrows DEF Inv
<1>3. /\ sup' \in SupTypes
      /\ sup'.applied = sup.applied /\ sup'.prev = sup.prev
      /\ sup'.pc \in {"launch", "latest"}
      /\ sup'.cand # None /\ sup'.cand <= Revision'
  <2>1. sup.cand # None /\ sup.cand <= Revision /\ sup.prev <= Revision
    BY <1>1 DEF Inv, Numbered, Underway
  <2>2. CASE Activate("failback", ReleaseOf(sup.prev)) /\ ReleaseOf(sup.prev) \in Releases /\ Fallback(Revision + 1)
    <3>1. Revision' = Revision + 1
      BY <2>2, ActivateAppends, Types DEF Inv
    <3>2. Revision + 1 \in Nat /\ Revision + 1 # None
      BY <1>2
    <3> QED
      BY <1>1, <2>2, <3>1, <3>2, FallbackTypes
  <2>3. CASE Goto("latest")
    BY <1>1, <1>2, <2>1, <2>3 DEF Goto, SupTypes
  <2>4. CASE Fallback(sup.prev)
    <3>1. sup.prev \in Nat /\ sup.prev <= Revision'
      BY <1>1, <1>2, <2>1 DEF SupTypes
    <3> QED
      BY <1>1, <2>4, <3>1, FallbackTypes
  <2> QED
    BY <2>2, <2>3, <2>4, FailbackActivates
<1>4. TypeOK'
  BY <1>1, <1>2, <1>3, Types DEF Inv, TypeOK, ServerTypeOK, SupTypes, Entries
<1>5. Numbered'
  BY <1>1, <1>2, <1>3 DEF Inv, Numbered, SupTypes
<1>6. Served'
  BY <1>1, <1>2, <1>3 DEF Inv, Numbered, Served, SupTypes
<1>7. (OutputsOfOneRevision /\ Journaled /\ Unproven /\ ReceiptIsTrue)'
  BY <1>1, <1>3 DEF Inv, OutputsOfOneRevision, Recovered, Journaled, Unproven, ReceiptIsTrue
<1> QED
  BY <1>4, <1>5, <1>6, <1>7 DEF Inv

(* The node starts, loses its server, or stops altogether.                 *)
LEMMA NodeKeeps ==
    ASSUME Inv, \/ (StartNode \/ ProcessDies) /\ UNCHANGED edge
                \/ NodeStops \/ FirstLoadFails
    PROVE  Inv'
<1> USE DEF None
<1>1. UNCHANGED <<history, known>> /\ events' \in 0 .. MaxEvents /\ sup \in SupTypes
  BY Types, BoundsAssumption DEF Inv, StartNode, ProcessDies, NodeStops, FirstApplyFails,
        Crash, FirstLoadFails, StopNode, store, Event
<1>2. /\ Revision \in Nat /\ Revision' = Revision
      /\ \A n : ReleaseOf(n)' = ReleaseOf(n)
  BY <1>1, StoreStays, Types DEF Inv, Revision
<1>3. edge' \in EdgeTypes
  <2>1. EdgeOff \in EdgeTypes
    BY DEF EdgeOff, EdgeTypes, Loads, Nothing
  <2>2. edge' = edge \/ edge' = EdgeOff
    BY DEF NodeStops, FirstLoadFails
  <2> QED
    BY <2>1, <2>2, Types DEF Inv
<1>4. CASE StartNode
  <2>1. /\ outputs' \in [Scenes -> Nat] /\ journal' = NoJournal /\ OutputsOfOneRevision'
        /\ receipt' = None /\ process' = process
    BY <1>4, Types DEF Inv, StartNode, Recover, OutputsOfOneRevision, Recovered
  <2>2. /\ sup' \in SupTypes /\ sup'.pc = "idle"
        /\ sup'.applied = None /\ sup'.cand = None /\ sup'.prev = None
    BY <1>4 DEF StartNode, AtRest, SupTypes
  <2>3. TypeOK'
    BY <1>1, <1>3, <2>1, <2>2, Types DEF Inv, TypeOK, ServerTypeOK, SupTypes, EdgeTypes, Loads
  <2>4. Numbered' /\ Served'
    BY <1>2, <2>2 DEF Inv, Numbered, Served, Underway
  <2>5. (Journaled /\ Unproven /\ ReceiptIsTrue)'
    BY <2>1, <2>2 DEF Journaled, Unproven, ReceiptIsTrue
  <2> QED
    BY <2>1, <2>3, <2>4, <2>5 DEF Inv
<1>5. CASE ProcessDies
  <2>1. UNCHANGED <<outputs, journal, receipt, sup>> /\ process' = None
    BY <1>5 DEF ProcessDies, files
  <2>2. TypeOK'
    BY <1>1, <1>3, <2>1, Types DEF Inv, TypeOK, ServerTypeOK, SupTypes, EdgeTypes, Loads
  <2>3. Numbered' /\ Served'
    BY <1>2, <2>1 DEF Inv, Numbered, Served
  <2>4. (OutputsOfOneRevision /\ Journaled /\ Unproven /\ ReceiptIsTrue)'
    BY <2>1 DEF Inv, OutputsOfOneRevision, Recovered, Journaled, Unproven, ReceiptIsTrue
  <2> QED
    BY <2>2, <2>3, <2>4 DEF Inv
<1>6. CASE StopNode
  <2>1. UNCHANGED <<outputs, journal, receipt>> /\ process' = None
    BY <1>6 DEF StopNode, files
  <2>2. /\ sup' \in SupTypes /\ sup'.pc = "off"
        /\ sup'.applied = None /\ sup'.cand = None /\ sup'.prev = None
    BY <1>6 DEF StopNode, AtRest, SupTypes
  <2>3. TypeOK'
    BY <1>1, <1>3, <2>1, <2>2, Types DEF Inv, TypeOK, ServerTypeOK, SupTypes, EdgeTypes, Loads
  <2>4. Numbered' /\ Served'
    BY <1>2, <2>2 DEF Inv, Numbered, Served, Underway
  <2>5. (OutputsOfOneRevision /\ Journaled /\ Unproven /\ ReceiptIsTrue)'
    BY <2>1, <2>2 DEF Inv, OutputsOfOneRevision, Recovered, Journaled, Unproven, ReceiptIsTrue
  <2> QED
    BY <2>3, <2>4, <2>5 DEF Inv
<1> QED
  BY <1>4, <1>5, <1>6 DEF NodeStops, FirstApplyFails, Crash, FirstLoadFails

(* A reload that ends leaves plugins it has, or those it has just read.    *)
LEMMA WatchingTypes ==
    ASSUME NEW plugins \in Loads, NEW applied \in Nat, NEW reloaded \in BOOLEAN,
           Watching(plugins, applied, reloaded)
    PROVE  edge' \in EdgeTypes
BY DEF Watching, EdgeOff, EdgeTypes, Loads, Nothing, None, Scenes

(* The edge service reads the node and changes nothing of it.              *)
LEMMA EdgeKeeps ==
    ASSUME Inv, EdgeStep
    PROVE  Inv'
<1>1. /\ UNCHANGED server
      /\ edge \in EdgeTypes /\ edge.next \in Loads /\ edge.plugins \in Loads
      /\ Revision \in Nat /\ outputs \in [Scenes -> Nat]
  <2>1. UNCHANGED server
    BY DEF EdgeStep, StartEdge, LoadIndustrial, ReadRelease, ReadRuntime, LoadModel,
           Construct, Notice, Check, Install
  <2> QED
    BY <2>1, Types DEF Inv, EdgeTypes, Revision
<1>2. edge' \in EdgeTypes
  <2> USE <1>1
  <2>1. CASE StartEdge
    BY <2>1 DEF StartEdge, EdgeGoto, EdgeTypes
  <2>2. CASE LoadIndustrial
    BY <2>2 DEF LoadIndustrial, EdgeTypes, Loads, Scenes
  <2>3. CASE ReadRelease
    BY <2>3 DEF ReadRelease, EdgeTypes, Loads
  <2>4. CASE ReadRuntime \/ Check
    <3>1. CASE ReloadFails
      BY <3>1, WatchingTypes DEF ReloadFails, EdgeTypes
    <3>2. CASE EdgeGoto("model") \/ EdgeGoto("industrial")
      BY <3>2 DEF EdgeGoto, EdgeTypes
    <3> QED
      BY <2>4, <3>1, <3>2 DEF ReadRuntime, Check
  <2>5. CASE LoadModel
    BY <2>5 DEF LoadModel, EdgeTypes, Loads, Scenes
  <2>6. CASE Construct \/ Install
    BY <2>6, WatchingTypes DEF Construct, Install, EdgeTypes
  <2>7. CASE Notice
    BY <2>7 DEF Notice, EdgeTypes
  <2> QED
    BY <2>1, <2>2, <2>3, <2>4, <2>5, <2>6, <2>7 DEF EdgeStep
<1>3. TypeOK'
  BY <1>1, <1>2, Types DEF Inv, TypeOK, ServerTypeOK, EdgeTypes, Loads, server
<1>4. (Numbered /\ Served)'
  BY <1>1, StoreStays DEF Inv, Numbered, Served, server
<1>5. (OutputsOfOneRevision /\ Journaled /\ Unproven /\ ReceiptIsTrue)'
  BY <1>1 DEF Inv, OutputsOfOneRevision, Recovered, Journaled, Unproven, ReceiptIsTrue, server
<1> QED
  BY <1>3, <1>4, <1>5 DEF Inv

(* No step leaves the invariant.                                           *)
LEMMA NextKeeps ==
    ASSUME Inv, [Next]_vars
    PROVE  Inv'
<1>1. CASE UNCHANGED vars
  <2>1. TypeOK'
    BY <1>1 DEF vars, server, Inv, TypeOK, ServerTypeOK
  <2>2. Numbered' /\ Served'
    BY <1>1, StoreStays DEF vars, server, Inv, Numbered, Served
  <2>3. (OutputsOfOneRevision /\ Journaled /\ Unproven /\ ReceiptIsTrue)'
    BY <1>1 DEF vars, server, Inv, OutputsOfOneRevision, Recovered, Journaled, Unproven, ReceiptIsTrue
  <2> QED
    BY <2>1, <2>2, <2>3 DEF Inv
<1>2. CASE Next
  BY <1>2, OperatorKeeps, DeciderKeeps, LaunchKeeps, StartKeeps, FailbackKeeps, NodeKeeps, EdgeKeeps
     DEF Next, SupervisorStep
<1> QED
  BY <1>1, <1>2

LEMMA Invariance == Spec => []Inv
<1>1. Init => Inv
  BY InitKeeps
<1>2. Inv /\ [Next]_vars => Inv'
  BY NextKeeps
<1> QED
  BY <1>1, <1>2, PTL DEF Spec

-----------------------------------------------------------------------------
(* The results.                                                            *)

(* Every variable of the node keeps its type (ReleaseStore,                *)
(* ActiveReleaseLlamaServer, EdgeLLMReleaseWatcher).                       *)
THEOREM TypesHold == Spec => []TypeOK
<1>1. Inv => TypeOK
  BY DEF Inv
<1> QED
  BY <1>1, Invariance, PTL

(* The two runtime outputs are of one revision, or the journal can make    *)
(* them so, whatever fails while they are replaced                         *)
(* (_publish_runtime_outputs, _recover_runtime_output_transaction).        *)
THEOREM OutputsAgree == Spec => []OutputsOfOneRevision
<1>1. Inv => OutputsOfOneRevision
  BY DEF Inv
<1> QED
  BY <1>1, Invariance, PTL

(* As long as there is a receipt, the outputs and the server it vouches    *)
(* for are the ones in place (_start_record).                              *)
THEOREM ReceiptStaysTrue == Spec => []ReceiptIsTrue
<1>1. Inv => ReceiptIsTrue
  BY DEF Inv
<1> QED
  BY <1>1, Invariance, PTL

(* A failback undoes the activation that failed and no other one, and goes *)
(* back to a release that has been served (apply_current,                  *)
(* rollback_if_active).                                                    *)
THEOREM FailbacksAreJust == Spec => FailbackUndoesItsCandidate
<1>1. ASSUME Inv, [Next]_vars,
             Len(history') > Revision, history'[Revision + 1].action = "failback"
      PROVE  sup.cand = Revision /\ history'[Revision + 1].to \notin Broken
  <2>1. history \in Seq(Entries) /\ Revision \in Nat /\ Revision = Len(history)
    BY <1>1, Types DEF Inv, Revision
  <2>2. Next /\ ~UNCHANGED history
    BY <1>1, <2>1 DEF vars, server
  <2>3. ASSUME NEW action \in {"promote", "rollback"}, NEW release \in Releases,
               Activate(action, release)
        PROVE  FALSE
    <3>1. history'[Revision + 1] = [action |-> action, to |-> release]
      BY <2>1, <2>3, ActivateAppends
    <3> QED
      BY <1>1, <2>3, <3>1
  <2>4. ~OperatorStep
    BY <2>3 DEF OperatorStep, Promote, Rollback
  <2>5. Failback
    BY <2>2, <2>4 DEF Next, SupervisorStep, Apply, Verify, Launch, Gate, BeginPublish,
          WriteOutput, Commit, PublishReceipt, Started, Latest, StartNode, ProcessDies,
          NodeStops, FirstApplyFails, Crash, FirstLoadFails, StopNode, EdgeStep, StartEdge,
          LoadIndustrial, ReadRelease, ReadRuntime, LoadModel, Construct, Notice, Check,
          Install, store, server
  <2>6. /\ StillActive /\ ReleaseOf(sup.prev) \in Releases \ Broken
        /\ Activate("failback", ReleaseOf(sup.prev))
    BY <1>1, <2>2, <2>5, FailbackActivates
  <2>7. history'[Revision + 1] = [action |-> "failback", to |-> ReleaseOf(sup.prev)]
    BY <2>1, <2>6, ActivateAppends
  <2> QED
    BY <2>6, <2>7 DEF StillActive
<1> QED
  BY <1>1, Invariance, PTL DEF Spec, FailbackUndoesItsCandidate

-----------------------------------------------------------------------------
(* The refinement: readers see whole pairs of outputs.                     *)

(* A recovery, and the beginning of a publication, change what lies in the *)
(* files and nothing of what a recovery makes of them.                     *)
LEMMA RecoveryIsInvisible ==
    ASSUME TypeOK, \/ Recover
                   \/ journal = NoJournal /\ journal' = outputs /\ UNCHANGED outputs
                   \/ UNCHANGED <<outputs, journal>>
    PROVE  Recovered' = Recovered
<1>1. CASE journal = NoJournal /\ journal' = outputs /\ UNCHANGED outputs
  <2>1. outputs # NoJournal
    <3>1. outputs["traffic"] \in Nat /\ NoJournal["traffic"] = -1
      BY Types DEF Scenes, NoJournal
    <3> QED
      BY <3>1
  <2> QED
    BY <1>1, <2>1 DEF Recovered
<1> QED
  BY <1>1 DEF Recover, Recovered

(* Giving a candidate up stops the server, whatever becomes of the files.  *)
LEMMA GiveUpIsStop ==
    ASSUME Inv, GiveUp, UNCHANGED <<store, receipt>>,
           Recover \/ UNCHANGED <<outputs, journal>>
    PROVE  Certified!StopServer
BY RecoveryIsInvisible, StoreStays DEF Inv, GiveUp, store, Certified!StopServer

(* The store moves: a revision is added, and nothing else is to be seen.   *)
LEMMA StoreStepIsActivate ==
    ASSUME Inv, OperatorStep \/ (Failback /\ ~UNCHANGED history)
    PROVE  Certified!Activate
<1>1. history \in Seq(Entries) /\ UNCHANGED <<outputs, journal, receipt, process>>
  BY Types DEF Inv, OperatorStep, Promote, Rollback, Failback, files
<1>2. PICK action \in {"promote", "rollback", "failback"}, release \in Releases :
          Activate(action, release)
  BY FailbackActivates DEF OperatorStep, Promote, Rollback
<1>3. Revision' = Revision + 1
  BY <1>1, <1>2, ActivateAppends
<1> QED
  BY <1>1, <1>3 DEF Certified!Activate, Recovered

(* Deciding what to do, loading plugins and watching are not to be seen.   *)
LEMMA DecidingIsInvisible ==
    ASSUME Apply \/ Verify \/ Started \/ Latest \/ (Failback /\ UNCHANGED history) \/ EdgeStep
    PROVE  UNCHANGED <<Revision, Recovered, process, receipt>>
<1>1. UNCHANGED <<history, outputs, journal, process, receipt>>
  BY DEF Apply, Verify, Started, Latest, Failback, store, files, EdgeStep, StartEdge,
         LoadIndustrial, ReadRelease, ReadRuntime, LoadModel, Construct, Notice, Check,
         Install, server
<1> QED
  BY <1>1 DEF Revision, Recovered

(* The candidate of a start is a revision of the store.                    *)
LEMMA CandidateExists ==
    ASSUME Inv, sup.pc \in Underway
    PROVE  sup.cand \in 1 .. Revision
BY Types DEF Inv, Numbered, SupTypes, None, Revision

(* A start: the server replaces the old one as the receipt goes, the       *)
(* outputs change when the journal is removed, the receipt comes last.     *)
LEMMA StartIsCertified ==
    ASSUME Inv, Launch \/ Gate \/ BeginPublish \/ WriteOutput \/ Commit \/ PublishReceipt
    PROVE  Certified!ReleaseNext \/ UNCHANGED <<Revision, Recovered, process, receipt>>
<1> DEFINE Same == UNCHANGED <<Revision, Recovered, process, receipt>>
<1>1. /\ UNCHANGED store /\ Revision' = Revision /\ sup.cand \in 1 .. Revision
      /\ outputs \in [Scenes -> Nat] /\ TypeOK
  <2>1. UNCHANGED store /\ sup.pc \in Underway
    BY DEF Launch, Gate, BeginPublish, WriteOutput, Commit, PublishReceipt, Underway
  <2> QED
    BY <2>1, StoreStays, CandidateExists, Types DEF Inv, store
<1>2. ASSUME GiveUp, UNCHANGED receipt, Recover \/ UNCHANGED <<outputs, journal>>
      PROVE  Certified!ReleaseNext
  BY <1>1, <1>2, GiveUpIsStop DEF Certified!ReleaseNext
<1>3. CASE Launch
  <2>1. Recovered' = Recovered
    BY <1>3, RecoveryIsInvisible, <1>1 DEF Launch
  <2>2. CASE process' = sup.cand /\ receipt' = None
    BY <1>1, <2>1, <2>2 DEF Certified!ReleaseNext, Certified!StartServer
  <2>3. CASE process' \in {process, None} /\ UNCHANGED receipt
    BY <1>1, <2>1, <2>3 DEF Certified!ReleaseNext, Certified!StopServer
  <2> QED
    BY <1>3, <2>2, <2>3 DEF Launch
<1>4. CASE Gate
  <2>1. UNCHANGED <<outputs, journal, receipt>> /\ (GiveUp \/ UNCHANGED process)
    BY <1>4 DEF Gate, files
  <2> QED
    BY <1>1, <1>2, <2>1, RecoveryIsInvisible
<1>5. CASE BeginPublish
  <2>1. /\ UNCHANGED receipt
        /\ \/ GiveUp /\ UNCHANGED <<outputs, journal>>
           \/ /\ UNCHANGED process
              /\ Recover \/ (journal = NoJournal /\ journal' = outputs /\ UNCHANGED outputs)
    BY <1>5 DEF BeginPublish
  <2> QED
    BY <1>1, <1>2, <2>1, RecoveryIsInvisible
<1>6. CASE WriteOutput
  <2>1. journal # NoJournal /\ UNCHANGED receipt
    BY <1>6 DEF Inv, Journaled, WriteOutput
  <2>2. CASE UNCHANGED <<journal, process>>
    BY <1>1, <2>1, <2>2 DEF Recovered
  <2>3. CASE GiveUp /\ (Recover \/ UNCHANGED <<outputs, journal>>)
    BY <1>2, <2>1, <2>3
  <2> QED
    BY <1>6, <2>2, <2>3 DEF WriteOutput
<1>7. CASE Commit
  <2>1. receipt = None /\ process \in {None, sup.cand}
    BY <1>7 DEF Inv, Unproven, Commit
  <2>2. outputs = [s \in Scenes |-> sup.cand]
    BY <1>1, <1>7 DEF Commit, Pending
  <2>3. Recovered' = [s \in Scenes |-> sup.cand] /\ UNCHANGED <<process, receipt>>
    BY <1>7, <2>2 DEF Commit, Recovered
  <2>4. Certified!Switch(sup.cand)
    BY <1>1, <2>1, <2>3 DEF Certified!Switch, Certified!Alone, Certified!All
  <2> QED
    BY <1>1, <2>4 DEF Certified!ReleaseNext
<1>8. CASE PublishReceipt
  <2>1. CASE receipt' = sup.cand /\ UNCHANGED process
    <3>1. sup.pc = "receipt" /\ UNCHANGED <<outputs, journal>>
      BY <1>8 DEF PublishReceipt
    <3>2. /\ process \in {None, sup.cand} /\ journal = NoJournal
          /\ outputs = [s \in Scenes |-> sup.cand]
      BY <1>1, <3>1 DEF Inv, Unproven
    <3>3. Certified!Certify(sup.cand)
      BY <1>1, <2>1, <3>1, <3>2
         DEF Certified!Certify, Certified!Alone, Certified!All, Recovered
    <3> QED
      BY <1>1, <3>3 DEF Certified!ReleaseNext
  <2>2. CASE GiveUp /\ UNCHANGED receipt
    BY <1>2, <1>8, <2>2 DEF PublishReceipt
  <2> QED
    BY <1>8, <2>1, <2>2 DEF PublishReceipt
<1> QED
  BY <1>3, <1>4, <1>5, <1>6, <1>7, <1>8

(* The node starts by withdrawing the receipt; it stops with its server.   *)
LEMMA NodeIsCertified ==
    ASSUME Inv, StartNode \/ ProcessDies \/ NodeStops \/ FirstLoadFails
    PROVE  Certified!ReleaseNext
<1>1. UNCHANGED store /\ Revision' = Revision /\ TypeOK
  BY StoreStays DEF Inv, StartNode, ProcessDies, NodeStops, FirstApplyFails, Crash,
        FirstLoadFails, StopNode, store
<1>2. CASE StartNode
  <2>1. Certified!Withdraw
    BY <1>1, <1>2, RecoveryIsInvisible DEF StartNode, Certified!Withdraw
  <2> QED
    BY <2>1 DEF Certified!ReleaseNext
<1>3. CASE ProcessDies \/ NodeStops \/ FirstLoadFails
  <2>1. process' = None /\ UNCHANGED <<outputs, journal, receipt>>
    BY <1>3 DEF ProcessDies, NodeStops, FirstApplyFails, Crash, FirstLoadFails, StopNode, files
  <2>2. Certified!StopServer
    BY <1>1, <2>1, RecoveryIsInvisible DEF Certified!StopServer
  <2> QED
    BY <2>2 DEF Certified!ReleaseNext
<1> QED
  BY <1>2, <1>3

(* The node implements CertifiedRelease: whatever write, server, store or  *)
(* node fails between two of its steps, readers of its files find outputs  *)
(* that change together and a receipt that is true (_start_record,         *)
(* _publish_runtime_outputs, apply_current).                               *)
THEOREM ReleasesAreCertified == Spec => ImplementsCertifiedRelease
<1>1. ASSUME Init PROVE Certified!ReleaseInit
  <2>1. Revision = 1 /\ Recovered = [s \in Scenes |-> None]
    BY <1>1 DEF Init, ServerInit, Revision, Recovered
  <2> QED
    BY <1>1, <2>1 DEF Init, ServerInit, Certified!ReleaseInit, Certified!All
<1>2. ASSUME Inv, [Next]_vars PROVE [Certified!ReleaseNext]_(Certified!releaseVars)
  <2>1. CASE UNCHANGED vars
    BY <2>1 DEF vars, server, Revision, Recovered, Certified!releaseVars
  <2>2. CASE OperatorStep
    BY <1>2, <2>2, StoreStepIsActivate DEF Certified!ReleaseNext
  <2>3. CASE SupervisorStep
    <3>1. CASE Failback /\ ~UNCHANGED history
      BY <1>2, <3>1, StoreStepIsActivate DEF Certified!ReleaseNext
    <3> QED
      BY <1>2, <2>3, <3>1, DecidingIsInvisible, StartIsCertified
         DEF SupervisorStep, Certified!releaseVars
  <2>4. CASE EdgeStep
    BY <2>4, DecidingIsInvisible DEF Certified!releaseVars
  <2>5. CASE StartNode \/ ProcessDies \/ NodeStops \/ FirstLoadFails
    BY <1>2, <2>5, NodeIsCertified
  <2> QED
    BY <1>2, <2>1, <2>2, <2>3, <2>4, <2>5 DEF Next
<1> QED
  BY <1>1, <1>2, Invariance, PTL DEF Spec, ImplementsCertifiedRelease, Certified!ReleaseSpec
=============================================================================
