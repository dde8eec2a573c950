------------------------------ MODULE FileBridge ------------------------------
(***************************************************************************)
(* The file bridge (file_bridge.py): a process that takes JSON files from  *)
(* an input directory, keeps each event in an SQLite outbox, moves the     *)
(* file to an archive and sends the event to the edge service until the    *)
(* edge answers for good.  It runs one loop, so the hard part is not       *)
(* threads but what happens between its steps: files that appear or grow   *)
(* while it reads, notifications that are missed, a crash between the      *)
(* outbox, the archive and the receipt, and answers that get lost.         *)
(*                                                                         *)
(* A file of Files is written once, under a name that may be used again    *)
(* when the bridge has moved an earlier file away; a producer never        *)
(* replaces a file that is still there.  The edge is external: it decides  *)
(* on a request at most once per idempotency key (module AnswerOnce).      *)
(***************************************************************************)
EXTENDS Integers, FiniteSets

CONSTANTS
    Files,        \* the files producers will write, in any order
    NameOf,       \* [Files -> file names]
    EventOf,      \* [Files -> Events \cup {NoEvent}]; NoEvent fails validation
    Renamed,      \* files that appear complete, by a rename; others grow in place
    Events,       \* what files contain: records with the fields id and body
    Refused,      \* events the edge answers with a status that is not retried
    BatchLimit,   \* batch_size
    MaxCrashes,   \* bound on crashes
    NoFile, NoEvent, NoRow, NoPlace

Names == {NameOf[f] : f \in Files}
Ids == {e.id : e \in Events}

ASSUME FilesAssumption ==
    /\ IsFiniteSet(Files) /\ NoFile \notin Files
    /\ NoEvent \notin Events
    /\ EventOf \in [Files -> Events \cup {NoEvent}]
    /\ Renamed \subseteq Files
    /\ Refused \subseteq Events
ASSUME BatchLimitAssumption == BatchLimit \in Nat \ {0}
ASSUME MaxCrashesAssumption == MaxCrashes \in Nat

VARIABLES
    unwritten,  \* files that do not exist yet
    growing,    \* files whose text is not complete yet
    unclosed,   \* files whose writer has not closed them yet
    inbox,      \* [Names -> the file in the input directory]
    archive,    \* what lies where in accepted/ and rejected/
    rows,       \* table bridge_events
    receipts,   \* receipts/<event id>.json
    watching,   \* the inotify watcher exists
    notes,      \* names in its queue
    overflow,   \* its queue has lost a note
    pc,         \* what the bridge does next
    todo,       \* names it still has to ingest
    stage,      \* which list of names that is
    woken,      \* this turn of the loop was given names
    lost,       \* this turn of the loop was told of an overflow
    file,       \* the name it is ingesting
    held,       \* the event read from it
    place,      \* archive_destination
    batch,      \* ids claimed and not yet settled
    answer,     \* what sending the first of them came to
    decisions,  \* the edge's decisions: idempotency key and event
    stray,      \* requests given up by the bridge that the edge may still run
    crashes

fileVars == <<unwritten, growing, unclosed, inbox, archive>>
noteVars == <<watching, notes, overflow>>
ingestVars == <<file, held, place>>
loopVars == <<todo, stage, woken, lost>>
sendVars == <<batch, answer>>
edgeVars == <<decisions, stray>>
vars == <<fileVars, rows, receipts, noteVars, pc, loopVars, ingestVars,
          sendVars, edgeVars, crashes>>

-----------------------------------------------------------------------------
(* A place is a file name in one of the two archives; accepted files carry *)
(* their event id in front and a number is added to a name that is taken.  *)

Places == [dir: {"accepted"}, id: Ids, name: Names, index: 0 .. Cardinality(Files)]
          \cup [dir: {"rejected"}, name: Names, index: 0 .. Cardinality(Files)]

Row == [state: {"pending", "inflight", "completed", "failed"}, event: Events,
        source: Places, born: Nat \ {0}, waiting: BOOLEAN, leased: BOOLEAN]

ASSUME NoRowAssumption == NoRow \notin Row

Ended == {"completed", "failed"}
Is(i, states) == rows[i] # NoRow /\ rows[i].state \in states

Phases == {"down", "ingest", "enqueue", "move", "reject", "claim", "send",
           "settle", "receipt", "watch", "wait", "rescan", "deliver"}
Stages == {"initial", "notes", "scan"}
Answers == {"none", "answered", "retry", "refused"}

TypeOK ==
    /\ unwritten \subseteq Files /\ unclosed \subseteq Files /\ growing \subseteq unclosed
    /\ inbox \in [Names -> Files \cup {NoFile}]
    /\ archive \subseteq [at: Places, file: Files]
    /\ rows \in [Ids -> Row \cup {NoRow}]
    /\ receipts \in [Ids -> {"none", "delivered", "failed"}]
    /\ watching \in BOOLEAN /\ notes \subseteq Names /\ overflow \in BOOLEAN
    /\ pc \in Phases /\ todo \subseteq Names /\ stage \in Stages
    /\ woken \in BOOLEAN /\ lost \in BOOLEAN
    /\ file \in Names \cup {NoFile} /\ held \in Events \cup {NoEvent}
    /\ place \in Places \cup {NoPlace}
    /\ batch \subseteq Ids /\ Cardinality(batch) <= BatchLimit /\ answer \in Answers
    /\ decisions \subseteq [key: Ids \X (0 .. 1), event: Events]
    /\ stray \subseteq Ids
    /\ crashes \in 0 .. MaxCrashes

Init ==
    /\ unwritten = Files /\ growing = {} /\ unclosed = {}
    /\ inbox = [n \in Names |-> NoFile] /\ archive = {}
    /\ rows = [i \in Ids |-> NoRow]
    /\ receipts = [i \in Ids |-> "none"]
    /\ watching = FALSE /\ notes = {} /\ overflow = FALSE
    /\ pc = "down" /\ todo = {} /\ stage = "initial" /\ woken = FALSE /\ lost = FALSE
    /\ file = NoFile /\ held = NoEvent /\ place = NoPlace
    /\ batch = {} /\ answer = "none"
    /\ decisions = {} /\ stray = {}
    /\ crashes = 0

-----------------------------------------------------------------------------
(* Producers, and what the kernel tells the watcher about them.            *)

\* A note is queued, or dropped with an overflow flag when the queue is full;
\* nobody is told while no watcher exists.
Notify(n) ==
    IF watching
    THEN \/ notes' = notes \cup {n} /\ UNCHANGED overflow
         \/ overflow' = TRUE /\ UNCHANGED notes
    ELSE UNCHANGED <<notes, overflow>>

\* A rename makes the whole file appear (IN_MOVED_TO); a file written in
\* place appears without a note.
Appear(f) ==
    /\ f \in unwritten
    /\ inbox[NameOf[f]] = NoFile
    /\ inbox' = [inbox EXCEPT ![NameOf[f]] = f]
    /\ unwritten' = unwritten \ {f}
    /\ IF f \in Renamed
       THEN Notify(NameOf[f]) /\ UNCHANGED <<growing, unclosed>>
       ELSE /\ growing' = growing \cup {f}
            /\ unclosed' = unclosed \cup {f}
            /\ UNCHANGED <<notes, overflow>>
    /\ UNCHANGED <<archive, rows, receipts, watching, pc, loopVars, ingestVars,
                   sendVars, edgeVars, crashes>>

\* The last byte is written, wherever the file lies by then.
FillUp(f) ==
    /\ f \in growing
    /\ growing' = growing \ {f}
    /\ UNCHANGED <<unwritten, unclosed, inbox, archive, rows, receipts, noteVars,
                   pc, loopVars, ingestVars, sendVars, edgeVars, crashes>>

\* The writer closes the file (IN_CLOSE_WRITE); the watcher hears of files
\* that are still in its directory.
CloseWrite(f) ==
    /\ f \in unclosed \ growing
    /\ unclosed' = unclosed \ {f}
    /\ IF inbox[NameOf[f]] = f
       THEN Notify(NameOf[f])
       ELSE UNCHANGED <<notes, overflow>>
    /\ UNCHANGED <<unwritten, growing, inbox, archive, rows, receipts, watching,
                   pc, loopVars, ingestVars, sendVars, edgeVars, crashes>>

-----------------------------------------------------------------------------
(* Ingestion of one list of names.                                         *)

FilledNames == {n \in Names : inbox[n] # NoFile}

\* The process starts with a scan, before it watches the directory.
Start ==
    /\ pc = "down"
    /\ pc' = "ingest" /\ stage' = "initial" /\ todo' = FilledNames
    /\ UNCHANGED <<fileVars, rows, receipts, noteVars, woken, lost, ingestVars,
                   sendVars, edgeVars, crashes>>

Skip(n) ==
    /\ pc = "ingest" /\ n \in todo
    /\ inbox[n] = NoFile
    /\ todo' = todo \ {n}
    /\ UNCHANGED <<fileVars, rows, receipts, noteVars, pc, stage, woken, lost,
                   ingestVars, sendVars, edgeVars, crashes>>

\* _unique_destination: the first free number.
FirstFree(P) == CHOOSE p \in P : /\ \A a \in archive : a.at # p
                                 /\ \A q \in P : (\A a \in archive : a.at # q) => p.index <= q.index

\* Mutant: a name that is taken is used again.
NameAsItIs(P) == CHOOSE p \in P : p.index = 0

UniqueDestination(P) == FirstFree(P)

AcceptedPlaces(i, n) == {p \in Places : p.dir = "accepted" /\ p.id = i /\ p.name = n}
RejectedPlaces(n) == {p \in Places : p.dir = "rejected" /\ p.name = n}

\* The bridge reads what is there by now: no reader can tell a file that is
\* still growing from an invalid one.
ContentNow(n) == IF inbox[n] \in growing THEN NoEvent ELSE EventOf[inbox[n]]

\* A valid event is given its place in the archive before it enters the
\* outbox.
Read(n) ==
    /\ pc = "ingest" /\ n \in todo
    /\ inbox[n] # NoFile
    /\ todo' = todo \ {n}
    /\ file' = n
    /\ IF ContentNow(n) = NoEvent
       THEN pc' = "reject" /\ UNCHANGED <<held, place>>
       ELSE /\ pc' = "enqueue"
            /\ held' = ContentNow(n)
            /\ place' = UniqueDestination(AcceptedPlaces(ContentNow(n).id, n))
    /\ UNCHANGED <<fileVars, rows, receipts, noteVars, stage, woken, lost,
                   sendVars, edgeVars, crashes>>

Conflict(e) == rows[e.id] # NoRow /\ rows[e.id].event # e

NewRow(e) == [state |-> "pending", event |-> e, source |-> place,
              born |-> Cardinality({i \in Ids : rows[i] # NoRow}) + 1,
              waiting |-> FALSE, leased |-> FALSE]

\* enqueue: one transaction.  A repeated event is archived like a new one and
\* leaves its row as it is.
Enqueue ==
    /\ pc = "enqueue"
    /\ IF Conflict(held)
       THEN pc' = "reject" /\ UNCHANGED rows
       ELSE /\ pc' = "move"
            /\ rows' = IF rows[held.id] = NoRow
                       THEN [rows EXCEPT ![held.id] = NewRow(held)]
                       ELSE rows
    /\ UNCHANGED <<fileVars, receipts, noteVars, loopVars, ingestVars, sendVars,
                   edgeVars, crashes>>

\* A rename replaces what lies at its destination.
MoveTo(p) ==
    /\ archive' = {a \in archive : a.at # p} \cup {[at |-> p, file |-> inbox[file]]}
    /\ inbox' = [inbox EXCEPT ![file] = NoFile]
    /\ pc' = "ingest"
    /\ file' = NoFile /\ held' = NoEvent /\ place' = NoPlace
    /\ UNCHANGED <<unwritten, growing, unclosed, rows, receipts, noteVars,
                   loopVars, sendVars, edgeVars, crashes>>

Move == pc = "move" /\ MoveTo(place)

Reject == pc = "reject" /\ MoveTo(UniqueDestination(RejectedPlaces(file)))

\* A list is done: the first is followed by a delivery, a list of notes by
\* the question whether to scan, a scan by the question whether to deliver.
ListDone ==
    /\ pc = "ingest" /\ todo = {}
    /\ pc' = CASE stage = "initial" -> "claim"
               [] stage = "notes" -> "rescan"
               [] stage = "scan" -> "deliver"
    /\ UNCHANGED <<fileVars, rows, receipts, noteVars, loopVars, ingestVars,
                   sendVars, edgeVars, crashes>>

-----------------------------------------------------------------------------
(* Delivery of one batch.                                                  *)

\* A row whose lease has run out is taken back.
Reclaimed(i) ==
    IF Is(i, {"inflight"}) /\ ~rows[i].leased
    THEN [rows[i] EXCEPT !.state = "pending"]
    ELSE rows[i]

Ready(i) == Reclaimed(i) # NoRow /\ Reclaimed(i).state = "pending" /\ ~Reclaimed(i).waiting

\* The oldest ready rows, as many as a batch takes.
Oldest == {i \in Ids : /\ Ready(i)
                       /\ Cardinality({j \in Ids : Ready(j) /\ rows[j].born < rows[i].born}) < BatchLimit}

Claim ==
    /\ pc = "claim"
    /\ rows' = [i \in Ids |->
                  IF i \in Oldest
                  THEN [Reclaimed(i) EXCEPT !.state = "inflight", !.leased = TRUE]
                  ELSE Reclaimed(i)]
    /\ batch' = Oldest
    /\ pc' = "send"
    /\ UNCHANGED <<fileVars, receipts, noteVars, loopVars, ingestVars, answer,
                   edgeVars, crashes>>

First == CHOOSE i \in batch : \A j \in batch : rows[i].born <= rows[j].born

\* Mutant: every attempt has a key of its own.
KeyPerAttempt(i) == <<i, Cardinality({d \in decisions : d.event.id = i})>>

\* The Idempotency-Key is computed from the event id alone.
KeyOfEvent(i) == <<i, 0>>

RequestKey(i) == KeyOfEvent(i)

\* The edge runs the operation of a key once; a repeat is given the answer.
EdgeDecides(i) ==
    decisions' = IF \E d \in decisions : d.key = RequestKey(i)
                 THEN decisions
                 ELSE decisions \cup {[key |-> RequestKey(i), event |-> rows[i].event]}

\* Mutant: a request that gets no answer counts as refused.
LostAsRefused == "refused"
LostAsRetry == "retry"
NoAnswer == LostAsRetry

\* One POST with a timeout.  It is answered; or it is refused for what it
\* says; or it fails in a way that is tried again (408, 429, 5xx, no
\* connection, an unreadable answer), with the edge having decided already,
\* never, or at some later time.
Answered(i) == answer' = "answered" /\ EdgeDecides(i) /\ UNCHANGED stray

Refuse(i) == answer' = "refused" /\ UNCHANGED edgeVars

Unanswered(i) ==
    /\ answer' = NoAnswer
    /\ \/ UNCHANGED edgeVars
       \/ /\ rows[i].event \notin Refused
          /\ \/ EdgeDecides(i) /\ UNCHANGED stray
             \/ stray' = stray \cup {i} /\ UNCHANGED decisions

Sent == /\ pc = "send" /\ batch # {}
        /\ pc' = "settle"
        /\ UNCHANGED <<fileVars, rows, receipts, noteVars, loopVars, ingestVars,
                       batch, crashes>>

SendAnswered == /\ Sent
                /\ IF rows[First].event \in Refused THEN Refuse(First) ELSE Answered(First)

SendUnanswered == Sent /\ Unanswered(First)

\* acknowledge and fail end the row, release leaves it to a later batch.
Settle ==
    /\ pc = "settle"
    /\ rows' = [rows EXCEPT ![First].state = CASE answer = "answered" -> "completed"
                                               [] answer = "refused" -> "failed"
                                               [] answer = "retry" -> "pending",
                            ![First].leased = FALSE,
                            ![First].waiting = (answer = "retry")]
    /\ IF answer = "retry"
       THEN pc' = "send" /\ batch' = batch \ {First} /\ answer' = "none"
       ELSE pc' = "receipt" /\ UNCHANGED <<batch, answer>>
    /\ UNCHANGED <<fileVars, receipts, noteVars, loopVars, ingestVars, edgeVars, crashes>>

WriteReceipt ==
    /\ pc = "receipt"
    /\ receipts' = [receipts EXCEPT ![First] = IF answer = "answered" THEN "delivered" ELSE "failed"]
    /\ batch' = batch \ {First}
    /\ answer' = "none"
    /\ pc' = "send"
    /\ UNCHANGED <<fileVars, rows, noteVars, loopVars, ingestVars, edgeVars, crashes>>

\* After the first delivery of a start the watcher is made.
BatchDone ==
    /\ pc = "send" /\ batch = {}
    /\ pc' = IF stage = "initial" THEN "watch" ELSE "wait"
    /\ UNCHANGED <<fileVars, rows, receipts, noteVars, loopVars, ingestVars,
                   sendVars, edgeVars, crashes>>

-----------------------------------------------------------------------------
(* The watch loop.                                                         *)

Watch ==
    /\ pc = "watch"
    /\ watching' = TRUE
    /\ pc' = "wait"
    /\ UNCHANGED <<fileVars, rows, receipts, notes, overflow, loopVars, ingestVars,
                   sendVars, edgeVars, crashes>>

\* wait returns the queued names, possibly none when its timeout passes.
Wait ==
    /\ pc = "wait"
    /\ todo' = notes /\ stage' = "notes"
    /\ woken' = (notes # {}) /\ lost' = overflow
    /\ notes' = {} /\ overflow' = FALSE
    /\ pc' = "ingest"
    /\ UNCHANGED <<fileVars, rows, receipts, watching, ingestVars, sendVars,
                   edgeVars, crashes>>

\* Mutant: the notes are trusted unless some were lost.
AfterOverflow == lost

\* The directory is scanned after an overflow and whenever the rescan
\* interval has passed.
AfterOverflowOrInterval == \E intervalPassed \in BOOLEAN : lost \/ intervalPassed

ScanIsDue == AfterOverflowOrInterval

Rescan ==
    /\ pc = "rescan" /\ ScanIsDue
    /\ todo' = FilledNames /\ stage' = "scan"
    /\ lost' = FALSE
    /\ pc' = "ingest"
    /\ UNCHANGED <<fileVars, rows, receipts, noteVars, woken, ingestVars,
                   sendVars, edgeVars, crashes>>

NoRescan ==
    /\ pc = "rescan" /\ ~lost
    /\ pc' = "deliver"
    /\ UNCHANGED <<fileVars, rows, receipts, noteVars, loopVars, ingestVars,
                   sendVars, edgeVars, crashes>>

\* A batch is delivered when there were names and whenever the retry interval
\* has passed.
Deliver ==
    /\ pc = "deliver"
    /\ pc' = "claim"
    /\ woken' = FALSE
    /\ UNCHANGED <<fileVars, rows, receipts, noteVars, todo, stage, lost,
                   ingestVars, sendVars, edgeVars, crashes>>

NoDelivery ==
    /\ pc = "deliver" /\ ~woken
    /\ pc' = "wait"
    /\ UNCHANGED <<fileVars, rows, receipts, noteVars, loopVars, ingestVars,
                   sendVars, edgeVars, crashes>>

-----------------------------------------------------------------------------
(* Time, the edge's late work, and crashes.                                *)

LeaseExpires(i) ==
    /\ Is(i, {"inflight"}) /\ rows[i].leased
    /\ rows' = [rows EXCEPT ![i].leased = FALSE]
    /\ UNCHANGED <<fileVars, receipts, noteVars, pc, loopVars, ingestVars,
                   sendVars, edgeVars, crashes>>

BackoffElapses(i) ==
    /\ Is(i, {"pending"}) /\ rows[i].waiting
    /\ rows' = [rows EXCEPT ![i].waiting = FALSE]
    /\ UNCHANGED <<fileVars, receipts, noteVars, pc, loopVars, ingestVars,
                   sendVars, edgeVars, crashes>>

\* The edge gets round to a request whose sender stopped waiting.
StrayDecided(i) ==
    /\ i \in stray
    /\ EdgeDecides(i)
    /\ stray' = stray \ {i}
    /\ UNCHANGED <<fileVars, rows, receipts, noteVars, pc, loopVars, ingestVars,
                   sendVars, crashes>>

\* Files, outbox and receipts survive; the end of a run in mode "once" is
\* the same step.
Crash ==
    /\ pc # "down" /\ crashes < MaxCrashes
    /\ crashes' = crashes + 1
    /\ pc' = "down"
    /\ watching' = FALSE /\ notes' = {} /\ overflow' = FALSE
    /\ todo' = {} /\ stage' = "initial" /\ woken' = FALSE /\ lost' = FALSE
    /\ file' = NoFile /\ held' = NoEvent /\ place' = NoPlace
    /\ batch' = {} /\ answer' = "none"
    /\ UNCHANGED <<fileVars, rows, receipts, edgeVars>>

BridgeStep ==
    \/ Start
    \/ \E n \in Names : Skip(n) \/ Read(n)
    \/ Enqueue \/ Move \/ Reject \/ ListDone
    \/ Claim \/ SendAnswered \/ SendUnanswered \/ Settle \/ WriteReceipt \/ BatchDone
    \/ Watch \/ Wait \/ Rescan \/ NoRescan \/ Deliver \/ NoDelivery

Next ==
    \/ BridgeStep
    \/ \E f \in Files : Appear(f) \/ FillUp(f) \/ CloseWrite(f)
    \/ \E i \in Ids : LeaseExpires(i) \/ BackoffElapses(i) \/ StrayDecided(i)
    \/ Crash

Spec == Init /\ [][Next]_vars

\* The loop never stops, both intervals keep passing, leases and delays end,
\* and an edge that is asked again and again answers in the end.
Fairness ==
    /\ WF_vars(BridgeStep)
    /\ SF_vars(Rescan) /\ SF_vars(Deliver)
    /\ WF_vars(\E i \in Ids : LeaseExpires(i))
    /\ WF_vars(\E i \in Ids : BackoffElapses(i))
    /\ SF_vars(SendAnswered)

FairSpec == Spec /\ Fairness

-----------------------------------------------------------------------------
(***************************************************************************)
(* Properties.                                                             *)
(***************************************************************************)

\* Every file that was written is in exactly one place: still in the input
\* directory or once in an archive.  Nothing is overwritten or left out,
\* although names are used again and the bridge may stop at any step.
NoFileIsLost ==
    \A f \in Files \ unwritten :
        IF inbox[NameOf[f]] = f
        THEN \A a \in archive : a.file # f
        ELSE Cardinality({a \in archive : a.file = f}) = 1

\* An accepted file is the evidence of an event that is in the outbox, and a
\* row's source_file is where a file with its event lies, or will lie when
\* the file is moved: no event is archived without being queued.
AcceptedIsQueued ==
    /\ \A a \in archive : a.at.dir = "accepted" =>
          \E i \in Ids : rows[i] # NoRow /\ rows[i].event = EventOf[a.file]
    /\ \A i \in Ids : rows[i] # NoRow =>
          \/ \E a \in archive : a.at = rows[i].source /\ EventOf[a.file] = rows[i].event
          \/ LET f == inbox[rows[i].source.name] IN f # NoFile /\ EventOf[f] = rows[i].event

Contradicted(e) == rows[e.id] # NoRow /\ rows[e.id].event # e

\* A rejected file is invalid, contradicts the event that has its id, or is
\* one that its producer wrote in place.
RejectionIsJust ==
    \A a \in archive : a.at.dir = "rejected" =>
        \/ a.file \notin Renamed
        \/ EventOf[a.file] = NoEvent
        \/ Contradicted(EventOf[a.file])

\* Over retries, lost answers, late requests and crashes the edge decides at
\* most once on an event, and on the body that is in the outbox.
EdgeDecidesOnce ==
    /\ \A d, e \in decisions : d.event.id = e.event.id => d = e
    /\ \A d \in decisions : rows[d.event.id] # NoRow /\ rows[d.event.id].event = d.event

\* A completed row was decided by the edge; a failed one never was and never
\* will be; a receipt says what the row says.
OutcomeIsTrue ==
    \A i \in Ids :
        /\ Is(i, {"completed"}) => \E d \in decisions : d.event = rows[i].event
        /\ Is(i, {"failed"}) => i \notin stray /\ \A d \in decisions : d.event.id # i
        /\ receipts[i] = "delivered" => Is(i, {"completed"})
        /\ receipts[i] = "failed" => Is(i, {"failed"})

\* What can be told of the events from outside.
Taken(i) == IF rows[i] = NoRow THEN NoEvent ELSE rows[i].event
Outcome(i) == IF Is(i, Ended) THEN rows[i].state ELSE "open"
TimesDecided(e) == Cardinality({d \in decisions : d.event = e})

Delivery == INSTANCE EventDelivery WITH taken <- [i \in Ids |-> Taken(i)],
                                        outcome <- [i \in Ids |-> Outcome(i)],
                                        decided <- [e \in Events |-> TimesDecided(e)],
                                        receipt <- receipts

\* Files that come twice, leases that run out, answers that get lost, requests
\* the edge finishes late, and restarts between any two writes are invisible
\* or steps of EventDelivery.
ImplementsEventDelivery == Delivery!DeliverySpec

\* What has ended stays ended: acknowledge, fail, release and enqueue look
\* at the id only, so nothing but the order of the loop protects a row that
\* is done from being opened again.
EndedIsForever ==
    [][\A i \in Ids : Is(i, Ended) => rows'[i] = rows[i]]_vars

\* A valid file that appeared whole is archived and its event ends, whatever
\* the bridge was doing when it came: before the first scan, between that
\* scan and the watcher, during an overflow, or before a crash.  (An event
\* that contradicts the one with its id is not sent.)
EveryEventEnds ==
    \A f \in Renamed :
        (inbox[NameOf[f]] = f /\ EventOf[f] # NoEvent) ~>
            /\ inbox[NameOf[f]] # f
            /\ \/ Is(EventOf[f].id, Ended)
               \/ Contradicted(EventOf[f])
=============================================================================
