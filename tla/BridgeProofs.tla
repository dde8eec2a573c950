----------------------------- MODULE BridgeProofs -----------------------------
(***************************************************************************)
(* Proofs about FileBridge for any files, names and events: its type       *)
(* invariant, that no file is lost or archived without being queued, that  *)
(* the edge decides once and every row and receipt says what it did, and   *)
(* that all of this is EventDelivery.                                      *)
(***************************************************************************)
EXTENDS FileBridge, TLAPS, FiniteSetTheorems, WellFoundedInduction

-----------------------------------------------------------------------------
(* Numbers and sets.                                                       *)

(* A set of numbers that is not empty has a smallest one.                  *)
LEMMA Smallest ==
    ASSUME NEW S, S \subseteq Nat, S # {}
    PROVE  \E m \in S : \A n \in S : m <= n
<1> DEFINE R == OpToRel(<, Nat)
<1>1. PICK m \in S : \A n \in S : <<n, m>> \notin R
  <2> HIDE DEF R
  <2>1. IsWellFoundedOn(R, Nat)
    BY NatLessThanWellFounded, Zenon DEF R
  <2> QED
    BY <2>1, WFMin
<1>2. \A n \in S : <<n, m>> \in Nat \X Nat
  BY <1>1
<1>3. \A n \in S : ~(n < m)
  BY <1>1, <1>2 DEF OpToRel
<1>4. ASSUME NEW n \in S PROVE m <= n
  <2>1. n \in Nat /\ m \in Nat
    BY <1>1
  <2>2. ~(n < m)
    BY <1>3
  <2> HIDE DEF R
  <2> QED
    BY <2>1, <2>2
<1> QED
  BY <1>1, <1>4

(* Of things that carry a number, one carries the smallest.                *)
LEMMA SmallestOf ==
    ASSUME NEW S, NEW f, S # {}, \A x \in S : f[x] \in Nat
    PROVE  \E x \in S : \A y \in S : f[x] <= f[y]
<1> DEFINE T == {f[x] : x \in S}
<1>1. T \subseteq Nat /\ T # {}
  OBVIOUS
<1>2. PICK m \in T : \A n \in T : m <= n
  <2> HIDE DEF T
  <2> QED BY <1>1, Smallest
<1>3. PICK x \in S : m = f[x]
  BY <1>2
<1>4. \A y \in S : f[y] \in T
  OBVIOUS
<1> QED
  BY <1>2, <1>3, <1>4

(* The assumptions on the constants, one by one.                           *)
LEMMA Constants ==
    /\ IsFiniteSet(Files) /\ NoFile \notin Files /\ NoEvent \notin Events
    /\ EventOf \in [Files -> Events \cup {NoEvent}]
    /\ Renamed \subseteq Files /\ Refused \subseteq Events
    /\ NoRow \notin Row
    /\ BatchLimit \in Nat
    /\ Cardinality(Files) \in Nat
    /\ \A f \in Files : NameOf[f] \in Names
    /\ \A e \in Events : e.id \in Ids
BY FilesAssumption, BatchLimitAssumption, NoRowAssumption, FS_CardinalityType DEF Names, Ids

(* There is a place for every id and name, with every number.              *)
LEMMA PlaceTypes ==
    ASSUME NEW i \in Ids, NEW n \in Names
    PROVE  /\ AcceptedPlaces(i, n) \subseteq Places
           /\ \A k \in 0 .. Cardinality(Files) :
                 \E p \in AcceptedPlaces(i, n) : p.index = k
           /\ \A p \in AcceptedPlaces(i, n) : p.index \in Nat
<1>1. ASSUME NEW k \in 0 .. Cardinality(Files)
      PROVE  \E p \in AcceptedPlaces(i, n) : p.index = k
  <2>1. [dir |-> "accepted", id |-> i, name |-> n, index |-> k] \in AcceptedPlaces(i, n)
    BY DEF AcceptedPlaces, Places
  <2> QED
    BY <2>1
<1>2. \A p \in Places : p.index \in Nat
  BY Constants DEF Places
<1> QED
  BY <1>1, <1>2 DEF AcceptedPlaces

-----------------------------------------------------------------------------
(* The inductive invariant, part by part.                                  *)

\* The types of what the proofs look at file by file and row by row.
Typed ==
    /\ unwritten \subseteq Files /\ growing \subseteq Files
    /\ inbox \in [Names -> Files \cup {NoFile}]
    /\ archive \subseteq [at: Places, file: Files]
    /\ rows \in [Ids -> Row \cup {NoRow}]

Free(p) == \A a \in archive : a.at # p

\* A place in accepted/ that is the first free one for its id and name.
FirstAccepted(p, i, n) ==
    /\ p \in AcceptedPlaces(i, n) /\ Free(p)
    /\ \A q \in AcceptedPlaces(i, n) : Free(q) => p.index <= q.index

\* Where files lie: no file is in two places or over another.
FilesPlaced ==
    /\ unwritten \cap growing = {} /\ growing \cap Renamed = {}
    /\ \A n \in Names : inbox[n] # NoFile => /\ NameOf[inbox[n]] = n
                                              /\ inbox[n] \notin unwritten
    /\ \A a \in archive : a.file \notin unwritten /\ inbox[NameOf[a.file]] # a.file
    /\ \A a, b \in archive : a.file = b.file \/ a.at = b.at => a = b
    /\ \A f \in Files \ unwritten : \/ inbox[NameOf[f]] = f
                                    \/ \E a \in archive : a.file = f

\* The file of row i is in the archive, or is about to go where the row says.
Filled(i) == \E a \in archive : a.at = rows[i].source /\ EventOf[a.file] = rows[i].event

Expected(i) ==
    \E n \in Names :
        /\ inbox[n] # NoFile /\ inbox[n] \notin growing
        /\ EventOf[inbox[n]] = rows[i].event
        /\ FirstAccepted(rows[i].source, i, n)

Rowed == {i \in Ids : rows[i] # NoRow}

RowsBacked ==
    /\ \A i \in Rowed : rows[i].event.id = i
    /\ \A i \in Rowed : Filled(i) \/ Expected(i)
    /\ \A a \in archive : a.at.dir = "accepted" =>
          \E i \in Ids : rows[i] # NoRow /\ rows[i].event = EventOf[a.file]

\* What the bridge holds while it ingests a file.
FileHeld ==
    /\ pc \in {"enqueue", "move", "reject"} => file \in Names /\ inbox[file] # NoFile
    /\ pc \in {"enqueue", "move"} =>
          /\ held \in Events /\ held = EventOf[inbox[file]]
          /\ inbox[file] \notin growing
          /\ FirstAccepted(place, held.id, file)
    /\ pc = "move" => rows[held.id] # NoRow /\ rows[held.id].event = held
    /\ pc = "reject" =>
          /\ \/ inbox[file] \notin Renamed
             \/ EventOf[inbox[file]] = NoEvent
             \/ Contradicted(EventOf[inbox[file]])
          /\ \A i \in Rowed : rows[i].source.name = file => Filled(i)

Ingesting == FilesPlaced /\ RowsBacked /\ FileHeld /\ RejectionIsJust

-----------------------------------------------------------------------------
(* Places.                                                                 *)

(* Among places of one name there is a free one with the smallest number,  *)
(* and that is the one that is chosen.                                     *)
LEMMA FirstFreeIsFree ==
    ASSUME Typed, FilesPlaced, NEW P, P \subseteq Places,
           \A k \in 0 .. Cardinality(Files) : \E p \in P : p.index = k
    PROVE  /\ UniqueDestination(P) \in P
           /\ Free(UniqueDestination(P))
           /\ \A q \in P : Free(q) => UniqueDestination(P).index <= q.index
<1> DEFINE N == Cardinality(Files)
<1> DEFINE OpenPlaces == {p \in P : Free(p)}
<1>0. N \in Nat /\ \A p \in P : p.index \in Nat
  BY Constants DEF Places
<1>1. OpenPlaces # {}
  <2> SUFFICES ASSUME OpenPlaces = {} PROVE FALSE
    OBVIOUS
  <2>1. \A k \in 0 .. N : \E a \in archive : a.at \in P /\ a.at.index = k
    BY DEF Free
  <2> DEFINE At(k) == CHOOSE a \in archive : a.at \in P /\ a.at.index = k
  <2>2. \A k \in 0 .. N : At(k) \in archive /\ At(k).at.index = k
    BY <2>1
  <2> DEFINE f == [k \in 0 .. N |-> At(k).file]
  <2>3. f \in [0 .. N -> Files]
    BY <2>2 DEF Typed
  <2>4. IsFiniteSet(0 .. N) /\ Cardinality(0 .. N) = N + 1
    BY <1>0, FS_Interval
  <2>5. PICK x, y \in 0 .. N : x # y /\ f[x] = f[y]
    <3> DEFINE S == 0 .. N
    <3> HIDE DEF f
    <3>0. f \in [S -> Files]
      BY <2>3
    <3>1. IsFiniteSet(S) /\ Cardinality(Files) < Cardinality(S)
      BY <1>0, <2>4
    <3>2. IsFiniteSet(Files)
      BY Constants
    <3> HIDE DEF N, S
    <3>3. \E x, y \in S : x # y /\ f[x] = f[y]
      BY <3>0, <3>1, <3>2, FS_PigeonHole
    <3> QED
      BY <3>3 DEF S
  <2>6. At(x) = At(y)
    <3>1. At(x) \in archive /\ At(y) \in archive /\ At(x).file = At(y).file
      BY <2>2, <2>5
    <3> HIDE DEF At
    <3> QED
      BY <3>1 DEF FilesPlaced
  <2> QED
    BY <2>2, <2>5, <2>6
<1>2. \E p \in OpenPlaces : \A q \in OpenPlaces : p.index <= q.index
  <2> DEFINE T == {p.index : p \in OpenPlaces}
  <2>1. T \subseteq Nat /\ T # {}
    BY <1>0, <1>1
  <2>2. PICK m \in T : \A k \in T : m <= k
    <3> HIDE DEF T
    <3> QED BY <2>1, Smallest
  <2>3. PICK p \in OpenPlaces : m = p.index
    BY <2>2
  <2>4. \A q \in OpenPlaces : q.index \in T
    OBVIOUS
  <2> QED
    BY <2>2, <2>3, <2>4
<1>3. \E p \in P : /\ \A a \in archive : a.at # p
                   /\ \A q \in P : (\A a \in archive : a.at # q) => p.index <= q.index
  BY <1>2 DEF Free
<1> DEFINE c == UniqueDestination(P)
<1>4. c \in P /\ (\A a \in archive : a.at # c)
              /\ \A q \in P : (\A a \in archive : a.at # q) => c.index <= q.index
  BY <1>3 DEF UniqueDestination, FirstFree
<1> QED
  BY <1>4 DEF Free

-----------------------------------------------------------------------------
(* Producers.                                                              *)

(* A row stays backed while archive and rows are left alone and files in   *)
(* the inbox stay what they are.                                           *)
LEMMA BackedByFiles ==
    ASSUME RowsBacked, UNCHANGED <<archive, rows>>,
           \A n \in Names : inbox[n] # NoFile => inbox'[n] = inbox[n],
           \A n \in Names : inbox[n] # NoFile /\ inbox[n] \notin growing => inbox[n] \notin growing'
    PROVE  RowsBacked'
<1>1. ASSUME NEW i \in Ids, rows[i] # NoRow PROVE (Filled(i) \/ Expected(i))'
  <2>1. CASE Filled(i)
    BY <2>1 DEF Filled
  <2>2. CASE Expected(i)
    BY <2>2 DEF Expected, FirstAccepted, Free
  <2> QED
    BY <1>1, <2>1, <2>2 DEF RowsBacked, Rowed
<1> QED
  BY <1>1 DEF RowsBacked, Rowed

(* So does what the bridge holds.                                          *)
LEMMA HeldByFiles ==
    ASSUME FileHeld, UNCHANGED <<archive, rows, pc, ingestVars>>,
           \A n \in Names : inbox[n] # NoFile => inbox'[n] = inbox[n],
           \A n \in Names : inbox[n] # NoFile /\ inbox[n] \notin growing => inbox[n] \notin growing'
    PROVE  FileHeld'
<1> USE DEF ingestVars
<1>1. (pc \in {"enqueue", "move", "reject"} => file \in Names /\ inbox[file] # NoFile)'
  BY DEF FileHeld
<1>2. (pc \in {"enqueue", "move"} =>
          /\ held \in Events /\ held = EventOf[inbox[file]]
          /\ inbox[file] \notin growing
          /\ FirstAccepted(place, held.id, file))'
  BY DEF FileHeld, FirstAccepted, Free
<1>3. (pc = "move" => rows[held.id] # NoRow /\ rows[held.id].event = held)'
  BY DEF FileHeld
<1>4. (pc = "reject" =>
          /\ \/ inbox[file] \notin Renamed
             \/ EventOf[inbox[file]] = NoEvent
             \/ Contradicted(EventOf[inbox[file]])
          /\ \A i \in Rowed : rows[i].source.name = file => Filled(i))'
  BY DEF FileHeld, Contradicted, Rowed, Filled
<1> QED
  BY <1>1, <1>2, <1>3, <1>4 DEF FileHeld

(* A file appears, under a name that is free.                              *)
LEMMA AppearKeeps ==
    ASSUME Typed, Ingesting, NEW f \in Files, Appear(f)
    PROVE  Typed' /\ Ingesting'
<1>1. NameOf[f] \in Names /\ NoFile \notin Files /\ Renamed \subseteq Files
  BY Constants
<1>2. /\ f \in unwritten /\ inbox[NameOf[f]] = NoFile
      /\ inbox' = [inbox EXCEPT ![NameOf[f]] = f]
      /\ unwritten' = unwritten \ {f}
      /\ growing' = IF f \in Renamed THEN growing ELSE growing \cup {f}
      /\ UNCHANGED <<archive, rows, pc, ingestVars>>
  BY DEF Appear
<1>3. \A n \in Names : inbox[n] # NoFile => inbox'[n] = inbox[n]
  BY <1>1, <1>2 DEF Typed
<1>4. \A n \in Names : inbox[n] # NoFile /\ inbox[n] \notin growing => inbox[n] \notin growing'
  BY <1>2 DEF Ingesting, FilesPlaced
<1>5. Typed'
  BY <1>1, <1>2 DEF Typed
<1>6. FilesPlaced'
  <2>0. FilesPlaced
    BY DEF Ingesting
  <2>1. (unwritten \cap growing = {} /\ growing \cap Renamed = {})'
    BY <1>2, <2>0 DEF FilesPlaced
  <2>2. ASSUME NEW n \in Names, inbox'[n] # NoFile
        PROVE  NameOf[inbox'[n]] = n /\ inbox'[n] \notin unwritten'
    BY <1>1, <1>2, <2>0, <2>2 DEF FilesPlaced, Typed
  <2>3. ASSUME NEW a \in archive
        PROVE  a.file \notin unwritten' /\ inbox'[NameOf[a.file]] # a.file
    BY <1>1, <1>2, <2>0 DEF FilesPlaced, Typed
  <2>4. ASSUME NEW g \in Files \ unwritten'
        PROVE  inbox'[NameOf[g]] = g \/ \E a \in archive : a.file = g
    <3>1. CASE g = f
      BY <1>1, <1>2, <3>1 DEF Typed
    <3>2. CASE g # f
      BY <1>1, <1>2, <2>0, <3>2, Constants DEF FilesPlaced, Typed
    <3> QED
      BY <3>1, <3>2
  <2>5. \A a, b \in archive : a.file = b.file \/ a.at = b.at => a = b
    BY <2>0 DEF FilesPlaced
  <2> QED
    BY <1>2, <2>1, <2>2, <2>3, <2>4, <2>5 DEF FilesPlaced
<1>7. RowsBacked' /\ FileHeld'
  BY <1>2, <1>3, <1>4, BackedByFiles, HeldByFiles DEF Ingesting
<1>8. RejectionIsJust'
  BY <1>2 DEF Ingesting, RejectionIsJust, Contradicted
<1> QED
  BY <1>5, <1>6, <1>7, <1>8 DEF Ingesting

(* The rest of a file is written.                                          *)
LEMMA FillUpKeeps ==
    ASSUME Typed, Ingesting, NEW f \in Files, FillUp(f)
    PROVE  Typed' /\ Ingesting'
<1>1. /\ growing' = growing \ {f}
      /\ UNCHANGED <<unwritten, inbox, archive, rows, pc, ingestVars>>
  BY DEF FillUp
<1>2. Typed' /\ FilesPlaced'
  BY <1>1 DEF Typed, Ingesting, FilesPlaced
<1>3. RowsBacked' /\ FileHeld'
  BY <1>1, BackedByFiles, HeldByFiles DEF Ingesting
<1>4. RejectionIsJust'
  BY <1>1 DEF Ingesting, RejectionIsJust, Contradicted
<1> QED
  BY <1>2, <1>3, <1>4 DEF Ingesting

(* A step that touches no file, archive or row and holds no file after it. *)
LEMMA IdleKeeps ==
    ASSUME Typed, Ingesting,
           UNCHANGED <<unwritten, growing, inbox, archive, rows>>,
           \/ pc' \notin {"enqueue", "move", "reject"}
           \/ UNCHANGED <<pc, file, held, place>>
    PROVE  Typed' /\ Ingesting'
<1>1. Typed' /\ FilesPlaced' /\ RejectionIsJust'
  BY DEF Typed, Ingesting, FilesPlaced, RejectionIsJust, Contradicted
<1>2. RowsBacked'
  BY BackedByFiles DEF Ingesting
<1>3. CASE pc' \notin {"enqueue", "move", "reject"}
  <2>1. FileHeld'
    BY <1>3 DEF FileHeld
  <2> QED
    BY <1>1, <1>2, <2>1 DEF Ingesting
<1>4. CASE UNCHANGED <<pc, file, held, place>>
  <2>1. FileHeld'
    BY <1>4, HeldByFiles DEF Ingesting, ingestVars
  <2> QED
    BY <1>1, <1>2, <2>1 DEF Ingesting
<1> QED
  BY <1>3, <1>4

-----------------------------------------------------------------------------
(* Steps that change the state of rows and nothing else about them.        *)

KeptRows ==
    /\ rows' \in [Ids -> Row \cup {NoRow}]
    /\ \A i \in Ids : rows'[i] = NoRow <=> rows[i] = NoRow
    /\ \A i \in Ids : rows[i] # NoRow => /\ rows'[i].event = rows[i].event
                                         /\ rows'[i].source = rows[i].source
                                         /\ rows'[i].born = rows[i].born

(* A contradiction stays one.                                              *)
LEMMA ContradictionStays ==
    ASSUME KeptRows, NEW f \in Files
    PROVE  EventOf[f] = NoEvent \/ Contradicted(EventOf[f]) =>
           EventOf[f] = NoEvent \/ Contradicted(EventOf[f])'
<1>1. EventOf[f] = NoEvent \/ EventOf[f].id \in Ids
  BY Constants
<1> QED
  BY <1>1 DEF KeptRows, Contradicted

LEMMA RowStepKeeps ==
    ASSUME Typed, Ingesting, KeptRows,
           UNCHANGED <<unwritten, growing, inbox, archive>>,
           \/ pc' \notin {"enqueue", "move", "reject"}
           \/ UNCHANGED <<pc, file, held, place>>
    PROVE  Typed' /\ Ingesting'
<1>1. Typed' /\ FilesPlaced'
  BY DEF Typed, Ingesting, FilesPlaced, KeptRows
<1>2. RowsBacked'
  <2>1. ASSUME NEW i \in Ids, rows'[i] # NoRow
        PROVE  rows'[i].event.id = i /\ (Filled(i) \/ Expected(i))'
    <3>1. rows[i] # NoRow /\ rows'[i].event = rows[i].event /\ rows'[i].source = rows[i].source
      BY <2>1 DEF KeptRows
    <3>2. rows[i].event.id = i /\ (Filled(i) \/ Expected(i))
      BY <3>1 DEF Ingesting, RowsBacked, Rowed
    <3>3. Filled(i) => Filled(i)'
      BY <3>1 DEF Filled
    <3>4. Expected(i) => Expected(i)'
      BY <3>1 DEF Expected, FirstAccepted, Free
    <3> QED
      BY <3>1, <3>2, <3>3, <3>4
  <2>2. ASSUME NEW a \in archive, a.at.dir = "accepted"
        PROVE  \E i \in Ids : rows'[i] # NoRow /\ rows'[i].event = EventOf[a.file]
    BY <2>2 DEF Ingesting, RowsBacked, KeptRows
  <2> QED
    BY <2>1, <2>2 DEF RowsBacked, Rowed
<1>3. RejectionIsJust'
  <2>1. ASSUME NEW a \in archive, a.at.dir = "rejected"
        PROVE  a.file \notin Renamed \/ EventOf[a.file] = NoEvent \/ Contradicted(EventOf[a.file])'
    BY <2>1, ContradictionStays DEF Ingesting, RejectionIsJust, Typed
  <2> QED
    BY <2>1 DEF RejectionIsJust, Contradicted
<1>4. FileHeld'
  <2>1. CASE pc' \notin {"enqueue", "move", "reject"}
    BY <2>1 DEF FileHeld
  <2>2. CASE UNCHANGED <<pc, file, held, place>>
    <3>0. FileHeld
      BY DEF Ingesting
    <3>1. (pc \in {"enqueue", "move", "reject"} => file \in Names /\ inbox[file] # NoFile)'
      BY <2>2, <3>0 DEF FileHeld
    <3>2. (pc \in {"enqueue", "move"} =>
          /\ held \in Events /\ held = EventOf[inbox[file]]
          /\ inbox[file] \notin growing
          /\ FirstAccepted(place, held.id, file))'
      BY <2>2, <3>0 DEF FileHeld, FirstAccepted, Free
    <3>3. (pc = "move" => rows[held.id] # NoRow /\ rows[held.id].event = held)'
      BY <2>2, <3>0, Constants DEF FileHeld, KeptRows
    <3>4. (pc = "reject" =>
          /\ \/ inbox[file] \notin Renamed
             \/ EventOf[inbox[file]] = NoEvent
             \/ Contradicted(EventOf[inbox[file]])
          /\ \A i \in Rowed : rows[i].source.name = file => Filled(i))'
      <4> SUFFICES ASSUME pc = "reject"
                   PROVE  /\ \/ inbox[file] \notin Renamed
                             \/ EventOf[inbox[file]] = NoEvent
                             \/ Contradicted(EventOf[inbox[file]])'
                          /\ \A i \in Ids : rows'[i] # NoRow /\ rows'[i].source.name = file
                                            => Filled(i)'
        BY <2>2 DEF Rowed, Contradicted
      <4>1. inbox[file] \in Files
        BY <3>0 DEF FileHeld, Typed
      <4>2. \/ inbox[file] \notin Renamed
            \/ EventOf[inbox[file]] = NoEvent
            \/ Contradicted(EventOf[inbox[file]])'
        <5>1. PICK f \in Files : f = inbox[file]
          BY <4>1
        <5>2. f \notin Renamed \/ EventOf[f] = NoEvent \/ Contradicted(EventOf[f])
          BY <3>0, <5>1 DEF FileHeld, Contradicted
        <5>3. f \notin Renamed \/ EventOf[f] = NoEvent \/ Contradicted(EventOf[f])'
          BY <5>2, ContradictionStays
        <5> QED
          BY <2>2, <5>1, <5>3 DEF Contradicted
      <4>3. ASSUME NEW i \in Ids, rows'[i] # NoRow, rows'[i].source.name = file
            PROVE  Filled(i)'
        <5>1. rows[i] # NoRow /\ rows'[i].event = rows[i].event /\ rows'[i].source = rows[i].source
          BY <4>3 DEF KeptRows
        <5>2. Filled(i)
          BY <3>0, <4>3, <5>1 DEF FileHeld, Rowed
        <5> QED
          BY <5>1, <5>2 DEF Filled
      <4> QED
        BY <4>2, <4>3
    <3> QED
      BY <3>1, <3>2, <3>3, <3>4 DEF FileHeld
  <2> QED
    BY <2>1, <2>2
<1> QED
  BY <1>1, <1>2, <1>3, <1>4 DEF Ingesting

-----------------------------------------------------------------------------
(* Ingestion.                                                              *)

(* What an expected row says of the file under its name.                   *)
LEMMA ExpectedName ==
    ASSUME Typed, NEW i \in Ids, rows[i] # NoRow, Expected(i)
    PROVE  LET n == rows[i].source.name
           IN  /\ n \in Names /\ inbox[n] \in Files /\ inbox[n] \notin growing
               /\ EventOf[inbox[n]] = rows[i].event /\ rows[i].event \in Events
               /\ FirstAccepted(rows[i].source, i, n)
<1>1. PICK n \in Names : /\ inbox[n] # NoFile /\ inbox[n] \notin growing
                         /\ EventOf[inbox[n]] = rows[i].event
                         /\ FirstAccepted(rows[i].source, i, n)
  BY DEF Expected
<1>2. rows[i].source.name = n
  BY <1>1 DEF FirstAccepted, AcceptedPlaces
<1>3. rows[i].event \in Events /\ inbox[n] \in Files
  BY <1>1 DEF Typed, Row
<1> QED
  BY <1>1, <1>2, <1>3

LEMMA ReadKeeps ==
    ASSUME Typed, Ingesting, NEW n \in Names, Read(n)
    PROVE  Typed' /\ Ingesting'
<1>0. FilesPlaced /\ RowsBacked /\ RejectionIsJust
  BY DEF Ingesting
<1>1. /\ inbox[n] \in Files /\ inbox[n] # NoFile /\ file' = n
      /\ UNCHANGED <<unwritten, growing, inbox, archive, rows>>
  BY DEF Read, fileVars, Typed
<1>2. Typed' /\ FilesPlaced' /\ RowsBacked' /\ RejectionIsJust'
  <2>1. Typed' /\ FilesPlaced' /\ RejectionIsJust'
    BY <1>0, <1>1 DEF Typed, FilesPlaced, RejectionIsJust, Contradicted
  <2>2. RowsBacked'
    BY <1>0, <1>1, BackedByFiles
  <2> QED
    BY <2>1, <2>2
<1>3. CASE ContentNow(n) = NoEvent
  <2>1. pc' = "reject"
    BY <1>3 DEF Read
  <2>2. inbox[n] \notin Renamed \/ EventOf[inbox[n]] = NoEvent
    BY <1>0, <1>3 DEF ContentNow, FilesPlaced
  <2>3. ASSUME NEW i \in Ids, rows[i] # NoRow, rows[i].source.name = n
        PROVE  Filled(i)
    <3>1. CASE Expected(i)
      <4>1. inbox[n] \notin growing /\ EventOf[inbox[n]] \in Events
        BY <2>3, <3>1, ExpectedName
      <4> QED
        BY <1>3, <4>1, Constants DEF ContentNow
    <3> QED
      BY <1>0, <2>3, <3>1 DEF RowsBacked, Rowed
  <2>4. FileHeld'
    BY <1>1, <2>1, <2>2, <2>3 DEF FileHeld, Filled, Rowed
  <2> QED
    BY <1>2, <2>4 DEF Ingesting
<1>4. CASE ContentNow(n) # NoEvent
  <2>1. inbox[n] \notin growing /\ ContentNow(n) = EventOf[inbox[n]]
    BY <1>4 DEF ContentNow
  <2>2. EventOf[inbox[n]] \in Events /\ EventOf[inbox[n]].id \in Ids
    BY <1>1, <1>4, <2>1, Constants
  <2>3. /\ pc' = "enqueue" /\ held' = EventOf[inbox[n]]
        /\ place' = UniqueDestination(AcceptedPlaces(EventOf[inbox[n]].id, n))
    BY <1>4, <2>1 DEF Read
  <2>4. FirstAccepted(place', EventOf[inbox[n]].id, n)
    <3>1. PICK e \in Events : e = EventOf[inbox[n]] /\ e.id \in Ids
      BY <2>2
    <3> DEFINE P == AcceptedPlaces(e.id, n)
    <3>2. P \subseteq Places /\ \A k \in 0 .. Cardinality(Files) : \E p \in P : p.index = k
      BY <3>1, PlaceTypes
    <3>3. /\ UniqueDestination(P) \in P /\ Free(UniqueDestination(P))
          /\ \A q \in P : Free(q) => UniqueDestination(P).index <= q.index
      <4> HIDE DEF P
      <4> QED
        BY <1>0, <3>2, FirstFreeIsFree
    <3>4. place' = UniqueDestination(P)
      BY <2>3, <3>1
    <3>5. place' \in P /\ Free(place') /\ \A q \in P : Free(q) => place'.index <= q.index
      BY <3>3, <3>4
    <3> QED
      BY <3>1, <3>5 DEF FirstAccepted
  <2>5. FileHeld'
    BY <1>1, <2>1, <2>2, <2>3, <2>4 DEF FileHeld, FirstAccepted, Free
  <2> QED
    BY <1>2, <2>5 DEF Ingesting
<1> QED
  BY <1>3, <1>4

LEMMA EnqueueKeeps ==
    ASSUME Typed, Ingesting, IsFiniteSet(Rowed), Enqueue
    PROVE  Typed' /\ Ingesting'
<1>0. FilesPlaced /\ RowsBacked /\ FileHeld /\ RejectionIsJust
  BY DEF Ingesting
<1>1. /\ pc = "enqueue"
      /\ UNCHANGED <<unwritten, growing, inbox, archive, file, held, place>>
  BY DEF Enqueue, fileVars, ingestVars
<1>2. /\ file \in Names /\ inbox[file] # NoFile /\ held \in Events /\ held.id \in Ids
      /\ held = EventOf[inbox[file]] /\ inbox[file] \notin growing
      /\ FirstAccepted(place, held.id, file)
  BY <1>0, <1>1, Constants DEF FileHeld
<1>3. CASE Conflict(held)
  <2>1. pc' = "reject" /\ UNCHANGED rows
    BY <1>3 DEF Enqueue
  <2>2. Contradicted(EventOf[inbox[file]])
    BY <1>2, <1>3 DEF Conflict, Contradicted
  <2>3. ASSUME NEW i \in Ids, rows[i] # NoRow, rows[i].source.name = file
        PROVE  Filled(i)
    <3>1. CASE Expected(i)
      <4>1. rows[i].event = held
        BY <1>2, <2>3, <3>1, ExpectedName
      <4>2. i = held.id
        BY <1>0, <2>3, <4>1 DEF RowsBacked, Rowed
      <4> QED
        BY <1>3, <4>1, <4>2 DEF Conflict
    <3> QED
      BY <1>0, <2>3, <3>1 DEF RowsBacked, Rowed
  <2>4. FileHeld'
    BY <1>1, <1>2, <2>1, <2>2, <2>3 DEF FileHeld, Filled, Rowed, Contradicted
  <2>5. Typed' /\ FilesPlaced' /\ RejectionIsJust'
    BY <1>0, <1>1, <2>1 DEF Typed, FilesPlaced, RejectionIsJust, Contradicted
  <2>6. RowsBacked'
    BY <1>0, <1>1, <2>1, BackedByFiles
  <2> QED
    BY <2>4, <2>5, <2>6 DEF Ingesting
<1>4. CASE ~Conflict(held)
  <2>1. pc' = "move"
    BY <1>4 DEF Enqueue
  <2>2. CASE rows[held.id] # NoRow
    <3>1. UNCHANGED rows
      BY <1>4, <2>2 DEF Enqueue
    <3>2. rows[held.id].event = held
      BY <1>4, <2>2 DEF Conflict
    <3>3. FileHeld'
      BY <1>1, <1>2, <2>1, <2>2, <3>1, <3>2 DEF FileHeld, FirstAccepted, Free
    <3>4. Typed' /\ FilesPlaced' /\ RejectionIsJust'
      BY <1>0, <1>1, <3>1 DEF Typed, FilesPlaced, RejectionIsJust, Contradicted
    <3>5. RowsBacked'
      BY <1>0, <1>1, <3>1, BackedByFiles
    <3> QED
      BY <3>3, <3>4, <3>5 DEF Ingesting
  <2>3. CASE rows[held.id] = NoRow
    <3>1. rows' = [rows EXCEPT ![held.id] = NewRow(held)]
      BY <1>4, <2>3 DEF Enqueue
    <3>2. NewRow(held) \in Row /\ NewRow(held).event = held /\ NewRow(held).source = place
      <4>1. Cardinality({i \in Ids : rows[i] # NoRow}) \in Nat
        BY FS_CardinalityType DEF Rowed
      <4>2. place \in Places
        BY <1>2, PlaceTypes DEF FirstAccepted
      <4> QED
        BY <1>2, <4>1, <4>2 DEF NewRow, Row
    <3>3. NewRow(held) # NoRow
      BY <3>2, Constants
    <3>4. /\ rows'[held.id] = NewRow(held)
          /\ \A i \in Ids : i # held.id => rows'[i] = rows[i]
      BY <1>2, <3>1 DEF Typed
    <3>5. Typed'
      BY <1>1, <3>1, <3>2 DEF Typed
    <3>6. FilesPlaced'
      BY <1>0, <1>1 DEF FilesPlaced
    <3>7. RowsBacked'
      <4>1. ASSUME NEW i \in Ids, rows'[i] # NoRow, i # held.id
            PROVE  rows'[i].event.id = i /\ (Filled(i) \/ Expected(i))'
        <5>1. rows'[i] = rows[i]
          BY <3>4, <4>1
        <5>2. rows[i].event.id = i /\ (Filled(i) \/ Expected(i))
          BY <1>0, <4>1, <5>1 DEF RowsBacked, Rowed
        <5> QED
          BY <1>1, <5>1, <5>2 DEF Filled, Expected, FirstAccepted, Free
      <4>2. ASSUME NEW i \in Ids, i = held.id
            PROVE  rows'[i].event.id = i /\ Expected(i)'
        BY <1>1, <1>2, <3>2, <3>4, <4>2 DEF Expected, FirstAccepted, Free
      <4>3. ASSUME NEW a \in archive, a.at.dir = "accepted"
            PROVE  \E i \in Ids : rows'[i] # NoRow /\ rows'[i].event = EventOf[a.file]
        BY <1>0, <2>3, <3>4, <4>3 DEF RowsBacked
      <4> QED
        BY <1>1, <4>1, <4>2, <4>3 DEF RowsBacked, Rowed
    <3>8. FileHeld'
      BY <1>1, <1>2, <2>1, <3>2, <3>3, <3>4 DEF FileHeld, FirstAccepted, Free
    <3>9. RejectionIsJust'
      <4>1. ASSUME NEW f \in Files, EventOf[f] \in Events, Contradicted(EventOf[f])
            PROVE  Contradicted(EventOf[f])'
        BY <2>3, <3>4, <4>1, Constants DEF Contradicted
      <4>2. ASSUME NEW a \in archive, a.at.dir = "rejected"
            PROVE  \/ a.file \notin Renamed \/ EventOf[a.file] = NoEvent
                   \/ Contradicted(EventOf[a.file])'
        BY <1>0, <4>1, <4>2, Constants DEF RejectionIsJust, Typed
      <4> QED
        BY <1>1, <4>2 DEF RejectionIsJust, Contradicted
    <3> QED
      BY <3>5, <3>6, <3>7, <3>8, <3>9 DEF Ingesting
  <2> QED
    BY <2>2, <2>3
<1> QED
  BY <1>3, <1>4

(* A file is moved to a place that is free: nothing is replaced, and what  *)
(* was expected under other names still is.                                *)
LEMMA MoveKeepsFiles ==
    ASSUME Typed, FilesPlaced, NEW p \in Places, Free(p), MoveTo(p),
           file \in Names, inbox[file] # NoFile
    PROVE  /\ archive' = archive \cup {[at |-> p, file |-> inbox[file]]}
           /\ Typed' /\ FilesPlaced'
           /\ \A i \in Ids : rows[i] # NoRow /\ Filled(i) => Filled(i)'
           /\ \A i \in Ids : /\ rows[i] # NoRow /\ Expected(i)
                             /\ rows[i].source.name # file /\ p.name = file
                             => Expected(i)'
<1> DEFINE x == [at |-> p, file |-> inbox[file]]
<1>1. /\ archive' = archive \cup {x}
      /\ inbox' = [inbox EXCEPT ![file] = NoFile]
      /\ UNCHANGED <<unwritten, growing, rows>>
  BY DEF MoveTo, Free
<1>2. inbox[file] \in Files /\ NameOf[inbox[file]] = file /\ inbox[file] \notin unwritten
  BY DEF Typed, FilesPlaced
<1>3. /\ inbox'[file] = NoFile
      /\ \A n \in Names : n # file => inbox'[n] = inbox[n]
  BY <1>1 DEF Typed
<1>4. Typed'
  BY <1>1, <1>2 DEF Typed
<1>5. FilesPlaced'
  <2>1. ASSUME NEW n \in Names, inbox'[n] # NoFile
        PROVE  NameOf[inbox'[n]] = n /\ inbox'[n] \notin unwritten'
    BY <1>1, <1>3, <2>1 DEF FilesPlaced
  <2>2. ASSUME NEW a \in archive'
        PROVE  a.file \notin unwritten' /\ inbox'[NameOf[a.file]] # a.file
    <3>1. CASE a = x
      BY <1>1, <1>2, <1>3, <3>1, Constants
    <3>2. CASE a \in archive
      <4>1. a.file \in Files /\ NameOf[a.file] \in Names
        BY <3>2, Constants DEF Typed
      <4> QED
        BY <1>1, <1>3, <3>2, <4>1, Constants DEF FilesPlaced
    <3> QED
      BY <1>1, <3>1, <3>2
  <2>3. ASSUME NEW a \in archive', NEW b \in archive', a.file = b.file \/ a.at = b.at
        PROVE  a = b
    <3>1. ASSUME NEW c \in archive PROVE c.file # inbox[file] /\ c.at # p
      BY <1>2, <3>1 DEF FilesPlaced, Free
    <3> QED
      BY <1>1, <2>3, <3>1 DEF FilesPlaced
  <2>4. ASSUME NEW f \in Files \ unwritten'
        PROVE  inbox'[NameOf[f]] = f \/ \E a \in archive' : a.file = f
    <3>1. CASE NameOf[f] = file /\ inbox[file] = f
      <4>1. x \in archive' /\ x.file = f
        BY <1>1, <3>1
      <4> QED
        BY <4>1
    <3>2. CASE ~(NameOf[f] = file /\ inbox[file] = f)
      <4>1. NameOf[f] \in Names /\ f \in Files \ unwritten /\ f # NoFile
        BY <1>1, Constants
      <4>2. CASE inbox[NameOf[f]] = f
        BY <1>3, <3>2, <4>1, <4>2
      <4>3. CASE \E a \in archive : a.file = f
        BY <1>1, <4>3
      <4> QED
        BY <4>1, <4>2, <4>3 DEF FilesPlaced
    <3> QED
      BY <3>1, <3>2
  <2>5. (unwritten \cap growing = {} /\ growing \cap Renamed = {})'
    BY <1>1 DEF FilesPlaced
  <2> QED
    BY <2>1, <2>2, <2>3, <2>4, <2>5 DEF FilesPlaced
<1>6. ASSUME NEW i \in Ids, rows[i] # NoRow, Filled(i)
      PROVE  Filled(i)'
  BY <1>1, <1>6 DEF Filled
<1>7. ASSUME NEW i \in Ids, rows[i] # NoRow, Expected(i), rows[i].source.name # file, p.name = file
      PROVE  Expected(i)'
  <2> DEFINE n == rows[i].source.name
  <2>1. /\ n \in Names /\ inbox[n] \in Files /\ inbox[n] \notin growing
        /\ EventOf[inbox[n]] = rows[i].event
        /\ FirstAccepted(rows[i].source, i, n)
    BY <1>7, ExpectedName
  <2>2. \A q \in AcceptedPlaces(i, n) : q # p
    BY <1>7 DEF AcceptedPlaces
  <2>3. \A q \in AcceptedPlaces(i, n) : (\A a \in archive' : a.at # q) <=> (\A a \in archive : a.at # q)
    BY <1>1, <2>2
  <2>4. inbox'[n] = inbox[n] /\ inbox[n] # NoFile
    BY <1>3, <1>7, <2>1, Constants
  <2>5. rows[i].source \in AcceptedPlaces(i, n)
    BY <2>1 DEF FirstAccepted
  <2>6. PICK m \in Names : m = n
    BY <2>1
  <2> HIDE DEF n
  <2> QED
    BY <1>1, <2>1, <2>3, <2>4, <2>5, <2>6 DEF Expected, FirstAccepted, Free
<1> QED
  BY <1>1, <1>4, <1>5, <1>6, <1>7

LEMMA MoveKeeps ==
    ASSUME Typed, Ingesting, Move
    PROVE  Typed' /\ Ingesting'
<1>0. FilesPlaced /\ RowsBacked /\ FileHeld /\ RejectionIsJust
  BY DEF Ingesting
<1>1. /\ file \in Names /\ inbox[file] # NoFile /\ held \in Events /\ held.id \in Ids
      /\ held = EventOf[inbox[file]]
      /\ FirstAccepted(place, held.id, file)
      /\ rows[held.id] # NoRow /\ rows[held.id].event = held
  BY <1>0, Constants DEF Move, FileHeld
<1>2. place \in Places /\ Free(place) /\ place.name = file /\ place.dir = "accepted"
  BY <1>1 DEF FirstAccepted, AcceptedPlaces
<1>3. MoveTo(place) /\ UNCHANGED rows /\ pc' = "ingest"
  BY DEF Move, MoveTo
<1> DEFINE x == [at |-> place, file |-> inbox[file]]
<1>4. PICK p \in Places : p = place
  BY <1>2
<1>5. /\ archive' = archive \cup {x}
      /\ Typed' /\ FilesPlaced'
      /\ \A i \in Ids : rows[i] # NoRow /\ Filled(i) => Filled(i)'
      /\ \A i \in Ids : /\ rows[i] # NoRow /\ Expected(i)
                        /\ rows[i].source.name # file /\ p.name = file
                        => Expected(i)'
  BY <1>0, <1>1, <1>2, <1>3, <1>4, MoveKeepsFiles
<1>6. ASSUME NEW i \in Ids, rows[i] # NoRow
      PROVE  Filled(i)' \/ Expected(i)'
  <2>1. CASE Filled(i)
    BY <1>5, <1>6, <2>1
  <2>2. CASE Expected(i) /\ rows[i].source.name # file
    BY <1>2, <1>4, <1>5, <1>6, <2>2
  <2>3. CASE Expected(i) /\ rows[i].source.name = file
    <3>1. /\ EventOf[inbox[file]] = rows[i].event
          /\ FirstAccepted(rows[i].source, i, file)
      BY <1>6, <2>3, ExpectedName
    <3>2. rows[i].event = held /\ i = held.id
      BY <1>0, <1>1, <1>6, <3>1 DEF RowsBacked, Rowed
    <3>3. rows[i].source = place
      <4>1. rows[i].source.index <= place.index /\ place.index <= rows[i].source.index
        BY <1>1, <3>1, <3>2 DEF FirstAccepted
      <4>2. rows[i].source.index \in Nat /\ place.index \in Nat
        BY <1>1, <3>1, <3>2, PlaceTypes DEF FirstAccepted
      <4>3. rows[i].source.index = place.index
        BY <4>1, <4>2
      <4> QED
        BY <1>1, <3>1, <3>2, <4>3 DEF FirstAccepted, AcceptedPlaces, Places
    <3> QED
      BY <1>3, <1>5, <3>1, <3>3 DEF Filled
  <2> QED
    BY <1>0, <1>6, <2>1, <2>2, <2>3 DEF RowsBacked, Rowed
<1>7. RowsBacked'
  <2>1. ASSUME NEW a \in archive', a.at.dir = "accepted"
        PROVE  \E i \in Ids : rows[i] # NoRow /\ rows[i].event = EventOf[a.file]
    BY <1>0, <1>1, <1>5, <2>1 DEF RowsBacked
  <2> QED
    BY <1>0, <1>3, <1>6, <2>1 DEF RowsBacked, Rowed
<1>8. FileHeld'
  BY <1>3 DEF FileHeld
<1>9. RejectionIsJust'
  BY <1>0, <1>2, <1>3, <1>5 DEF RejectionIsJust, Contradicted
<1> QED
  BY <1>5, <1>7, <1>8, <1>9 DEF Ingesting

LEMMA RejectKeeps ==
    ASSUME Typed, Ingesting, Reject
    PROVE  Typed' /\ Ingesting'
<1>0. FilesPlaced /\ RowsBacked /\ FileHeld /\ RejectionIsJust
  BY DEF Ingesting
<1>1. /\ file \in Names /\ inbox[file] # NoFile
      /\ \/ inbox[file] \notin Renamed
         \/ EventOf[inbox[file]] = NoEvent
         \/ Contradicted(EventOf[inbox[file]])
      /\ \A i \in Rowed : rows[i].source.name = file => Filled(i)
  BY <1>0 DEF Reject, FileHeld
<1>2. PICK n \in Names : n = file
  BY <1>1
<1>3. PICK p : p = UniqueDestination(RejectedPlaces(n))
  OBVIOUS
<1>4. p \in Places /\ Free(p) /\ p.name = file /\ p.dir = "rejected"
  <2> DEFINE P == RejectedPlaces(n)
  <2>1. P \subseteq Places /\ \A k \in 0 .. Cardinality(Files) : \E q \in P : q.index = k
    <3>1. ASSUME NEW k \in 0 .. Cardinality(Files) PROVE \E q \in P : q.index = k
      <4>1. [dir |-> "rejected", name |-> n, index |-> k] \in P
        BY DEF RejectedPlaces, Places
      <4> QED
        BY <4>1
    <3> QED
      BY <3>1 DEF RejectedPlaces
  <2>2. UniqueDestination(P) \in P /\ Free(UniqueDestination(P))
    <3> HIDE DEF P
    <3> QED
      BY <1>0, <2>1, FirstFreeIsFree
  <2> QED
    BY <1>2, <1>3, <2>1, <2>2 DEF RejectedPlaces
<1>5. MoveTo(p) /\ UNCHANGED rows /\ pc' = "ingest"
  BY <1>2, <1>3 DEF Reject, MoveTo
<1> DEFINE x == [at |-> p, file |-> inbox[file]]
<1>6. /\ archive' = archive \cup {x}
      /\ Typed' /\ FilesPlaced'
      /\ \A i \in Ids : rows[i] # NoRow /\ Filled(i) => Filled(i)'
      /\ \A i \in Ids : /\ rows[i] # NoRow /\ Expected(i)
                        /\ rows[i].source.name # file /\ p.name = file
                        => Expected(i)'
  BY <1>0, <1>1, <1>4, <1>5, MoveKeepsFiles
<1>7. ASSUME NEW i \in Ids, rows[i] # NoRow
      PROVE  Filled(i)' \/ Expected(i)'
  BY <1>0, <1>1, <1>4, <1>6, <1>7 DEF RowsBacked, Rowed
<1>8. RowsBacked'
  <2>1. ASSUME NEW a \in archive', a.at.dir = "accepted"
        PROVE  \E i \in Ids : rows[i] # NoRow /\ rows[i].event = EventOf[a.file]
    BY <1>0, <1>4, <1>6, <2>1 DEF RowsBacked
  <2> QED
    BY <1>0, <1>5, <1>7, <2>1 DEF RowsBacked, Rowed
<1>9. FileHeld'
  BY <1>5 DEF FileHeld
<1>10. RejectionIsJust'
  <2>1. ASSUME NEW a \in archive', a.at.dir = "rejected"
        PROVE  \/ a.file \notin Renamed \/ EventOf[a.file] = NoEvent
               \/ Contradicted(EventOf[a.file])
    BY <1>0, <1>1, <1>6, <2>1 DEF RejectionIsJust
  <2> QED
    BY <1>5, <2>1 DEF RejectionIsJust, Contradicted
<1> QED
  BY <1>6, <1>8, <1>9, <1>10 DEF Ingesting

-----------------------------------------------------------------------------
(* Rows are numbered in the order in which they were made.                 *)

Numbered ==
    /\ IsFiniteSet(Rowed)
    /\ \A i \in Rowed : rows[i].born <= Cardinality(Rowed)
    /\ \A i, j \in Rowed : rows[i].born = rows[j].born => i = j

LEMMA NumbersKept ==
    ASSUME Numbered, KeptRows
    PROVE  Numbered'
<1>1. Rowed' = Rowed
  BY DEF KeptRows, Rowed
<1>2. \A i \in Rowed : rows'[i].born = rows[i].born
  BY DEF KeptRows, Rowed
<1> QED
  BY <1>1, <1>2 DEF Numbered

LEMMA NumbersGrow ==
    ASSUME Typed, Numbered, Enqueue, held.id \in Ids
    PROVE  Numbered'
<1>1. CASE UNCHANGED rows
  <2>1. Rowed' = Rowed
    BY <1>1 DEF Rowed
  <2> QED
    BY <1>1, <2>1 DEF Numbered
<1>2. CASE rows[held.id] = NoRow /\ rows' = [rows EXCEPT ![held.id] = NewRow(held)]
  <2> DEFINE N == Cardinality(Rowed)
  <2>1. N \in Nat /\ IsFiniteSet(Rowed)
    BY FS_CardinalityType DEF Numbered
  <2>2. /\ rows'[held.id].born = N + 1
        /\ \A i \in Ids : i # held.id => rows'[i] = rows[i]
    BY <1>2 DEF Typed, NewRow, Rowed
  <2>3. held.id \notin Rowed
    BY <1>2 DEF Rowed
  <2>4. CASE Rowed' = Rowed
    <3>1. \A i \in Rowed : rows'[i] = rows[i]
      BY <2>2, <2>3 DEF Rowed
    <3> QED
      BY <2>4, <3>1 DEF Numbered
  <2>5. CASE Rowed' = Rowed \cup {held.id}
    <3>1. IsFiniteSet(Rowed') /\ Cardinality(Rowed') = N + 1
      BY <2>1, <2>3, <2>5, FS_AddElement
    <3>2. ASSUME NEW i \in Rowed
          PROVE  rows'[i] = rows[i] /\ rows[i].born \in Nat /\ rows[i].born <= N
      BY <2>2, <2>3, <3>2 DEF Rowed, Typed, Row, Numbered
    <3>3. ASSUME NEW i \in Rowed' PROVE rows'[i].born <= N + 1
      <4> HIDE DEF N
      <4> QED
        BY <2>1, <2>2, <2>5, <3>2
    <3>4. ASSUME NEW i \in Rowed', NEW j \in Rowed', rows'[i].born = rows'[j].born
          PROVE  i = j
      <4>1. CASE i \in Rowed /\ j \in Rowed
        BY <3>2, <3>4, <4>1 DEF Numbered
      <4>2. CASE i = held.id /\ j = held.id
        BY <4>2
      <4>3. CASE (i \in Rowed /\ j = held.id) \/ (i = held.id /\ j \in Rowed)
        <5> HIDE DEF N
        <5> QED
          BY <2>1, <2>2, <3>2, <3>4, <4>3
      <4> QED
        BY <2>5, <4>1, <4>2, <4>3
    <3> QED
      BY <3>1, <3>3, <3>4 DEF Numbered
  <2>6. Rowed' = Rowed \/ Rowed' = Rowed \cup {held.id}
    <3>1. \A i \in Ids : i # held.id => (i \in Rowed' <=> i \in Rowed)
      BY <2>2 DEF Rowed
    <3>2. Rowed \subseteq Ids /\ Rowed' \subseteq Ids
      BY DEF Rowed
    <3> QED
      BY <2>3, <3>1, <3>2
  <2> QED
    BY <2>4, <2>5, <2>6
<1> QED
  BY <1>1, <1>2 DEF Enqueue

(* A batch is no larger than its limit: the rows in it have different      *)
(* numbers of older ready rows, all below the limit.                       *)
LEMMA BatchSize ==
    ASSUME Typed, Numbered
    PROVE  /\ Oldest \subseteq Rowed
           /\ IsFiniteSet(Oldest) /\ Cardinality(Oldest) <= BatchLimit
<1> DEFINE Older(i) == {j \in Ids : Ready(j) /\ rows[j].born < rows[i].born}
<1>1. \A i \in Ids : Ready(i) => i \in Rowed
  BY DEF Ready, Reclaimed, Is, Rowed
<1>2. \A i \in Rowed : rows[i].born \in Nat
  BY DEF Rowed, Typed, Row
<1>3. IsFiniteSet(Rowed)
  BY DEF Numbered
<1>4. ASSUME NEW i \in Oldest
      PROVE  /\ i \in Rowed /\ Ready(i) /\ IsFiniteSet(Older(i))
             /\ Cardinality(Older(i)) \in 0 .. BatchLimit - 1
  <2>1. i \in Rowed /\ Ready(i) /\ Cardinality(Older(i)) < BatchLimit
    BY <1>1 DEF Oldest
  <2>2. Older(i) \in SUBSET Rowed
    BY <1>1
  <2>3. IsFiniteSet(Older(i))
    <3> HIDE DEF Older
    <3> QED BY <1>3, <2>2, FS_Subset
  <2>4. Cardinality(Older(i)) \in Nat
    BY <2>3, FS_CardinalityType
  <2> QED
    BY <2>1, <2>3, <2>4, Constants
<1>5. ASSUME NEW i \in Oldest, NEW j \in Oldest, rows[i].born < rows[j].born
      PROVE  Cardinality(Older(i)) # Cardinality(Older(j))
  <2>0. i \in Rowed /\ j \in Rowed /\ i \in Ids /\ Ready(i)
    BY <1>4 DEF Rowed
  <2>1. Older(i) \in SUBSET Older(j)
    <3>1. \A k \in Ids : Ready(k) => rows[k].born \in Nat
      BY <1>1, <1>2
    <3>2. rows[i].born \in Nat /\ rows[j].born \in Nat
      BY <1>2, <2>0
    <3> QED
      BY <1>5, <3>1, <3>2
  <2>2. i \in Older(j) /\ i \notin Older(i)
    BY <1>2, <1>5, <2>0
  <2>3. IsFiniteSet(Older(j))
    BY <1>4
  <2> HIDE DEF Older
  <2> QED
    BY <2>1, <2>2, <2>3, FS_Subset
<1>6. ASSUME NEW i \in Oldest, NEW j \in Oldest, Cardinality(Older(i)) = Cardinality(Older(j))
      PROVE  i = j
  <2>1. ~(rows[i].born < rows[j].born) /\ ~(rows[j].born < rows[i].born)
    BY <1>5, <1>6
  <2>2. i \in Rowed /\ j \in Rowed
    BY <1>4
  <2>3. rows[i].born = rows[j].born
    BY <1>2, <2>1, <2>2
  <2> QED
    BY <2>2, <2>3 DEF Numbered
<1> DEFINE g == [i \in Oldest |-> Cardinality(Older(i))]
<1>7. g \in Injection(Oldest, 0 .. BatchLimit - 1)
  <2> HIDE DEF Older
  <2>1. g \in [Oldest -> 0 .. BatchLimit - 1]
    BY <1>4
  <2>2. \A i, j \in Oldest : g[i] = g[j] => i = j
    BY <1>6
  <2> QED
    BY <2>1, <2>2 DEF Injection, IsInjective
<1>8. IsFiniteSet(0 .. BatchLimit - 1) /\ Cardinality(0 .. BatchLimit - 1) <= BatchLimit
  <2>1. BatchLimit - 1 \in Int /\ 0 \in Int
    BY Constants
  <2>2. /\ IsFiniteSet(0 .. BatchLimit - 1)
        /\ Cardinality(0 .. BatchLimit - 1) =
              IF 0 > BatchLimit - 1 THEN 0 ELSE (BatchLimit - 1) - 0 + 1
    BY <2>1, FS_Interval
  <2> QED
    BY <2>2, Constants
<1>9. IsFiniteSet(Oldest) /\ Cardinality(Oldest) <= Cardinality(0 .. BatchLimit - 1)
  <2> DEFINE T == 0 .. BatchLimit - 1
  <2>1. g \in Injection(Oldest, T) /\ IsFiniteSet(T)
    BY <1>7, <1>8
  <2> HIDE DEF g, T
  <2>2. IsFiniteSet(Oldest) /\ Cardinality(Oldest) <= Cardinality(T)
    BY <2>1, FS_Injection
  <2> QED
    BY <2>2 DEF T
<1>10. Cardinality(Oldest) \in Nat /\ Cardinality(0 .. BatchLimit - 1) \in Nat
  BY <1>8, <1>9, FS_CardinalityType
<1>11. Cardinality(Oldest) <= BatchLimit
  BY <1>8, <1>9, <1>10, Constants
<1> QED
  BY <1>4, <1>9, <1>11

-----------------------------------------------------------------------------
(* Delivery.                                                               *)

\* The row of the batch that is sent and settled first.
IsFirst(i) == i \in batch /\ \A j \in batch : rows[i].born <= rows[j].born

Decided(i) == \E d \in decisions : d.event = rows[i].event

Sending ==
    /\ batch \subseteq Rowed
    /\ pc \notin {"send", "settle", "receipt"} => batch = {}
    /\ pc \in {"settle", "receipt"} => batch # {}
    /\ pc \in {"send", "settle"} => \A i \in batch : rows[i].state = "inflight"
    /\ pc = "settle" => answer \in {"answered", "retry", "refused"}
    /\ pc = "receipt" => answer \in {"answered", "refused"}
    /\ pc \in {"settle", "receipt"} => \A i \in batch : IsFirst(i) =>
          /\ answer = "answered" => Decided(i)
          /\ answer = "refused" => rows[i].event \in Refused
    /\ pc = "receipt" => \A i \in batch :
          /\ IsFirst(i) => rows[i].state = IF answer = "answered" THEN "completed" ELSE "failed"
          /\ ~IsFirst(i) => rows[i].state = "inflight"

\* What the edge has decided and may still decide, and what the bridge made
\* of it.
Edge ==
    /\ \A d \in decisions :
          /\ d.key = <<d.event.id, 0>> /\ d.event \in Events \ Refused
          /\ d.event.id \in Rowed /\ rows[d.event.id].event = d.event
    /\ decisions \subseteq [key: Ids \X (0 .. 1), event: Events]
    /\ stray \subseteq Rowed /\ \A i \in stray : rows[i].event \notin Refused
    /\ \A i \in Rowed : /\ rows[i].state = "completed" => Decided(i)
                        /\ rows[i].state = "failed" => rows[i].event \in Refused
    /\ \A i \in Ids : /\ receipts[i] = "delivered" => Is(i, {"completed"})
                      /\ receipts[i] = "failed" => Is(i, {"failed"})

(* First is the only row of the batch that is first.                       *)
LEMMA FirstOfBatch ==
    ASSUME Typed, Numbered, batch \subseteq Rowed, batch # {}
    PROVE  IsFirst(First) /\ \A i \in batch : IsFirst(i) => i = First
<1>1. \A i \in batch : i \in Ids /\ rows[i].born \in Nat
  BY DEF Rowed, Typed, Row
<1> DEFINE f == [i \in batch |-> rows[i].born]
<1>2. \E i \in batch : \A j \in batch : f[i] <= f[j]
  <2>1. \A i \in batch : f[i] \in Nat
    BY <1>1
  <2> HIDE DEF f
  <2> QED
    BY <2>1, SmallestOf
<1>3. \E i \in batch : \A j \in batch : rows[i].born <= rows[j].born
  BY <1>2
<1>4. IsFirst(First)
  BY <1>3 DEF First, IsFirst
<1>5. ASSUME NEW i \in batch, IsFirst(i) PROVE i = First
  <2>1. First \in batch /\ rows[i].born <= rows[First].born /\ rows[First].born <= rows[i].born
    BY <1>4, <1>5 DEF IsFirst
  <2>2. rows[i].born = rows[First].born
    BY <1>1, <2>1
  <2> QED
    BY <2>1, <2>2 DEF Numbered
<1> QED
  BY <1>4, <1>5

(* The four steps that change the state of rows.                           *)
LEMMA ClaimRows ==
    ASSUME Typed, Claim
    PROVE  /\ KeptRows
           /\ \A i \in Ids : Is(i, Ended) => rows'[i] = rows[i]
           /\ \A i \in Ids : rows'[i] # NoRow /\ rows'[i].state \in Ended => Is(i, Ended)
           /\ \A i \in Oldest : rows'[i] # NoRow /\ rows'[i].state = "inflight"
<1>1. rows' = [i \in Ids |-> IF i \in Oldest
                  THEN [Reclaimed(i) EXCEPT !.state = "inflight", !.leased = TRUE]
                  ELSE Reclaimed(i)]
  BY DEF Claim
<1>2. ASSUME NEW i \in Ids
      PROVE  /\ rows'[i] \in Row \cup {NoRow}
             /\ rows'[i] = NoRow <=> rows[i] = NoRow
             /\ rows[i] # NoRow => /\ rows'[i].event = rows[i].event
                                   /\ rows'[i].source = rows[i].source
                                   /\ rows'[i].born = rows[i].born
             /\ Is(i, Ended) => rows'[i] = rows[i]
             /\ rows'[i] # NoRow /\ rows'[i].state \in Ended => Is(i, Ended)
             /\ i \in Oldest => rows'[i] # NoRow /\ rows'[i].state = "inflight"
  <2>1. CASE rows[i] = NoRow
    <3>1. Reclaimed(i) = NoRow /\ i \notin Oldest
      BY <2>1 DEF Reclaimed, Is, Oldest, Ready
    <3> QED
      BY <1>1, <2>1, <3>1 DEF Is
  <2>2. CASE rows[i] # NoRow
    <3> DEFINE r == Reclaimed(i)
    <3>1. rows[i] \in Row
      BY <2>2 DEF Typed
    <3>2. /\ r \in Row /\ r.event = rows[i].event /\ r.source = rows[i].source
          /\ r.born = rows[i].born
          /\ rows[i].state \in Ended => r = rows[i]
          /\ r.state \in Ended => rows[i].state \in Ended
      BY <3>1 DEF Reclaimed, Is, Row, Ended
    <3>3. CASE i \in Oldest
      <4>1. r.state = "pending"
        BY <3>3 DEF Oldest, Ready
      <4>2. rows'[i] = [r EXCEPT !.state = "inflight", !.leased = TRUE]
        BY <1>1, <3>3
      <4> HIDE DEF r
      <4>3. /\ rows'[i] \in Row /\ rows'[i].state = "inflight"
            /\ rows'[i].event = r.event /\ rows'[i].source = r.source /\ rows'[i].born = r.born
        BY <3>2, <4>2 DEF Row
      <4> QED
        BY <2>2, <3>2, <4>1, <4>3, Constants DEF Is, Ended
    <3>4. CASE i \notin Oldest
      <4>1. rows'[i] = r
        BY <1>1, <3>4
      <4> HIDE DEF r
      <4> QED
        BY <2>2, <3>2, <3>4, <4>1, Constants DEF Is
    <3> QED
      BY <3>3, <3>4
  <2> QED
    BY <2>1, <2>2
<1>3. Oldest \subseteq Ids
  BY DEF Oldest
<1> QED
  BY <1>1, <1>2, <1>3 DEF KeptRows

LEMMA TimeRows ==
    ASSUME Typed, NEW k \in Ids, LeaseExpires(k) \/ BackoffElapses(k)
    PROVE  /\ KeptRows
           /\ \A i \in Ids : Is(i, Ended) => rows'[i] = rows[i]
           /\ \A i \in Ids : rows[i] # NoRow => rows'[i].state = rows[i].state
<1>1. rows[k] \in Row /\ rows[k].state \notin Ended
  BY DEF LeaseExpires, BackoffElapses, Is, Typed, Ended
<1>2. rows' = [rows EXCEPT ![k].leased = FALSE] \/ rows' = [rows EXCEPT ![k].waiting = FALSE]
  BY DEF LeaseExpires, BackoffElapses
<1>3. \A i \in Ids : i # k => rows'[i] = rows[i]
  BY <1>2 DEF Typed
<1>4. /\ rows'[k] \in Row /\ rows'[k].state = rows[k].state
      /\ rows'[k].event = rows[k].event /\ rows'[k].source = rows[k].source
      /\ rows'[k].born = rows[k].born
  <2>1. \/ rows'[k] = [rows[k] EXCEPT !.leased = FALSE]
        \/ rows'[k] = [rows[k] EXCEPT !.waiting = FALSE]
    BY <1>2 DEF Typed
  <2> QED
    BY <1>1, <2>1 DEF Row
<1>5. rows' \in [Ids -> Row \cup {NoRow}]
  BY <1>2, <1>3, <1>4 DEF Typed
<1> QED
  BY <1>1, <1>3, <1>4, <1>5, Constants DEF KeptRows, Is

LEMMA SettleRows ==
    ASSUME Typed, Numbered, Sending, Settle
    PROVE  /\ KeptRows /\ First \in batch
           /\ \A i \in Ids : i # First => rows'[i] = rows[i]
           /\ rows[First].state = "inflight"
           /\ rows'[First].state = CASE answer = "answered" -> "completed"
                                     [] answer = "refused" -> "failed"
                                     [] answer = "retry" -> "pending"
<1>1. /\ First \in batch /\ First \in Ids /\ rows[First] \in Row
      /\ rows[First].state = "inflight" /\ answer \in {"answered", "retry", "refused"}
  BY FirstOfBatch DEF Settle, Sending, IsFirst, Rowed, Typed
<1> DEFINE s == CASE answer = "answered" -> "completed"
                  [] answer = "refused" -> "failed"
                  [] answer = "retry" -> "pending"
<1>2. s \in {"completed", "failed", "pending"}
  BY <1>1
<1>3. PICK k \in Ids : k = First
  BY <1>1
<1>4. rows' = [rows EXCEPT ![k].state = s, ![k].leased = FALSE, ![k].waiting = (answer = "retry")]
  BY <1>3 DEF Settle
<1> HIDE DEF s
<1>5. (answer = "retry") \in BOOLEAN
  OBVIOUS
<1>6. \A i \in Ids : i # k => rows'[i] = rows[i]
  BY <1>4 DEF Typed
<1>7. /\ rows'[k] \in Row /\ rows'[k].state = s
      /\ rows'[k].event = rows[k].event /\ rows'[k].source = rows[k].source
      /\ rows'[k].born = rows[k].born
  BY <1>1, <1>2, <1>3, <1>4, <1>5 DEF Typed, Row
<1>8. rows' \in [Ids -> Row \cup {NoRow}]
  BY <1>4, <1>6, <1>7 DEF Typed
<1> QED
  BY <1>1, <1>3, <1>6, <1>7, <1>8, Constants DEF KeptRows, s

(* The edge decides on a row it does not refuse: once, and on its body.    *)
LEMMA DecidingKeepsEdge ==
    ASSUME Typed, RowsBacked, Edge, NEW i \in Rowed, rows[i].event \notin Refused,
           EdgeDecides(i), UNCHANGED <<rows, receipts>>, stray' \subseteq stray \cup {i}
    PROVE  /\ Edge' /\ Decided(i)'
           /\ \A j \in Ids : Decided(j) => Decided(j)'
<1>1. i \in Ids /\ rows[i].event \in Events /\ rows[i].event.id = i
  BY DEF Rowed, Typed, Row, RowsBacked
<1> DEFINE d0 == [key |-> <<i, 0>>, event |-> rows[i].event]
<1>2. CASE \E d \in decisions : d.key = <<i, 0>>
  <2>1. decisions' = decisions
    BY <1>2 DEF EdgeDecides, RequestKey, KeyOfEvent
  <2>2. PICK d \in decisions : d.key = <<i, 0>>
    BY <1>2
  <2>3. d.event.id = i /\ rows[d.event.id].event = d.event
    BY <2>2 DEF Edge
  <2>4. Decided(i)
    BY <2>3 DEF Decided
  <2>5. Edge'
    BY <2>1 DEF Edge, Decided, Rowed, Is
  <2> QED
    BY <2>1, <2>4, <2>5 DEF Decided
<1>3. CASE ~(\E d \in decisions : d.key = <<i, 0>>)
  <2>1. decisions' = decisions \cup {d0}
    BY <1>3 DEF EdgeDecides, RequestKey, KeyOfEvent
  <2>2. d0.key = <<d0.event.id, 0>> /\ d0.event = rows[i].event /\ d0.event.id = i
    BY <1>1
  <2>3. d0 \in [key: Ids \X (0 .. 1), event: Events]
    BY <1>1
  <2> HIDE DEF d0
  <2>4. \A j \in Ids : Decided(j) => Decided(j)'
    BY <2>1 DEF Decided
  <2>5. Decided(i)'
    BY <2>1, <2>2 DEF Decided
  <2>6. ASSUME NEW d \in decisions'
        PROVE  /\ d.key = <<d.event.id, 0>> /\ d.event \in Events \ Refused
               /\ d.event.id \in Rowed /\ rows[d.event.id].event = d.event
    BY <1>1, <2>1, <2>2 DEF Edge
  <2>7. Rowed' = Rowed /\ Rowed \subseteq Ids
    BY DEF Rowed
  <2>8. \A j \in Rowed : /\ rows'[j].state = "completed" => Decided(j)'
                         /\ rows'[j].state = "failed" => rows'[j].event \in Refused
    BY <2>4, <2>7 DEF Edge
  <2>9. /\ decisions' \subseteq [key: Ids \X (0 .. 1), event: Events]
        /\ stray' \subseteq Rowed /\ \A j \in stray' : rows[j].event \notin Refused
        /\ \A j \in Ids : /\ receipts[j] = "delivered" => Is(j, {"completed"})
                          /\ receipts[j] = "failed" => Is(j, {"failed"})
    BY <2>1, <2>3 DEF Edge
  <2>10. Edge'
    BY <2>6, <2>7, <2>8, <2>9 DEF Edge, Is
  <2> QED
    BY <2>4, <2>5, <2>10
<1> QED
  BY <1>2, <1>3

(* Steps of rows that end none.                                            *)
LEMMA RowStepKeepsEdge ==
    ASSUME Typed, Edge, KeptRows, UNCHANGED <<decisions, stray, receipts>>,
           \A i \in Ids : Is(i, Ended) => rows'[i] = rows[i],
           \A i \in Ids : rows'[i] # NoRow /\ rows'[i].state \in Ended => Is(i, Ended)
    PROVE  Edge'
<1>1. Rowed' = Rowed /\ Rowed \subseteq Ids
  BY DEF KeptRows, Rowed
<1>2. \A i \in Rowed : rows'[i].event = rows[i].event
  BY <1>1 DEF KeptRows, Rowed
<1>3. \A d \in decisions : /\ d.key = <<d.event.id, 0>> /\ d.event \in Events \ Refused
                           /\ d.event.id \in Rowed /\ rows'[d.event.id].event = d.event
  BY <1>2 DEF Edge
<1>4. ASSUME NEW i \in Rowed
      PROVE  /\ rows'[i].state = "completed" => Decided(i)'
             /\ rows'[i].state = "failed" => rows'[i].event \in Refused
  <2>1. CASE Is(i, Ended)
    BY <1>1, <1>2, <2>1 DEF Edge, Decided
  <2>2. CASE ~Is(i, Ended)
    BY <1>1, <2>2 DEF Ended, Rowed
  <2> QED
    BY <2>1, <2>2
<1>5. ASSUME NEW i \in Ids
      PROVE  /\ receipts[i] = "delivered" => rows'[i] # NoRow /\ rows'[i].state \in {"completed"}
             /\ receipts[i] = "failed" => rows'[i] # NoRow /\ rows'[i].state \in {"failed"}
  BY DEF Edge, Is, Ended
<1>6. /\ decisions \subseteq [key: Ids \X (0 .. 1), event: Events]
      /\ stray \subseteq Rowed /\ \A i \in stray : rows'[i].event \notin Refused
  BY <1>2 DEF Edge
<1> QED
  BY <1>1, <1>3, <1>4, <1>5, <1>6 DEF Edge, Is

LEMMA EnqueueKeepsEdge ==
    ASSUME Typed, Ingesting, Edge, IsFiniteSet(Rowed), Enqueue
    PROVE  Edge'
<1>0. UNCHANGED <<decisions, stray, receipts>> /\ held \in Events /\ held.id \in Ids
  BY Constants DEF Enqueue, edgeVars, Ingesting, FileHeld
<1>1. CASE UNCHANGED rows
  BY <1>0, <1>1 DEF Edge, Decided, Rowed, Is
<1>2. CASE rows[held.id] = NoRow /\ rows' = [rows EXCEPT ![held.id] = NewRow(held)]
  <2>1. \A i \in Ids : rows[i] # NoRow => rows'[i] = rows[i] /\ i # held.id
    BY <1>2 DEF Typed
  <2>2. rows'[held.id].state = "pending"
    BY <1>0, <1>2 DEF Typed, NewRow
  <2>3. Rowed \subseteq Rowed' /\ Rowed' \subseteq Rowed \cup {held.id}
    BY <1>0, <1>2, <2>1 DEF Rowed, Typed
  <2>4. \A i \in Rowed : rows'[i] = rows[i] /\ i \in Ids
    BY <2>1 DEF Rowed
  <2>5. \A d \in decisions : /\ d.key = <<d.event.id, 0>> /\ d.event \in Events \ Refused
                             /\ d.event.id \in Rowed' /\ rows'[d.event.id].event = d.event
    BY <2>3, <2>4 DEF Edge
  <2>6. \A i \in Rowed' : /\ rows'[i].state = "completed" => Decided(i)'
                          /\ rows'[i].state = "failed" => rows'[i].event \in Refused
    BY <1>0, <2>2, <2>3, <2>4 DEF Edge, Decided
  <2>7. /\ decisions \subseteq [key: Ids \X (0 .. 1), event: Events]
        /\ stray \subseteq Rowed' /\ \A i \in stray : rows'[i].event \notin Refused
    BY <2>3, <2>4 DEF Edge
  <2>8. \A i \in Ids : Is(i, {"completed"}) \/ Is(i, {"failed"}) => rows'[i] = rows[i]
    BY <2>1 DEF Is
  <2>9. \A i \in Ids :
           /\ receipts[i] = "delivered" => rows'[i] # NoRow /\ rows'[i].state \in {"completed"}
           /\ receipts[i] = "failed" => rows'[i] # NoRow /\ rows'[i].state \in {"failed"}
    BY <2>8 DEF Edge, Is
  <2> QED
    BY <1>0, <2>5, <2>6, <2>7, <2>9 DEF Edge, Is
<1> QED
  BY <1>1, <1>2 DEF Enqueue

LEMMA SettleKeepsEdge ==
    ASSUME Typed, Numbered, Sending, Edge, Settle
    PROVE  Edge'
<1>0. UNCHANGED <<decisions, stray, receipts>> /\ pc = "settle"
  BY DEF Settle, edgeVars
<1>1. /\ KeptRows /\ First \in batch
      /\ \A i \in Ids : i # First => rows'[i] = rows[i]
      /\ rows[First].state = "inflight"
      /\ rows'[First].state = CASE answer = "answered" -> "completed"
                                [] answer = "refused" -> "failed"
                                [] answer = "retry" -> "pending"
  BY SettleRows
<1>2. Rowed' = Rowed /\ Rowed \subseteq Ids /\ First \in Rowed
  BY <1>1 DEF KeptRows, Rowed, Sending
<1>3. \A i \in Rowed : rows'[i].event = rows[i].event
  BY <1>1, <1>2 DEF KeptRows, Rowed
<1>4. /\ answer \in {"answered", "retry", "refused"}
      /\ answer = "answered" => Decided(First)
      /\ answer = "refused" => rows[First].event \in Refused
  BY <1>0, <1>1, FirstOfBatch DEF Sending
<1>5. ASSUME NEW i \in Rowed
      PROVE  /\ rows'[i].state = "completed" => Decided(i)'
             /\ rows'[i].state = "failed" => rows'[i].event \in Refused
  <2>1. CASE i = First
    <3>1. rows'[i].state = "completed" => answer = "answered"
      BY <1>1, <1>4, <2>1
    <3>2. rows'[i].state = "failed" => answer = "refused"
      BY <1>1, <1>4, <2>1
    <3>3. Decided(First) => \E d \in decisions : d.event = rows'[i].event
      BY <1>3, <2>1 DEF Decided
    <3> QED
      BY <1>0, <1>3, <1>4, <2>1, <3>1, <3>2, <3>3 DEF Decided
  <2>2. CASE i # First
    BY <1>0, <1>1, <1>2, <2>2 DEF Edge, Decided
  <2> QED
    BY <2>1, <2>2
<1>6. ASSUME NEW i \in Ids
      PROVE  /\ receipts[i] = "delivered" => rows'[i] # NoRow /\ rows'[i].state \in {"completed"}
             /\ receipts[i] = "failed" => rows'[i] # NoRow /\ rows'[i].state \in {"failed"}
  BY <1>1 DEF Edge, Is
<1>7. /\ \A d \in decisions : /\ d.key = <<d.event.id, 0>> /\ d.event \in Events \ Refused
                              /\ d.event.id \in Rowed /\ rows'[d.event.id].event = d.event
      /\ decisions \subseteq [key: Ids \X (0 .. 1), event: Events]
      /\ stray \subseteq Rowed /\ \A i \in stray : rows'[i].event \notin Refused
  BY <1>3 DEF Edge
<1> QED
  BY <1>0, <1>2, <1>5, <1>6, <1>7 DEF Edge, Is

LEMMA ReceiptKeepsEdge ==
    ASSUME Typed, Numbered, Sending, Edge, receipts \in [Ids -> {"none", "delivered", "failed"}],
           WriteReceipt
    PROVE  Edge'
<1>0. /\ UNCHANGED <<decisions, stray, rows>> /\ pc = "receipt"
      /\ receipts' = [receipts EXCEPT ![First] = IF answer = "answered" THEN "delivered" ELSE "failed"]
  BY DEF WriteReceipt, edgeVars
<1>1. IsFirst(First) /\ First \in batch /\ First \in Ids /\ rows[First] # NoRow
  BY <1>0, FirstOfBatch DEF Sending, IsFirst, Rowed
<1>2. rows[First].state = IF answer = "answered" THEN "completed" ELSE "failed"
  BY <1>0, <1>1 DEF Sending
<1>3. ASSUME NEW i \in Ids
      PROVE  /\ receipts'[i] = "delivered" => Is(i, {"completed"})
             /\ receipts'[i] = "failed" => Is(i, {"failed"})
  <2>1. CASE i = First
    BY <1>0, <1>1, <1>2, <2>1 DEF Is
  <2>2. CASE i # First
    BY <1>0, <2>2 DEF Edge
  <2> QED
    BY <2>1, <2>2
<1> QED
  BY <1>0, <1>3 DEF Edge, Decided, Rowed, Is

(* The batch.                                                              *)
LEMMA NothingSent ==
    ASSUME Sending, batch' = {}, pc' \notin {"settle", "receipt"}
    PROVE  Sending'
BY DEF Sending

LEMMA RowStepKeepsSending ==
    ASSUME Typed, Sending, KeptRows, UNCHANGED <<pc, batch, answer>>,
           \A i \in Ids : rows[i] # NoRow => rows'[i].state = rows[i].state,
           \A i \in Ids : Decided(i) => Decided(i)'
    PROVE  Sending'
<1>1. Rowed' = Rowed
  BY DEF KeptRows, Rowed
<1>2. \A i \in batch : /\ i \in Ids /\ rows'[i].state = rows[i].state
                       /\ rows'[i].event = rows[i].event /\ rows'[i].born = rows[i].born
  BY DEF Sending, Rowed, KeptRows
<1>3. ASSUME NEW i \in batch PROVE IsFirst(i)' <=> IsFirst(i)
  BY <1>2 DEF IsFirst
<1>4. (pc \in {"settle", "receipt"} => \A i \in batch : IsFirst(i) =>
          /\ answer = "answered" => Decided(i)
          /\ answer = "refused" => rows[i].event \in Refused)'
  BY <1>2, <1>3 DEF Sending
<1>5. (pc = "receipt" => \A i \in batch :
          /\ IsFirst(i) => rows[i].state = IF answer = "answered" THEN "completed" ELSE "failed"
          /\ ~IsFirst(i) => rows[i].state = "inflight")'
  BY <1>2, <1>3 DEF Sending
<1> QED
  BY <1>1, <1>2, <1>4, <1>5 DEF Sending

LEMMA ClaimKeepsSending ==
    ASSUME Typed, Numbered, Claim
    PROVE  Sending'
<1>1. batch' = Oldest /\ pc' = "send"
  BY DEF Claim
<1>2. /\ Oldest \subseteq Ids
      /\ \A i \in Oldest : rows'[i] # NoRow /\ rows'[i].state = "inflight"
  BY ClaimRows DEF Oldest
<1> QED
  BY <1>1, <1>2 DEF Sending, Rowed

LEMMA SentKeeps ==
    ASSUME Typed, Numbered, Ingesting, Sending, Edge, SendAnswered \/ SendUnanswered
    PROVE  Sending' /\ Edge'
<1>1. /\ pc = "send" /\ batch # {} /\ pc' = "settle"
      /\ UNCHANGED <<rows, receipts, batch>>
  BY DEF SendAnswered, SendUnanswered, Sent
<1>2. IsFirst(First) /\ \A i \in batch : IsFirst(i) => i = First
  BY <1>1, FirstOfBatch DEF Sending
<1>3. First \in Rowed
  BY <1>2 DEF IsFirst, Sending
<1>4. PICK k \in Rowed : k = First
  BY <1>3
<1>5. RowsBacked
  BY DEF Ingesting
<1>6. /\ answer' \in {"answered", "retry", "refused"}
      /\ answer' = "answered" => Decided(k)'
      /\ answer' = "refused" => rows[k].event \in Refused
      /\ Edge'
  <2>1. CASE SendAnswered /\ rows[k].event \in Refused
    <3>1. answer' = "refused" /\ UNCHANGED <<decisions, stray>>
      BY <1>4, <2>1 DEF SendAnswered, Refuse, edgeVars
    <3>2. Edge'
      BY <1>1, <3>1 DEF Edge, Decided, Rowed, Is
    <3> QED
      BY <2>1, <3>1, <3>2
  <2>2. CASE SendAnswered /\ rows[k].event \notin Refused
    <3>1. answer' = "answered" /\ EdgeDecides(k) /\ UNCHANGED stray
      BY <1>4, <2>2 DEF SendAnswered, Answered
    <3>2. Edge' /\ Decided(k)'
      BY <1>1, <1>5, <2>2, <3>1, DecidingKeepsEdge
    <3> QED
      BY <3>1, <3>2
  <2>3. CASE SendUnanswered
    <3>1. answer' = "retry"
      BY <2>3 DEF SendUnanswered, Unanswered, NoAnswer, LostAsRetry
    <3>2. \/ UNCHANGED <<decisions, stray>>
          \/ rows[k].event \notin Refused /\ EdgeDecides(k) /\ UNCHANGED stray
          \/ rows[k].event \notin Refused /\ stray' = stray \cup {k} /\ UNCHANGED decisions
      BY <1>4, <2>3 DEF SendUnanswered, Unanswered, edgeVars
    <3>3. CASE UNCHANGED <<decisions, stray>>
      BY <1>1, <3>1, <3>3 DEF Edge, Decided, Rowed, Is
    <3>4. CASE rows[k].event \notin Refused /\ EdgeDecides(k) /\ UNCHANGED stray
      BY <1>1, <1>5, <3>1, <3>4, DecidingKeepsEdge
    <3>5. CASE rows[k].event \notin Refused /\ stray' = stray \cup {k} /\ UNCHANGED decisions
      BY <1>1, <3>1, <3>5 DEF Edge, Decided, Rowed, Is
    <3> QED
      BY <3>2, <3>3, <3>4, <3>5
  <2> QED
    BY <2>1, <2>2, <2>3
<1>7. \A i \in batch : IsFirst(i)' => i = k
  BY <1>1, <1>2, <1>4 DEF IsFirst
<1>8. /\ batch' \subseteq Rowed' /\ batch' # {}
      /\ \A i \in batch' : rows'[i].state = "inflight"
  BY <1>1 DEF Sending, Rowed
<1>9. Sending'
  BY <1>1, <1>6, <1>7, <1>8 DEF Sending
<1> QED
  BY <1>6, <1>9

LEMMA SettleKeepsSending ==
    ASSUME Typed, Numbered, Sending, Settle
    PROVE  Sending'
<1>0. pc = "settle" /\ UNCHANGED decisions
  BY DEF Settle, edgeVars
<1>1. /\ KeptRows /\ First \in batch
      /\ \A i \in Ids : i # First => rows'[i] = rows[i]
      /\ rows'[First].state = CASE answer = "answered" -> "completed"
                                [] answer = "refused" -> "failed"
                                [] answer = "retry" -> "pending"
  BY SettleRows
<1>2. PICK k \in batch : k = First /\ \A i \in batch : IsFirst(i) <=> i = k
  BY <1>1, FirstOfBatch DEF Sending
<1>3. Rowed' = Rowed /\ batch \subseteq Rowed
  BY <1>1 DEF KeptRows, Rowed, Sending
<1>4. /\ answer \in {"answered", "retry", "refused"}
      /\ answer = "answered" => Decided(k)
      /\ answer = "refused" => rows[k].event \in Refused
  BY <1>0, <1>2 DEF Sending
<1>5. \A i \in batch : /\ rows'[i].event = rows[i].event /\ rows'[i].born = rows[i].born
                       /\ i # k => rows'[i].state = "inflight"
  BY <1>0, <1>1, <1>2, <1>3 DEF KeptRows, Rowed, Sending
<1>6. CASE answer = "retry"
  <2>1. pc' = "send" /\ batch' = batch \ {k}
    BY <1>2, <1>6 DEF Settle
  <2> QED
    BY <1>3, <1>5, <2>1 DEF Sending
<1>7. CASE answer # "retry"
  <2>1. pc' = "receipt" /\ UNCHANGED <<batch, answer>>
    BY <1>7 DEF Settle
  <2>2. \A i \in batch : IsFirst(i)' <=> i = k
    <3>1. \A i \in batch : IsFirst(i)' <=> IsFirst(i)
      BY <1>5, <2>1 DEF IsFirst
    <3> QED
      BY <1>2, <3>1
  <2>3. rows'[k].state = IF answer = "answered" THEN "completed" ELSE "failed"
    BY <1>1, <1>2, <1>4, <1>7
  <2>4. /\ answer = "answered" => Decided(k)'
        /\ answer = "refused" => rows'[k].event \in Refused
    BY <1>0, <1>4, <1>5 DEF Decided
  <2> QED
    BY <1>2, <1>3, <1>4, <1>5, <1>7, <2>1, <2>2, <2>3, <2>4 DEF Sending
<1> QED
  BY <1>6, <1>7

LEMMA ReceiptKeepsSending ==
    ASSUME Typed, Numbered, Sending, WriteReceipt
    PROVE  Sending'
<1>1. /\ pc = "receipt" /\ pc' = "send" /\ batch' = batch \ {First} /\ UNCHANGED rows
  BY DEF WriteReceipt
<1>2. \A i \in batch : IsFirst(i) => i = First
  BY <1>1, FirstOfBatch DEF Sending
<1> QED
  BY <1>1, <1>2 DEF Sending, Rowed

-----------------------------------------------------------------------------
(* The rest of the type invariant.                                         *)

Control ==
    /\ unclosed \subseteq Files /\ growing \subseteq unclosed
    /\ receipts \in [Ids -> {"none", "delivered", "failed"}]
    /\ watching \in BOOLEAN /\ notes \subseteq Names /\ overflow \in BOOLEAN
    /\ pc \in Phases /\ todo \subseteq Names /\ stage \in Stages
    /\ woken \in BOOLEAN /\ lost \in BOOLEAN
    /\ file \in Names \cup {NoFile} /\ held \in Events \cup {NoEvent}
    /\ place \in Places \cup {NoPlace}
    /\ Cardinality(batch) <= BatchLimit
    /\ answer \in Answers /\ crashes \in 0 .. MaxCrashes

LEMMA ProducerControl ==
    ASSUME Control, NEW f \in Files, Appear(f) \/ FillUp(f) \/ CloseWrite(f)
    PROVE  Control'
<1>1. NameOf[f] \in Names
  BY Constants
<1>2. notes' \subseteq Names /\ overflow' \in BOOLEAN
  BY <1>1 DEF Appear, FillUp, CloseWrite, Notify, Control, noteVars
<1>3. unclosed' \subseteq Files /\ growing' \subseteq unclosed'
  BY DEF Appear, FillUp, CloseWrite, Control
<1>4. UNCHANGED <<receipts, watching, pc, loopVars, ingestVars, sendVars, crashes>>
  BY DEF Appear, FillUp, CloseWrite, noteVars
<1> QED
  BY <1>2, <1>3, <1>4 DEF Control, loopVars, ingestVars, sendVars

LEMMA IngestControl ==
    ASSUME Typed, Control, FileHeld',
           \/ \E n \in Names : Skip(n) \/ Read(n)
           \/ Start \/ Enqueue \/ Move \/ Reject \/ ListDone
    PROVE  Control'
<1> USE DEF fileVars, noteVars, loopVars, ingestVars, sendVars
<1>1. CASE Start \/ ListDone
  <2>1. /\ pc' \in Phases /\ stage' \in Stages /\ todo' \subseteq Names
        /\ UNCHANGED <<fileVars, receipts, noteVars, woken, lost, ingestVars, sendVars, crashes>>
    BY <1>1 DEF Start, ListDone, Phases, Stages, FilledNames, Control
  <2> QED
    BY <2>1 DEF Control
<1>2. CASE \E n \in Names : Skip(n)
  <2>1. /\ todo' \subseteq Names
        /\ UNCHANGED <<fileVars, receipts, noteVars, pc, stage, woken, lost, ingestVars, sendVars, crashes>>
    BY <1>2 DEF Skip, Control
  <2> QED
    BY <2>1 DEF Control
<1>3. ASSUME NEW n \in Names, Read(n) PROVE Control'
  <2>1. /\ todo' \subseteq Names /\ file' = n
        /\ UNCHANGED <<fileVars, receipts, noteVars, stage, woken, lost, sendVars, crashes>>
    BY <1>3 DEF Read, Control
  <2>2. \/ pc' = "reject" /\ UNCHANGED <<held, place>>
        \/ pc' = "enqueue"
    BY <1>3 DEF Read
  <2>3. CASE pc' = "enqueue"
    <3>1. held' \in Events /\ place' \in AcceptedPlaces(held'.id, file')
      BY <2>3 DEF FileHeld, FirstAccepted
    <3>2. place' \in Places
      BY <3>1 DEF AcceptedPlaces
    <3> QED
      BY <2>1, <2>3, <3>1, <3>2 DEF Control, Phases
  <2> QED
    BY <2>1, <2>2, <2>3 DEF Control, Phases
<1>4. CASE Enqueue
  <2>1. /\ pc' \in Phases
        /\ UNCHANGED <<fileVars, receipts, noteVars, loopVars, ingestVars, sendVars, crashes>>
    BY <1>4 DEF Enqueue, Phases
  <2> QED
    BY <2>1 DEF Control
<1>5. CASE Move \/ Reject
  <2>1. /\ pc' = "ingest" /\ file' = NoFile /\ held' = NoEvent /\ place' = NoPlace
        /\ UNCHANGED <<growing, unclosed, receipts, noteVars, loopVars, sendVars, crashes>>
    BY <1>5 DEF Move, Reject, MoveTo
  <2> QED
    BY <2>1 DEF Control, Phases
<1> QED
  BY <1>1, <1>2, <1>3, <1>4, <1>5

LEMMA DeliveryControl ==
    ASSUME Typed, Numbered, Sending, Control,
           \/ Claim \/ SendAnswered \/ SendUnanswered \/ Settle \/ WriteReceipt \/ BatchDone
    PROVE  Control'
<1> USE DEF fileVars, noteVars, loopVars, ingestVars, sendVars
<1>1. Cardinality(batch \ {First}) <= BatchLimit
  <2>1. IsFiniteSet(batch) /\ batch \ {First} \in SUBSET batch
    BY FS_Subset DEF Sending, Numbered
  <2>2. Cardinality(batch \ {First}) <= Cardinality(batch) /\ IsFiniteSet(batch \ {First})
    BY <2>1, FS_Subset
  <2>3. Cardinality(batch) \in Nat /\ Cardinality(batch \ {First}) \in Nat
    BY <2>1, <2>2, FS_CardinalityType
  <2> QED
    BY <2>2, <2>3, Constants DEF Control
<1>2. CASE Claim
  <2>1. /\ batch' = Oldest /\ pc' = "send"
        /\ UNCHANGED <<fileVars, receipts, noteVars, loopVars, ingestVars, answer, crashes>>
    BY <1>2 DEF Claim
  <2>2. Cardinality(Oldest) <= BatchLimit
    BY BatchSize
  <2> QED
    BY <2>1, <2>2 DEF Control, Phases
<1>3. CASE SendAnswered \/ SendUnanswered
  <2>1. /\ answer' \in Answers /\ pc' = "settle"
        /\ UNCHANGED <<fileVars, receipts, noteVars, loopVars, ingestVars, batch, crashes>>
    BY <1>3 DEF SendAnswered, SendUnanswered, Sent, Answered, Refuse, Unanswered, Answers,
                NoAnswer, LostAsRetry
  <2> QED
    BY <2>1 DEF Control, Phases
<1>4. CASE Settle
  <2>1. /\ batch' = batch \ {First} \/ batch' = batch
        /\ answer' \in Answers /\ pc' \in {"send", "receipt"}
        /\ UNCHANGED <<fileVars, receipts, noteVars, loopVars, ingestVars, crashes>>
    BY <1>4 DEF Settle, Answers, Control
  <2> QED
    BY <1>1, <2>1 DEF Control, Phases
<1>5. CASE WriteReceipt
  <2>1. /\ batch' = batch \ {First} /\ answer' = "none" /\ pc' = "send"
        /\ receipts' \in [Ids -> {"none", "delivered", "failed"}]
        /\ UNCHANGED <<fileVars, noteVars, loopVars, ingestVars, crashes>>
    BY <1>5 DEF WriteReceipt, Control
  <2> QED
    BY <1>1, <2>1 DEF Control, Phases, Answers
<1>6. CASE BatchDone
  <2>1. /\ pc' \in Phases
        /\ UNCHANGED <<fileVars, receipts, noteVars, loopVars, ingestVars, sendVars, crashes>>
    BY <1>6 DEF BatchDone, Phases
  <2> QED
    BY <2>1 DEF Control
<1> QED
  BY <1>2, <1>3, <1>4, <1>5, <1>6

LEMMA LoopControl ==
    ASSUME Control, Watch \/ Wait \/ Rescan \/ NoRescan \/ Deliver \/ NoDelivery
    PROVE  Control'
<1>1. /\ watching' \in BOOLEAN /\ notes' \subseteq Names /\ overflow' \in BOOLEAN
      /\ pc' \in Phases /\ todo' \subseteq Names /\ stage' \in Stages
      /\ woken' \in BOOLEAN /\ lost' \in BOOLEAN
  BY DEF Watch, Wait, Rescan, NoRescan, Deliver, NoDelivery, Control, noteVars, loopVars,
         Phases, Stages, FilledNames
<1>2. UNCHANGED <<fileVars, receipts, ingestVars, sendVars, crashes>>
  BY DEF Watch, Wait, Rescan, NoRescan, Deliver, NoDelivery
<1> QED
  BY <1>1, <1>2 DEF Control, fileVars, ingestVars, sendVars

LEMMA TimeControl ==
    ASSUME Control, NEW i \in Ids, LeaseExpires(i) \/ BackoffElapses(i) \/ StrayDecided(i)
    PROVE  Control'
<1>1. UNCHANGED <<fileVars, receipts, noteVars, pc, loopVars, ingestVars, sendVars, crashes>>
  BY DEF LeaseExpires, BackoffElapses, StrayDecided
<1> QED
  BY <1>1 DEF Control, fileVars, noteVars, loopVars, ingestVars, sendVars

LEMMA CrashControl ==
    ASSUME Control, Crash
    PROVE  Control'
<1>1. Cardinality(batch') <= BatchLimit
  BY Constants, FS_EmptySet DEF Crash
<1>2. crashes' \in 0 .. MaxCrashes
  BY MaxCrashesAssumption DEF Crash, Control
<1> QED
  BY <1>1, <1>2 DEF Crash, Control, fileVars, Phases, Stages, Answers

-----------------------------------------------------------------------------
(* The invariant.                                                          *)

Inv == Typed /\ Control /\ Ingesting /\ Numbered /\ Sending /\ Edge

LEMMA InvInit == Init => Inv
<1> SUFFICES ASSUME Init PROVE Inv
  OBVIOUS
<1>1. Typed
  BY DEF Init, Typed
<1>2. Rowed = {}
  BY DEF Init, Rowed
<1>3. FilesPlaced /\ RowsBacked /\ FileHeld /\ RejectionIsJust
  BY <1>2 DEF Init, FilesPlaced, RowsBacked, FileHeld, RejectionIsJust
<1>4. Numbered
  BY <1>2, FS_EmptySet DEF Numbered
<1>5. Sending /\ Edge
  BY <1>2 DEF Init, Sending, Edge, Is
<1>6. Control
  <2>1. Cardinality(batch) <= BatchLimit
    BY Constants, FS_EmptySet DEF Init
  <2>2. crashes \in 0 .. MaxCrashes
    BY MaxCrashesAssumption DEF Init
  <2> QED
    BY <2>1, <2>2 DEF Init, Control, Phases, Stages, Answers
<1> QED
  BY <1>1, <1>3, <1>4, <1>5, <1>6 DEF Inv, Ingesting

(* A step that leaves the rows, the batch and the edge alone.              *)
LEMMA QuietKeeps ==
    ASSUME Numbered, Edge, UNCHANGED <<rows, receipts, decisions, stray>>
    PROVE  Numbered' /\ Edge'
<1>1. Rowed' = Rowed
  BY DEF Rowed
<1> QED
  BY <1>1 DEF Numbered, Edge, Decided, Is

(* A step that leaves the batch alone as well, and where the bridge is.    *)
LEMMA QuietKeepsSending ==
    ASSUME Sending, UNCHANGED <<rows, decisions, pc, batch, answer>>
    PROVE  Sending'
BY DEF Sending, IsFirst, Decided, Rowed

LEMMA ProducerStep ==
    ASSUME Inv, NEW f \in Files, Appear(f) \/ FillUp(f) \/ CloseWrite(f)
    PROVE  Inv'
<1>1. Typed' /\ Ingesting'
  <2>1. CASE Appear(f)
    BY <2>1, AppearKeeps DEF Inv
  <2>2. CASE FillUp(f)
    BY <2>2, FillUpKeeps DEF Inv
  <2>3. CASE CloseWrite(f)
    <3>1. UNCHANGED <<unwritten, growing, inbox, archive, rows, pc, file, held, place>>
      BY <2>3 DEF CloseWrite, ingestVars
    <3> QED
      BY <3>1, IdleKeeps DEF Inv
  <2> QED
    BY <2>1, <2>2, <2>3
<1>2. Control'
  BY ProducerControl DEF Inv
<1>3. UNCHANGED <<rows, receipts, decisions, stray, pc, batch, answer>>
  BY DEF Appear, FillUp, CloseWrite, sendVars, edgeVars
<1>4. Numbered' /\ Edge' /\ Sending'
  BY <1>3, QuietKeeps, QuietKeepsSending DEF Inv
<1> QED
  BY <1>1, <1>2, <1>4 DEF Inv

LEMMA IngestStep ==
    ASSUME Inv,
           \/ \E n \in Names : Skip(n) \/ Read(n)
           \/ Start \/ Enqueue \/ Move \/ Reject \/ ListDone
    PROVE  Inv'
<1>1. CASE Enqueue
  <2>1. held.id \in Ids /\ IsFiniteSet(Rowed)
    BY <1>1, Constants DEF Enqueue, Inv, Ingesting, FileHeld, Numbered
  <2>2. Typed' /\ Ingesting' /\ Numbered' /\ Edge'
    BY <1>1, <2>1, EnqueueKeeps, NumbersGrow, EnqueueKeepsEdge DEF Inv
  <2>3. batch' = {} /\ pc' \notin {"settle", "receipt"}
    BY <1>1 DEF Enqueue, Inv, Sending, sendVars
  <2> QED
    BY <1>1, <2>2, <2>3, NothingSent, IngestControl DEF Inv, Ingesting
<1>2. CASE \/ \E n \in Names : Skip(n) \/ Read(n)
           \/ Start \/ Move \/ Reject \/ ListDone
  <2>1. Typed' /\ Ingesting'
    <3>1. CASE Start \/ ListDone \/ \E n \in Names : Skip(n)
      <4>1. /\ UNCHANGED <<unwritten, growing, inbox, archive, rows>>
            /\ pc' \notin {"enqueue", "move", "reject"}
        BY <3>1 DEF Start, ListDone, Skip, fileVars, Inv, Control, Stages
      <4> QED
        BY <4>1, IdleKeeps DEF Inv
    <3>2. CASE \E n \in Names : Read(n)
      BY <3>2, ReadKeeps DEF Inv
    <3>3. CASE Move \/ Reject
      BY <3>3, MoveKeeps, RejectKeeps DEF Inv
    <3> QED
      BY <1>2, <3>1, <3>2, <3>3
  <2>2. /\ UNCHANGED <<rows, receipts, decisions, stray>>
        /\ batch' = {} /\ pc' \notin {"settle", "receipt"}
    <3>1. pc \in {"down", "ingest", "move", "reject"}
      BY <1>2 DEF Start, ListDone, Skip, Read, Move, Reject
    <3>2. UNCHANGED <<rows, receipts, decisions, stray, batch>>
      BY <1>2 DEF Start, ListDone, Skip, Read, Move, Reject, MoveTo, sendVars, edgeVars
    <3>3. pc' \notin {"settle", "receipt"}
      BY <1>2 DEF Start, ListDone, Skip, Read, Move, Reject, MoveTo, Inv, Control, Stages
    <3> QED
      BY <3>1, <3>2, <3>3 DEF Inv, Sending
  <2>3. Numbered' /\ Edge' /\ Sending'
    BY <2>2, QuietKeeps, NothingSent DEF Inv
  <2>4. Control'
    BY <1>2, <2>1, IngestControl DEF Inv, Ingesting
  <2> QED
    BY <2>1, <2>3, <2>4 DEF Inv
<1> QED
  BY <1>1, <1>2

LEMMA DeliveryStep ==
    ASSUME Inv,
           \/ Claim \/ SendAnswered \/ SendUnanswered \/ Settle \/ WriteReceipt \/ BatchDone
    PROVE  Inv'
<1>1. Control'
  BY DeliveryControl DEF Inv
<1>2. /\ UNCHANGED <<unwritten, growing, inbox, archive>>
      /\ pc' \notin {"enqueue", "move", "reject"}
  BY DEF Claim, SendAnswered, SendUnanswered, Sent, Settle, WriteReceipt, BatchDone, fileVars
<1>3. CASE Claim
  <2>1. /\ KeptRows
        /\ \A i \in Ids : Is(i, Ended) => rows'[i] = rows[i]
        /\ \A i \in Ids : rows'[i] # NoRow /\ rows'[i].state \in Ended => Is(i, Ended)
    BY <1>3, ClaimRows DEF Inv
  <2>2. UNCHANGED <<decisions, stray, receipts>>
    BY <1>3 DEF Claim, edgeVars
  <2>3. Typed' /\ Ingesting' /\ Numbered' /\ Edge'
    BY <1>2, <2>1, <2>2, RowStepKeeps, NumbersKept, RowStepKeepsEdge DEF Inv
  <2> QED
    BY <1>1, <1>3, <2>3, ClaimKeepsSending DEF Inv
<1>4. CASE SendAnswered \/ SendUnanswered
  <2>1. UNCHANGED rows
    BY <1>4 DEF SendAnswered, SendUnanswered, Sent
  <2>2. Typed' /\ Ingesting'
    BY <1>2, <2>1, IdleKeeps DEF Inv
  <2>3. Numbered'
    BY <2>1, NumbersKept DEF Inv, KeptRows, Typed
  <2>4. Sending' /\ Edge'
    BY <1>4, SentKeeps DEF Inv
  <2> QED
    BY <1>1, <2>2, <2>3, <2>4 DEF Inv
<1>5. CASE Settle
  <2>1. KeptRows
    BY <1>5, SettleRows DEF Inv
  <2>2. Typed' /\ Ingesting' /\ Numbered'
    BY <1>2, <2>1, RowStepKeeps, NumbersKept DEF Inv
  <2>3. Sending' /\ Edge'
    BY <1>5, SettleKeepsSending, SettleKeepsEdge DEF Inv
  <2> QED
    BY <1>1, <2>2, <2>3 DEF Inv
<1>6. CASE WriteReceipt
  <2>1. UNCHANGED rows
    BY <1>6 DEF WriteReceipt
  <2>2. Typed' /\ Ingesting'
    BY <1>2, <2>1, IdleKeeps DEF Inv
  <2>3. Numbered'
    BY <2>1, NumbersKept DEF Inv, KeptRows, Typed
  <2>4. Sending' /\ Edge'
    BY <1>6, ReceiptKeepsSending, ReceiptKeepsEdge DEF Inv, Control
  <2> QED
    BY <1>1, <2>2, <2>3, <2>4 DEF Inv
<1>7. CASE BatchDone
  <2>1. /\ UNCHANGED <<rows, receipts, decisions, stray>>
        /\ batch' = {} /\ pc' \notin {"settle", "receipt"}
    BY <1>7 DEF BatchDone, sendVars, edgeVars
  <2>2. Typed' /\ Ingesting'
    BY <1>2, <2>1, IdleKeeps DEF Inv
  <2>3. Numbered' /\ Edge' /\ Sending'
    BY <2>1, QuietKeeps, NothingSent DEF Inv
  <2> QED
    BY <1>1, <2>2, <2>3 DEF Inv
<1> QED
  BY <1>3, <1>4, <1>5, <1>6, <1>7

LEMMA LoopStep ==
    ASSUME Inv, Watch \/ Wait \/ Rescan \/ NoRescan \/ Deliver \/ NoDelivery \/ Crash
    PROVE  Inv'
<1>1. Control'
  BY LoopControl, CrashControl DEF Inv
<1>2. /\ UNCHANGED <<unwritten, growing, inbox, archive, rows, receipts, decisions, stray>>
      /\ pc' \notin {"enqueue", "move", "reject", "settle", "receipt"}
  BY DEF Watch, Wait, Rescan, NoRescan, Deliver, NoDelivery, Crash, fileVars, edgeVars
<1>3. Typed' /\ Ingesting'
  BY <1>2, IdleKeeps DEF Inv
<1>4. batch' = {}
  BY DEF Watch, Wait, Rescan, NoRescan, Deliver, NoDelivery, Crash, sendVars, Inv, Sending
<1>5. Numbered' /\ Edge' /\ Sending'
  BY <1>2, <1>4, QuietKeeps, NothingSent DEF Inv
<1> QED
  BY <1>1, <1>3, <1>5 DEF Inv

LEMMA TimeStep ==
    ASSUME Inv, NEW k \in Ids, LeaseExpires(k) \/ BackoffElapses(k) \/ StrayDecided(k)
    PROVE  Inv'
<1>1. Control'
  BY TimeControl DEF Inv
<1>2. UNCHANGED <<unwritten, growing, inbox, archive, receipts, pc, file, held, place, batch, answer>>
  BY DEF LeaseExpires, BackoffElapses, StrayDecided, fileVars, ingestVars, sendVars
<1>3. CASE LeaseExpires(k) \/ BackoffElapses(k)
  <2>1. /\ KeptRows
        /\ \A i \in Ids : Is(i, Ended) => rows'[i] = rows[i]
        /\ \A i \in Ids : rows[i] # NoRow => rows'[i].state = rows[i].state
    BY <1>3, TimeRows DEF Inv
  <2>2. UNCHANGED <<decisions, stray>>
    BY <1>3 DEF LeaseExpires, BackoffElapses, edgeVars
  <2>3. \A i \in Ids : rows'[i] # NoRow /\ rows'[i].state \in Ended => Is(i, Ended)
    BY <2>1 DEF KeptRows, Is
  <2>4. Typed' /\ Ingesting' /\ Numbered'
    BY <1>2, <2>1, RowStepKeeps, NumbersKept DEF Inv
  <2>5. Edge'
    BY <1>2, <2>1, <2>2, <2>3, RowStepKeepsEdge DEF Inv
  <2>6. \A i \in Ids : Decided(i) => Decided(i)'
    BY <2>1, <2>2 DEF Decided, Inv, Edge, KeptRows, Rowed
  <2>7. Sending'
    BY <1>2, <2>1, <2>6, RowStepKeepsSending DEF Inv
  <2> QED
    BY <1>1, <2>4, <2>5, <2>7 DEF Inv
<1>4. CASE StrayDecided(k)
  <2>1. /\ k \in stray /\ EdgeDecides(k) /\ stray' = stray \ {k} /\ UNCHANGED rows
    BY <1>4 DEF StrayDecided
  <2>2. k \in Rowed /\ rows[k].event \notin Refused
    BY <2>1 DEF Inv, Edge
  <2>3. Edge' /\ \A j \in Ids : Decided(j) => Decided(j)'
    BY <1>2, <2>1, <2>2, DecidingKeepsEdge DEF Inv, Ingesting
  <2>4. Typed' /\ Ingesting'
    BY <1>2, <2>1, IdleKeeps DEF Inv
  <2>5. KeptRows
    BY <2>1 DEF KeptRows, Inv, Typed
  <2>6. Numbered' /\ Sending'
    BY <1>2, <2>1, <2>3, <2>5, NumbersKept, RowStepKeepsSending DEF Inv
  <2> QED
    BY <1>1, <2>3, <2>4, <2>6 DEF Inv
<1> QED
  BY <1>3, <1>4

LEMMA InvStep == Inv /\ [Next]_vars => Inv'
<1> SUFFICES ASSUME Inv, [Next]_vars PROVE Inv'
  OBVIOUS
<1>1. CASE BridgeStep
  BY <1>1, IngestStep, DeliveryStep, LoopStep DEF BridgeStep
<1>2. CASE \E f \in Files : Appear(f) \/ FillUp(f) \/ CloseWrite(f)
  BY <1>2, ProducerStep
<1>3. CASE \E i \in Ids : LeaseExpires(i) \/ BackoffElapses(i) \/ StrayDecided(i)
  BY <1>3, TimeStep
<1>4. CASE Crash
  BY <1>4, LoopStep
<1>5. CASE UNCHANGED vars
  <2>1. UNCHANGED <<unwritten, growing, unclosed, inbox, archive, rows, receipts,
                    watching, notes, overflow, pc, todo, stage, woken, lost,
                    file, held, place, batch, answer, decisions, stray, crashes>>
    BY <1>5 DEF vars, fileVars, noteVars, loopVars, ingestVars, sendVars, edgeVars
  <2>2. Typed' /\ Ingesting'
    BY <2>1, IdleKeeps DEF Inv
  <2>3. Numbered' /\ Edge' /\ Sending'
    BY <2>1, QuietKeeps, QuietKeepsSending DEF Inv
  <2>4. Control'
    BY <2>1 DEF Control, Inv
  <2> QED
    BY <2>2, <2>3, <2>4 DEF Inv
<1> QED
  BY <1>1, <1>2, <1>3, <1>4, <1>5 DEF Next

-----------------------------------------------------------------------------
(* Theorems.                                                               *)

LEMMA InvHolds == Spec => []Inv
BY InvInit, InvStep, PTL DEF Spec

(* Every variable has its type, and no batch is larger than its limit.     *)
THEOREM TypesHold == Spec => []TypeOK
<1>1. ASSUME Inv PROVE TypeOK
  <2>1. /\ batch \subseteq Ids /\ stray \subseteq Ids
        /\ decisions \subseteq [key: Ids \X (0 .. 1), event: Events]
    BY <1>1 DEF Inv, Sending, Edge, Rowed
  <2> QED
    BY <1>1, <2>1 DEF Inv, Typed, Control, TypeOK
<1>2. Inv => TypeOK
  BY <1>1
<1> QED
  BY <1>2, InvHolds, PTL

(* Every file that was written is still in the inbox or once in an archive: *)
(* the destination a file is moved to was free when the bridge chose it,    *)
(* and nobody else moves files, so no rename replaces one.                  *)
THEOREM FilesKept == Spec => []NoFileIsLost
<1>1. ASSUME Inv PROVE NoFileIsLost
  <2>1. ASSUME NEW f \in Files \ unwritten, inbox[NameOf[f]] = f
        PROVE  \A a \in archive : a.file # f
    BY <1>1, <2>1 DEF Inv, Ingesting, FilesPlaced
  <2>2. ASSUME NEW f \in Files \ unwritten, inbox[NameOf[f]] # f
        PROVE  Cardinality({a \in archive : a.file = f}) = 1
    <3>1. PICK a \in archive : a.file = f
      BY <1>1, <2>2 DEF Inv, Ingesting, FilesPlaced
    <3>2. {b \in archive : b.file = f} = {a}
      BY <1>1, <3>1 DEF Inv, Ingesting, FilesPlaced
    <3> QED
      BY <3>2, FS_Singleton
  <2> QED
    BY <2>1, <2>2 DEF NoFileIsLost
<1>2. Inv => NoFileIsLost
  BY <1>1
<1> QED
  BY <1>2, InvHolds, PTL

(* An accepted file is backed by a row, and a row by a file at or on its   *)
(* way to the place it names: a restart finds the same free place again.   *)
THEOREM ArchivedIsQueued == Spec => []AcceptedIsQueued
<1>1. ASSUME Inv PROVE AcceptedIsQueued
  <2>1. \A a \in archive : a.at.dir = "accepted" =>
           \E i \in Ids : rows[i] # NoRow /\ rows[i].event = EventOf[a.file]
    BY <1>1 DEF Inv, Ingesting, RowsBacked
  <2>2. ASSUME NEW i \in Ids, rows[i] # NoRow
        PROVE  \/ \E a \in archive : a.at = rows[i].source /\ EventOf[a.file] = rows[i].event
               \/ LET f == inbox[rows[i].source.name]
                  IN  f # NoFile /\ EventOf[f] = rows[i].event
    <3>1. CASE Filled(i)
      BY <3>1 DEF Filled
    <3>2. CASE Expected(i)
      BY <1>1, <2>2, <3>2, ExpectedName, Constants DEF Inv
    <3> QED
      BY <1>1, <2>2, <3>1, <3>2 DEF Inv, Ingesting, RowsBacked, Rowed
  <2> QED
    BY <2>1, <2>2 DEF AcceptedIsQueued
<1>2. Inv => AcceptedIsQueued
  BY <1>1
<1> QED
  BY <1>2, InvHolds, PTL

(* No file is rejected without a reason, however often it was read.        *)
THEOREM RejectionsAreJust == Spec => []RejectionIsJust
<1>1. Inv => RejectionIsJust
  BY DEF Inv, Ingesting
<1> QED
  BY <1>1, InvHolds, PTL

(* Retries, lost answers, late requests and crashes included, the edge     *)
(* decides once on an event.                                               *)
THEOREM DecidedOnce == Spec => []EdgeDecidesOnce
<1>1. ASSUME Inv PROVE EdgeDecidesOnce
  <2>1. ASSUME NEW d \in decisions, NEW e \in decisions, d.event.id = e.event.id
        PROVE  d = e
    <3>1. d.key = e.key /\ d.event = e.event
      BY <1>1, <2>1 DEF Inv, Edge
    <3>2. /\ d \in [key: Ids \X (0 .. 1), event: Events]
          /\ e \in [key: Ids \X (0 .. 1), event: Events]
      BY <1>1 DEF Inv, Edge
    <3> QED
      BY <3>1, <3>2
  <2>2. \A d \in decisions : rows[d.event.id] # NoRow /\ rows[d.event.id].event = d.event
    BY <1>1 DEF Inv, Edge, Rowed
  <2> QED
    BY <2>1, <2>2 DEF EdgeDecidesOnce
<1>2. Inv => EdgeDecidesOnce
  BY <1>1
<1> QED
  BY <1>2, InvHolds, PTL

(* What a row and its receipt say is what the edge did or will never do.   *)
THEOREM OutcomesAreTrue == Spec => []OutcomeIsTrue
<1>1. ASSUME Inv PROVE OutcomeIsTrue
  <2>1. ASSUME NEW i \in Ids, Is(i, {"completed"})
        PROVE  \E d \in decisions : d.event = rows[i].event
    BY <1>1, <2>1 DEF Inv, Edge, Is, Rowed, Decided
  <2>2. ASSUME NEW i \in Ids, Is(i, {"failed"})
        PROVE  i \notin stray /\ \A d \in decisions : d.event.id # i
    <3>1. rows[i].event \in Refused
      BY <1>1, <2>2 DEF Inv, Edge, Is, Rowed
    <3> QED
      BY <1>1, <3>1 DEF Inv, Edge
  <2>3. \A i \in Ids : /\ receipts[i] = "delivered" => Is(i, {"completed"})
                       /\ receipts[i] = "failed" => Is(i, {"failed"})
    BY <1>1 DEF Inv, Edge
  <2> QED
    BY <2>1, <2>2, <2>3 DEF OutcomeIsTrue
<1>2. Inv => OutcomeIsTrue
  BY <1>1
<1> QED
  BY <1>2, InvHolds, PTL

(* A step of the bridge leaves a row that has ended as it is: the batch    *)
(* holds rows in flight until each is settled, once.                       *)
LEMMA EndedStep == Inv /\ [Next]_vars => \A i \in Ids : Is(i, Ended) => rows'[i] = rows[i]
<1> SUFFICES ASSUME Inv, [Next]_vars, NEW i \in Ids, Is(i, Ended)
             PROVE  rows'[i] = rows[i]
  OBVIOUS
<1>1. CASE Claim
  BY <1>1, ClaimRows DEF Inv
<1>2. CASE Settle
  <2>1. rows[First].state = "inflight" /\ \A j \in Ids : j # First => rows'[j] = rows[j]
    BY <1>2, SettleRows DEF Inv
  <2> QED
    BY <2>1 DEF Is, Ended
<1>3. CASE Enqueue
  BY <1>3 DEF Enqueue, Is, Inv, Typed
<1>4. CASE \E k \in Ids : LeaseExpires(k) \/ BackoffElapses(k)
  BY <1>4, TimeRows DEF Inv
<1>5. CASE UNCHANGED rows
  BY <1>5
<1> QED
  BY <1>1, <1>2, <1>3, <1>4, <1>5 DEF Next, BridgeStep, vars, Appear, FillUp, CloseWrite,
     Start, Skip, Read, Move, Reject, MoveTo, ListDone, SendAnswered, SendUnanswered, Sent,
     WriteReceipt, BatchDone, Watch, Wait, Rescan, NoRescan, Deliver, NoDelivery,
     StrayDecided, Crash

THEOREM EndedStays == Spec => EndedIsForever
BY InvHolds, EndedStep, PTL DEF Spec, EndedIsForever

-----------------------------------------------------------------------------
(* The bridge implements EventDelivery.                                    *)

TakenOf == [i \in Ids |-> Taken(i)]
OutcomeOf == [i \in Ids |-> Outcome(i)]
DecidedOf == [e \in Events |-> TimesDecided(e)]

(* A step that changes none of what is told of an event is a stutter.      *)
LEMMA SameView ==
    ASSUME UNCHANGED receipts, TakenOf' = TakenOf, OutcomeOf' = OutcomeOf, DecidedOf' = DecidedOf
    PROVE  UNCHANGED Delivery!deliveryVars
BY DEF Delivery!deliveryVars, TakenOf, OutcomeOf, DecidedOf

LEMMA SameDecisions ==
    ASSUME UNCHANGED decisions
    PROVE  DecidedOf' = DecidedOf
BY DEF DecidedOf, TimesDecided

(* Steps of rows take no event, and end one only where a state says so.    *)
LEMMA KeptRowsView ==
    ASSUME KeptRows
    PROVE  /\ TakenOf' = TakenOf
           /\ (\A i \in Ids : rows[i] # NoRow =>
                  \/ rows'[i].state = rows[i].state
                  \/ rows'[i].state \notin Ended /\ rows[i].state \notin Ended)
              => OutcomeOf' = OutcomeOf
<1>1. ASSUME NEW i \in Ids PROVE Taken(i)' = Taken(i)
  BY DEF KeptRows, Taken
<1>2. TakenOf' = TakenOf
  BY <1>1 DEF TakenOf
<1>3. ASSUME NEW i \in Ids,
             rows[i] # NoRow => \/ rows'[i].state = rows[i].state
                                \/ rows'[i].state \notin Ended /\ rows[i].state \notin Ended
      PROVE  Outcome(i)' = Outcome(i)
  BY <1>3 DEF KeptRows, Outcome, Is
<1> QED
  BY <1>2, <1>3 DEF OutcomeOf

(* The edge has decided on a queued event never or once.                   *)
LEMMA NeverOrOnce ==
    ASSUME Typed, RowsBacked, Edge, NEW i \in Rowed
    PROVE  /\ rows[i].event \in Events /\ i \in Ids
           /\ Decided(i) => TimesDecided(rows[i].event) = 1
           /\ ~Decided(i) => TimesDecided(rows[i].event) = 0
<1>1. i \in Ids /\ rows[i].event \in Events /\ rows[i].event.id = i
  BY DEF Rowed, Typed, Row, RowsBacked
<1> DEFINE D == {d \in decisions : d.event = rows[i].event}
<1>2. CASE Decided(i)
  <2>1. PICK d \in decisions : d.event = rows[i].event
    BY <1>2 DEF Decided
  <2>2. \A c \in D : c = d
    <3>1. ASSUME NEW c \in D PROVE c.key = d.key /\ c.event = d.event
      BY <2>1, <3>1 DEF Edge
    <3>2. decisions \subseteq [key: Ids \X (0 .. 1), event: Events]
      BY DEF Edge
    <3> QED
      BY <2>1, <3>1, <3>2
  <2>3. D = {d}
    BY <2>1, <2>2
  <2> QED
    BY <1>1, <1>2, <2>3, FS_Singleton DEF TimesDecided
<1>3. CASE ~Decided(i)
  <2>1. D = {}
    BY <1>3 DEF Decided
  <2> QED
    BY <1>1, <1>3, <2>1, FS_EmptySet DEF TimesDecided
<1> QED
  BY <1>2, <1>3

(* Whenever the edge runs a request, in time or late, it decides on an     *)
(* event that is open and undecided, or is only asked again.               *)
LEMMA DecisionView ==
    ASSUME Typed, RowsBacked, Edge, NEW i \in Rowed, rows[i].event \notin Refused,
           EdgeDecides(i), UNCHANGED <<rows, receipts>>
    PROVE  [Delivery!DeliveryNext]_(Delivery!deliveryVars)
<1>1. TakenOf' = TakenOf /\ OutcomeOf' = OutcomeOf
  BY DEF TakenOf, OutcomeOf, Taken, Outcome, Is
<1>2. i \in Ids /\ rows[i] # NoRow /\ rows[i].event \in Events /\ rows[i].event.id = i
  BY DEF Rowed, Typed, Row, RowsBacked
<1> DEFINE d0 == [key |-> <<i, 0>>, event |-> rows[i].event]
<1>3. CASE \E d \in decisions : d.key = <<i, 0>>
  <2>1. UNCHANGED decisions
    BY <1>3 DEF EdgeDecides, RequestKey, KeyOfEvent
  <2> QED
    BY <1>1, <2>1, SameView, SameDecisions
<1>4. CASE ~(\E d \in decisions : d.key = <<i, 0>>)
  <2>1. decisions' = decisions \cup {d0}
    BY <1>4 DEF EdgeDecides, RequestKey, KeyOfEvent
  <2>2. ~Decided(i)
    BY <1>2, <1>4 DEF Decided, Edge
  <2>3. TimesDecided(rows[i].event) = 0
    BY <2>2, NeverOrOnce
  <2>4. TimesDecided(rows[i].event)' = 1
    <3>1. {d \in decisions' : d.event = rows'[i].event} = {d0}
      BY <2>1, <2>2 DEF Decided
    <3> HIDE DEF d0
    <3> QED
      BY <3>1, FS_Singleton DEF TimesDecided
  <2>5. ASSUME NEW e \in Events, e # rows[i].event
        PROVE  TimesDecided(e)' = TimesDecided(e)
    <3>1. {d \in decisions' : d.event = e} = {d \in decisions : d.event = e}
      BY <2>1, <2>5
    <3> QED
      BY <3>1 DEF TimesDecided
  <2>6. DecidedOf' = [DecidedOf EXCEPT ![rows[i].event] = 1]
    <3>1. \A e \in Events : DecidedOf'[e] = IF e = rows[i].event THEN 1 ELSE DecidedOf[e]
      BY <2>4, <2>5 DEF DecidedOf
    <3> QED
      BY <1>2, <3>1 DEF DecidedOf
  <2>7. TakenOf[i] = rows[i].event /\ TakenOf[i] # NoEvent
    BY <1>2, Constants DEF TakenOf, Taken
  <2>8. OutcomeOf[i] = "open"
    <3>1. ~Is(i, Ended)
      BY <2>2 DEF Edge, Is, Ended, Rowed
    <3> QED
      BY <1>2, <3>1 DEF OutcomeOf, Outcome
  <2>9. DecidedOf[TakenOf[i]] = 0
    BY <1>2, <2>3, <2>7 DEF DecidedOf
  <2>10. Delivery!Decide(i)
    BY <1>1, <2>6, <2>7, <2>8, <2>9
       DEF Delivery!Decide, Delivery!Open, TakenOf, OutcomeOf, DecidedOf
  <2> QED
    BY <1>2, <2>10 DEF Delivery!DeliveryNext, Delivery!Ids, Ids
<1> QED
  BY <1>3, <1>4

(* Queueing an event takes it, unless it is there already.                 *)
LEMMA EnqueueView ==
    ASSUME Inv, Enqueue
    PROVE  [Delivery!DeliveryNext]_(Delivery!deliveryVars)
<1>1. held \in Events /\ held.id \in Ids /\ UNCHANGED <<receipts, decisions>>
  BY Constants DEF Enqueue, edgeVars, Inv, Ingesting, FileHeld
<1>2. CASE UNCHANGED rows
  <2>1. TakenOf' = TakenOf /\ OutcomeOf' = OutcomeOf
    BY <1>2 DEF TakenOf, OutcomeOf, Taken, Outcome, Is
  <2> QED
    BY <1>1, <2>1, SameView, SameDecisions
<1>3. CASE rows[held.id] = NoRow /\ rows' = [rows EXCEPT ![held.id] = NewRow(held)]
  <2> DEFINE i == held.id
  <2>1. /\ rows'[i] = NewRow(held)
        /\ \A j \in Ids : j # i => rows'[j] = rows[j]
    BY <1>1, <1>3 DEF Inv, Typed
  <2>2. rows'[i].event = held /\ rows'[i].state = "pending"
    BY <2>1 DEF NewRow
  <2>3. rows'[i] # NoRow
    <3>1. Typed'
      BY <1>1, <1>3, EnqueueKeeps DEF Inv, Numbered
    <3>2. IsFiniteSet(Rowed) /\ FirstAccepted(place, held.id, file)
      BY DEF Inv, Numbered, Ingesting, FileHeld, Enqueue
    <3>3. place \in Places
      BY <3>2 DEF FirstAccepted, AcceptedPlaces
    <3>4. Cardinality({j \in Ids : rows[j] # NoRow}) \in Nat
      BY <3>2, FS_CardinalityType DEF Rowed
    <3>5. NewRow(held) \in Row
      BY <1>1, <3>3, <3>4 DEF NewRow, Row
    <3> QED
      BY <2>1, <3>5, Constants
  <2>4. TakenOf' = [TakenOf EXCEPT ![i] = held] /\ TakenOf[i] = NoEvent
    <3>1. \A j \in Ids : TakenOf'[j] = IF j = i THEN held ELSE TakenOf[j]
      BY <1>1, <2>1, <2>2, <2>3 DEF TakenOf, Taken
    <3>2. TakenOf' = [j \in Ids |-> TakenOf'[j]]
      BY DEF TakenOf
    <3> QED
      BY <1>1, <1>3, <3>1, <3>2 DEF TakenOf, Taken
  <2>5. OutcomeOf' = OutcomeOf
    <3>1. ASSUME NEW j \in Ids PROVE Outcome(j)' = Outcome(j)
      BY <1>1, <1>3, <2>1, <2>2 DEF Outcome, Is, Ended
    <3> QED
      BY <3>1 DEF OutcomeOf
  <2>6. Delivery!Take(held)
    BY <1>1, <2>4, <2>5, SameDecisions DEF Delivery!Take, TakenOf, OutcomeOf, DecidedOf
  <2> QED
    BY <1>1, <2>6 DEF Delivery!DeliveryNext
<1> QED
  BY <1>2, <1>3 DEF Enqueue

(* Settling a row that was answered completes an event the edge has decided *)
(* on, and settling one that was refused fails an event it never decides.   *)
LEMMA SettleView ==
    ASSUME Inv, Settle
    PROVE  [Delivery!DeliveryNext]_(Delivery!deliveryVars)
<1>0. Typed /\ Numbered /\ Sending /\ Edge /\ RowsBacked /\ pc = "settle"
      /\ UNCHANGED <<receipts, decisions>>
  BY DEF Inv, Ingesting, Settle, edgeVars
<1>1. /\ KeptRows /\ First \in batch
      /\ \A i \in Ids : i # First => rows'[i] = rows[i]
      /\ rows[First].state = "inflight"
      /\ rows'[First].state = CASE answer = "answered" -> "completed"
                                [] answer = "refused" -> "failed"
                                [] answer = "retry" -> "pending"
  BY <1>0, SettleRows
<1>2. PICK k \in Rowed : k = First
  BY <1>0, <1>1 DEF Sending
<1>3. /\ answer \in {"answered", "retry", "refused"}
      /\ answer = "answered" => Decided(k)
      /\ answer = "refused" => rows[k].event \in Refused
  BY <1>0, <1>1, <1>2, FirstOfBatch DEF Sending
<1>4. /\ k \in Ids /\ rows[k] # NoRow /\ rows'[k] # NoRow /\ rows[k].event \in Events
      /\ Decided(k) => TimesDecided(rows[k].event) = 1
      /\ ~Decided(k) => TimesDecided(rows[k].event) = 0
  BY <1>0, <1>1, NeverOrOnce DEF Rowed, KeptRows
<1>5. TakenOf' = TakenOf /\ DecidedOf' = DecidedOf
  BY <1>0, <1>1, KeptRowsView, SameDecisions
<1>6. CASE answer = "retry"
  <2>1. \A i \in Ids : rows[i] # NoRow =>
           \/ rows'[i].state = rows[i].state
           \/ rows'[i].state \notin Ended /\ rows[i].state \notin Ended
    BY <1>1, <1>6 DEF Ended
  <2> QED
    BY <1>0, <1>1, <1>5, <2>1, KeptRowsView, SameView
<1>7. CASE answer # "retry"
  <2> DEFINE how == IF answer = "answered" THEN "completed" ELSE "failed"
  <2>1. rows'[k].state = how /\ how \in Ended
    BY <1>1, <1>2, <1>3, <1>7 DEF Ended
  <2>2. /\ TakenOf[k] = rows[k].event /\ TakenOf[k] # NoEvent
        /\ OutcomeOf[k] = "open"
    BY <1>1, <1>2, <1>4, Constants DEF TakenOf, Taken, OutcomeOf, Outcome, Is, Ended
  <2>3. OutcomeOf' = [OutcomeOf EXCEPT ![k] = how]
    <3>1. ASSUME NEW j \in Ids, j # k PROVE Outcome(j)' = Outcome(j)
      BY <1>1, <1>2, <3>1 DEF Outcome, Is
    <3>2. Outcome(k)' = how
      BY <1>4, <2>1 DEF Outcome, Is
    <3> HIDE DEF how
    <3>3. \A j \in Ids : OutcomeOf'[j] = IF j = k THEN how ELSE OutcomeOf[j]
      BY <3>1, <3>2 DEF OutcomeOf
    <3>4. OutcomeOf' = [j \in Ids |-> OutcomeOf'[j]]
      BY DEF OutcomeOf
    <3> QED
      BY <1>4, <3>3, <3>4 DEF OutcomeOf
  <2>4. DecidedOf[TakenOf[k]] = TimesDecided(rows[k].event)
    BY <1>4, <2>2 DEF DecidedOf
  <2>5. CASE answer = "answered"
    <3>1. Delivery!Complete(k)
      BY <1>0, <1>3, <1>4, <1>5, <2>2, <2>3, <2>4, <2>5
         DEF Delivery!Complete, Delivery!Open, Delivery!End, TakenOf, OutcomeOf, DecidedOf
    <3> QED
      BY <1>4, <3>1 DEF Delivery!DeliveryNext, Delivery!Ids, Ids
  <2>6. CASE answer = "refused"
    <3>1. ~Decided(k)
      BY <1>0, <1>3, <2>6 DEF Decided, Edge
    <3>2. Delivery!Fail(k)
      BY <1>0, <1>4, <1>5, <2>2, <2>3, <2>4, <2>6, <3>1
         DEF Delivery!Fail, Delivery!Open, Delivery!End, TakenOf, OutcomeOf, DecidedOf
    <3> QED
      BY <1>4, <3>2 DEF Delivery!DeliveryNext, Delivery!Ids, Ids
  <2> QED
    BY <1>3, <1>7, <2>5, <2>6
<1> QED
  BY <1>6, <1>7

(* A receipt reports what the row says.                                    *)
LEMMA ReceiptView ==
    ASSUME Inv, WriteReceipt
    PROVE  [Delivery!DeliveryNext]_(Delivery!deliveryVars)
<1>1. /\ UNCHANGED <<decisions, rows>> /\ pc = "receipt"
      /\ receipts' = [receipts EXCEPT ![First] = IF answer = "answered" THEN "delivered" ELSE "failed"]
  BY DEF WriteReceipt, edgeVars
<1>2. IsFirst(First) /\ First \in batch /\ First \in Ids /\ rows[First] # NoRow
  BY <1>1, FirstOfBatch DEF Inv, Sending, IsFirst, Rowed
<1>3. rows[First].state = IF answer = "answered" THEN "completed" ELSE "failed"
  BY <1>1, <1>2 DEF Inv, Sending
<1>4. TakenOf' = TakenOf /\ OutcomeOf' = OutcomeOf /\ DecidedOf' = DecidedOf
  BY <1>1 DEF TakenOf, OutcomeOf, DecidedOf, Taken, Outcome, TimesDecided, Is
<1>5. OutcomeOf[First] = IF answer = "answered" THEN "completed" ELSE "failed"
  BY <1>2, <1>3 DEF OutcomeOf, Outcome, Is, Ended
<1>6. PICK k \in Ids : k = First
  BY <1>2
<1>7. /\ OutcomeOf[k] # "open"
      /\ receipts' = [receipts EXCEPT ![k] = IF OutcomeOf[k] = "completed" THEN "delivered" ELSE "failed"]
  BY <1>1, <1>5, <1>6
<1>8. Delivery!Report(k)
  BY <1>4, <1>7 DEF Delivery!Report, TakenOf, OutcomeOf, DecidedOf
<1> QED
  BY <1>8 DEF Delivery!DeliveryNext, Delivery!Ids, Ids

(* The two kinds of POST: the edge decides now, later, or never.           *)
LEMMA SendView ==
    ASSUME Inv, SendAnswered \/ SendUnanswered
    PROVE  [Delivery!DeliveryNext]_(Delivery!deliveryVars)
<1>1. pc = "send" /\ batch # {} /\ UNCHANGED <<rows, receipts>>
  BY DEF SendAnswered, SendUnanswered, Sent
<1>2. PICK k \in Rowed : k = First
  BY <1>1, FirstOfBatch DEF Inv, Sending, IsFirst
<1>3. \/ UNCHANGED decisions
      \/ rows[k].event \notin Refused /\ EdgeDecides(k)
  BY <1>2 DEF SendAnswered, SendUnanswered, Answered, Refuse, Unanswered, edgeVars
<1>4. CASE UNCHANGED decisions
  <2>1. TakenOf' = TakenOf /\ OutcomeOf' = OutcomeOf
    BY <1>1 DEF TakenOf, OutcomeOf, Taken, Outcome, Is
  <2> QED
    BY <1>1, <1>4, <2>1, SameView, SameDecisions
<1>5. CASE rows[k].event \notin Refused /\ EdgeDecides(k)
  BY <1>1, <1>5, DecisionView DEF Inv, Ingesting
<1> QED
  BY <1>3, <1>4, <1>5

LEMMA BridgeMaps ==
    ASSUME Inv, [Next]_vars
    PROVE  [Delivery!DeliveryNext]_(Delivery!deliveryVars)
<1>1. CASE Enqueue \/ Settle \/ WriteReceipt \/ SendAnswered \/ SendUnanswered
  BY <1>1, EnqueueView, SettleView, ReceiptView, SendView
<1>2. CASE \E i \in Ids : StrayDecided(i)
  <2>1. PICK i \in Ids : StrayDecided(i)
    BY <1>2
  <2>2. i \in Rowed /\ rows[i].event \notin Refused
    BY <2>1 DEF StrayDecided, Inv, Edge
  <2> QED
    BY <2>1, <2>2, DecisionView DEF StrayDecided, Inv, Ingesting
<1>3. CASE Claim \/ \E i \in Ids : LeaseExpires(i) \/ BackoffElapses(i)
  <2>1. UNCHANGED <<decisions, receipts>>
    BY <1>3 DEF Claim, LeaseExpires, BackoffElapses, edgeVars
  <2>2. /\ KeptRows
        /\ \A i \in Ids : rows[i] # NoRow =>
              \/ rows'[i].state = rows[i].state
              \/ rows'[i].state \notin Ended /\ rows[i].state \notin Ended
    <3>1. CASE Claim
      <4>1. /\ KeptRows
            /\ \A i \in Ids : Is(i, Ended) => rows'[i] = rows[i]
            /\ \A i \in Ids : rows'[i] # NoRow /\ rows'[i].state \in Ended => Is(i, Ended)
        BY <3>1, ClaimRows DEF Inv
      <4> QED
        BY <4>1 DEF Is, KeptRows
    <3>2. CASE \E i \in Ids : LeaseExpires(i) \/ BackoffElapses(i)
      BY <3>2, TimeRows DEF Inv
    <3> QED
      BY <1>3, <3>1, <3>2
  <2> QED
    BY <2>1, <2>2, KeptRowsView, SameDecisions, SameView
<1>4. CASE UNCHANGED <<rows, receipts, decisions>>
  <2>1. TakenOf' = TakenOf /\ OutcomeOf' = OutcomeOf
    BY <1>4 DEF TakenOf, OutcomeOf, Taken, Outcome, Is
  <2> QED
    BY <1>4, <2>1, SameView, SameDecisions
<1>5. \/ Enqueue \/ Settle \/ WriteReceipt \/ SendAnswered \/ SendUnanswered
      \/ \E i \in Ids : StrayDecided(i)
      \/ Claim \/ \E i \in Ids : LeaseExpires(i) \/ BackoffElapses(i)
      \/ UNCHANGED <<rows, receipts, decisions>>
  BY DEF Next, BridgeStep, vars, edgeVars, Appear, FillUp, CloseWrite,
     Start, Skip, Read, Move, Reject, MoveTo, ListDone,
     BatchDone, Watch, Wait, Rescan, NoRescan, Deliver, NoDelivery, Crash
<1> QED
  BY <1>1, <1>2, <1>3, <1>4, <1>5

(* Seen by its events alone, the bridge is EventDelivery: whatever files   *)
(* are read twice, whatever answers are lost or come late, and wherever it *)
(* is stopped and started again.                                           *)
THEOREM BridgeDelivers == Spec => ImplementsEventDelivery
<1>1. Init => Delivery!DeliveryInit
  <2> SUFFICES ASSUME Init PROVE Delivery!DeliveryInit
    OBVIOUS
  <2>1. \A i \in Ids : Taken(i) = NoEvent /\ Outcome(i) = "open"
    BY DEF Init, Taken, Outcome, Is
  <2>2. \A e \in Events : TimesDecided(e) = 0
    <3>1. \A e \in Events : {d \in decisions : d.event = e} = {}
      BY DEF Init
    <3> QED
      BY <3>1, FS_EmptySet DEF TimesDecided
  <2>3. receipts = [i \in Ids |-> "none"]
    BY DEF Init
  <2> QED
    BY <2>1, <2>2, <2>3 DEF Delivery!DeliveryInit, Delivery!Ids, Ids
<1>2. Inv /\ [Next]_vars => [Delivery!DeliveryNext]_(Delivery!deliveryVars)
  BY BridgeMaps
<1> QED
  BY <1>1, <1>2, InvHolds, PTL DEF Spec, ImplementsEventDelivery, Delivery!DeliverySpec

=============================================================================
