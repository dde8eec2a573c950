---------------------------- MODULE HandoffProofs ----------------------------
(***************************************************************************)
(* The safety properties of Handoff for any submissions, callers and batch *)
(* size, and any number of closes and crashes.  What concerns the disk is  *)
(* proved for one instance at a time: a second one that opens the journal  *)
(* before close of the first returns can lose a put (MCHandoffReplace).    *)
(*                                                                         *)
(* The invariant says where a submission is.  A reserved one is in a call, *)
(* in the queue, in the writer's batch or pending, and in one place only   *)
(* (ReserveInv); the journal holds, without an ack, just what its owner    *)
(* has pending or is about to publish (DiskInv).                           *)
(***************************************************************************)
EXTENDS Handoff, SequenceTheorems, TLAPS

-----------------------------------------------------------------------------
(* Queues and journals as sequences.                                       *)

\* A sequence that has no element twice.
Distinct(q) == \A j, k \in 1 .. Len(q) : q[j] = q[k] => j = k

\* The elements of a batch are of the type of the batch; an empty one has none.
LEMMA ElementsType ==
  ASSUME NEW T, NEW q \in Seq(T)
  PROVE  Elements(q) \subseteq T /\ Elements(<<>>) = {}
BY DEF Elements

\* Enqueueing adds one element, and no second copy of one unless it was there.
LEMMA QueueAppend ==
  ASSUME NEW T, NEW q \in Seq(T), NEW s \in T
  PROVE  /\ Append(q, s) \in Seq(T)
         /\ Elements(Append(q, s)) = Elements(q) \cup {s}
         /\ Distinct(q) /\ s \notin Elements(q) => Distinct(Append(q, s))
<1>1. Append(q, s) \in Seq(T) /\ Len(Append(q, s)) = Len(q) + 1 /\ Len(q) \in Nat
  OBVIOUS
<1>2. \A k \in 1 .. Len(q) + 1 : Append(q, s)[k] = IF k = Len(q) + 1 THEN s ELSE q[k]
  OBVIOUS
<1>3. Elements(Append(q, s)) = Elements(q) \cup {s}
  BY <1>1, <1>2 DEF Elements
<1>4. Distinct(q) /\ s \notin Elements(q) => Distinct(Append(q, s))
  BY <1>1, <1>2 DEF Elements, Distinct
<1> QED BY <1>1, <1>3, <1>4

\* Taking the first n tickets off a queue divides its elements between the two
\* parts.
LEMMA QueueSplit ==
  ASSUME NEW T, NEW q \in Seq(T), NEW n \in 0 .. Len(q)
  PROVE  /\ SubSeq(q, 1, n) \in Seq(T) /\ SubSeq(q, n + 1, Len(q)) \in Seq(T)
         /\ Elements(SubSeq(q, 1, n)) \cup Elements(SubSeq(q, n + 1, Len(q))) = Elements(q)
         /\ Distinct(q) =>
              /\ Distinct(SubSeq(q, 1, n)) /\ Distinct(SubSeq(q, n + 1, Len(q)))
              /\ Elements(SubSeq(q, 1, n)) \cap Elements(SubSeq(q, n + 1, Len(q))) = {}
<1> DEFINE a == SubSeq(q, 1, n)
           b == SubSeq(q, n + 1, Len(q))
<1>1. a \in Seq(T) /\ Len(a) = n /\ \A k \in 1 .. n : a[k] = q[k]
  OBVIOUS
<1>2. b \in Seq(T) /\ Len(b) = Len(q) - n /\ \A k \in 1 .. Len(q) - n : b[k] = q[n + k]
  OBVIOUS
<1> HIDE DEF a, b
<1>l. Len(q) \in Nat /\ n \in Nat /\ n \leq Len(q)
  OBVIOUS
<1>i. \A k \in 1 .. n : k \in 1 .. Len(q)
  BY <1>l
<1>k. \A k \in 1 .. Len(q) - n : n + k \in 1 .. Len(q)
  BY <1>l
<1>e. \A c, e : e \in Elements(c) <=> \E k \in 1 .. Len(c) : e = c[k]
  BY DEF Elements
<1>3. Elements(a) \cup Elements(b) \subseteq Elements(q)
  <2>1. ASSUME NEW e \in Elements(a) PROVE e \in Elements(q)
    BY <1>1, <1>i, <1>e
  <2>2. ASSUME NEW e \in Elements(b) PROVE e \in Elements(q)
    BY <1>2, <1>k, <1>e
  <2> QED BY <2>1, <2>2
<1>4. ASSUME NEW k \in 1 .. Len(q) PROVE q[k] \in Elements(a) \cup Elements(b)
  <2>1. CASE k \leq n
    <3>1. k \in 1 .. n
      BY <2>1
    <3> QED BY <3>1, <1>1 DEF Elements
  <2>2. CASE k > n
    <3>1. k - n \in 1 .. Len(q) - n /\ n + (k - n) = k
      BY <2>2
    <3>2. b[k - n] = q[k]
      BY <3>1, <1>2
    <3> QED BY <3>1, <3>2, <1>2 DEF Elements
  <2> QED BY <2>1, <2>2
<1>5. Elements(a) \cup Elements(b) = Elements(q)
  <2>1. \A e \in Elements(q) : \E k \in 1 .. Len(q) : e = q[k]
    BY DEF Elements
  <2> QED BY <2>1, <1>3, <1>4
<1>6. ASSUME Distinct(q) PROVE Distinct(a) /\ Distinct(b)
  <2>1. Distinct(a)
    BY <1>1, <1>i, <1>6 DEF Distinct
  <2>2. ASSUME NEW j \in 1 .. Len(q) - n, NEW k \in 1 .. Len(q) - n, b[j] = b[k] PROVE j = k
    <3>1. n + j = n + k
      BY <2>2, <1>2, <1>k, <1>6 DEF Distinct
    <3> QED BY <3>1, <1>l
  <2> QED BY <2>1, <2>2, <1>2 DEF Distinct
<1>7. ASSUME Distinct(q) PROVE Elements(a) \cap Elements(b) = {}
  <2> SUFFICES ASSUME NEW j \in 1 .. n, NEW k \in 1 .. Len(q) - n, a[j] = b[k] PROVE FALSE
    BY <1>1, <1>2 DEF Elements
  <2>1. j \in 1 .. Len(q) /\ n + k \in 1 .. Len(q) /\ q[j] = q[n + k]
    BY <1>1, <1>2
  <2> QED BY <2>1, <1>7 DEF Distinct
<1>8. /\ a \in Seq(T) /\ b \in Seq(T) /\ Elements(a) \cup Elements(b) = Elements(q)
      /\ Distinct(q) => Distinct(a) /\ Distinct(b) /\ Elements(a) \cap Elements(b) = {}
  BY <1>1, <1>2, <1>5, <1>6, <1>7
<1> QED BY <1>8, Zenon DEF a, b

\* An empty journal leaves nothing to replay.
LEMMA UnackedEmpty == Unacked(<<>>) = {}
BY DEF Unacked

\* An ack takes its submission, and no other one, out of what a replay leaves.
LEMMA UnackedAck ==
  ASSUME NEW j \in Seq(Records), NEW s \in Submissions
  PROVE  /\ Append(j, Ack(s)) \in Seq(Records)
         /\ Unacked(Append(j, Ack(s))) = Unacked(j) \ {s}
<1> DEFINE g == Append(j, Ack(s))
<1>1. Ack(s) \in Records /\ \A t : Ack(s) # Put(t)
  BY DEF Ack, Put, Records
<1>2. /\ g \in Seq(Records) /\ Len(g) = Len(j) + 1 /\ Len(j) \in Nat
      /\ \A k \in 1 .. Len(j) : g[k] = j[k]
      /\ g[Len(j) + 1] = Ack(s)
  BY <1>1
<1> HIDE DEF g
<1>3. \A t \in Submissions : Ack(s) = Ack(t) <=> s = t
  BY DEF Ack
<1>4. ASSUME NEW t \in Unacked(g) PROVE t \in Unacked(j) \ {s}
  <2>1. PICK k \in 1 .. Len(g) : g[k] = Put(t) /\ \A m \in k + 1 .. Len(g) : g[m] # Ack(t)
    BY DEF Unacked
  <2>2. t \in Submissions
    BY DEF Unacked
  <2>3. k \in 1 .. Len(j)
    <3>1. k # Len(j) + 1
      BY <2>1, <1>1, <1>2
    <3> QED BY <3>1, <1>2
  <2>4. \A m \in k + 1 .. Len(j) : j[m] # Ack(t)
    BY <2>1, <2>3, <1>2
  <2>5. t # s
    BY <2>1, <2>3, <1>2
  <2> QED BY <2>1, <2>2, <2>3, <2>4, <2>5, <1>2 DEF Unacked
<1>5. ASSUME NEW t \in Unacked(j), t # s PROVE t \in Unacked(g)
  <2>1. PICK k \in 1 .. Len(j) : j[k] = Put(t) /\ \A m \in k + 1 .. Len(j) : j[m] # Ack(t)
    BY DEF Unacked
  <2>2. t \in Submissions
    BY DEF Unacked
  <2>3. k \in 1 .. Len(g) /\ g[k] = Put(t)
    BY <2>1, <1>2
  <2>4. ASSUME NEW m \in k + 1 .. Len(g) PROVE g[m] # Ack(t)
    BY <2>1, <2>2, <1>2, <1>3, <1>5
  <2> QED BY <2>2, <2>3, <2>4 DEF Unacked
<1> QED BY <1>2, <1>4, <1>5 DEF g

\* A batch of puts adds its submissions to what a replay leaves.
LEMMA UnackedPuts ==
  ASSUME NEW j \in Seq(Records), NEW b \in Seq(Submissions)
  PROVE  /\ j \o PutAll(b) \in Seq(Records)
         /\ Unacked(j \o PutAll(b)) = Unacked(j) \cup Elements(b)
<1> DEFINE p == PutAll(b)
           g == j \o p
<1>1. p \in Seq(Records) /\ Len(p) = Len(b) /\ \A k \in 1 .. Len(b) : p[k] = Put(b[k])
  BY DEF PutAll, Put, Records
<1>2. \A s, t \in Submissions : Put(s) # Ack(t) /\ (Put(s) = Put(t) => s = t)
  BY DEF Put, Ack
<1>3. /\ g \in Seq(Records) /\ Len(g) = Len(j) + Len(b) /\ Len(j) \in Nat /\ Len(b) \in Nat
      /\ \A k \in 1 .. Len(j) : g[k] = j[k]
      /\ \A k \in 1 .. Len(b) : g[Len(j) + k] = Put(b[k])
  BY <1>1
<1>4. \A k \in Len(j) + 1 .. Len(g) : k - Len(j) \in 1 .. Len(b) /\ g[k] = Put(b[k - Len(j)])
  <2> TAKE k \in Len(j) + 1 .. Len(g)
  <2>1. k - Len(j) \in 1 .. Len(b) /\ Len(j) + (k - Len(j)) = k
    BY <1>3
  <2> QED BY <2>1, <1>3
<1>b. \A k \in 1 .. Len(b) : b[k] \in Submissions
  OBVIOUS
<1> HIDE DEF g, p
<1>5. ASSUME NEW t \in Unacked(g) PROVE t \in Unacked(j) \cup Elements(b)
  <2>1. PICK k \in 1 .. Len(g) : g[k] = Put(t) /\ \A m \in k + 1 .. Len(g) : g[m] # Ack(t)
    BY DEF Unacked
  <2>2. t \in Submissions
    BY DEF Unacked
  <2>3. CASE k \in 1 .. Len(j)
    <3>1. \A m \in k + 1 .. Len(j) : j[m] # Ack(t)
      BY <2>1, <2>3, <1>3
    <3> QED BY <2>1, <2>2, <2>3, <3>1, <1>3 DEF Unacked
  <2>4. CASE k \in Len(j) + 1 .. Len(g)
    <3>1. t = b[k - Len(j)] /\ k - Len(j) \in 1 .. Len(b)
      BY <2>1, <2>2, <2>4, <1>2, <1>4, <1>b
    <3> QED BY <3>1 DEF Elements
  <2> QED BY <2>3, <2>4, <1>3
<1>6. ASSUME NEW t \in Unacked(j) PROVE t \in Unacked(g)
  <2>1. PICK k \in 1 .. Len(j) : j[k] = Put(t) /\ \A m \in k + 1 .. Len(j) : j[m] # Ack(t)
    BY DEF Unacked
  <2>2. t \in Submissions
    BY DEF Unacked
  <2>3. k \in 1 .. Len(g) /\ g[k] = Put(t)
    BY <2>1, <1>3
  <2>4. ASSUME NEW m \in k + 1 .. Len(g) PROVE g[m] # Ack(t)
    <3>1. CASE m \in k + 1 .. Len(j)
      BY <2>1, <3>1, <1>3
    <3>2. CASE m \in Len(j) + 1 .. Len(g)
      BY <2>2, <3>2, <1>2, <1>4, <1>b
    <3> QED BY <3>1, <3>2, <1>3
  <2> QED BY <2>2, <2>3, <2>4 DEF Unacked
<1>7. ASSUME NEW n \in 1 .. Len(b) PROVE b[n] \in Unacked(g)
  <2>0. Len(j) + n \in 1 .. Len(g)
    <3>1. Len(g) = Len(j) + Len(b) /\ Len(j) \in Nat /\ Len(b) \in Nat
      BY <1>3
    <3> QED BY <3>1
  <2>1. Len(j) + n \in 1 .. Len(g) /\ g[Len(j) + n] = Put(b[n])
    BY <2>0, <1>3
  <2>2. ASSUME NEW m \in Len(j) + n + 1 .. Len(g) PROVE g[m] # Ack(b[n])
    <3>0. Len(g) \in Nat /\ Len(j) \in Nat
      BY <1>3
    <3>1. m \in Len(j) + 1 .. Len(g)
      BY <3>0
    <3>2. m - Len(j) \in 1 .. Len(b) /\ g[m] = Put(b[m - Len(j)])
      BY <3>1, <1>4
    <3> QED BY <3>2, <1>2, <1>b
  <2> QED BY <2>1, <2>2, <1>b DEF Unacked
<1>8. Unacked(g) = Unacked(j) \cup Elements(b)
  BY <1>5, <1>6, <1>7 DEF Elements
<1> QED BY <1>3, <1>8 DEF g, p

\* A call that runs has a submission and an instance, and so has a delivery.
CallType ==
  /\ \A c \in Callers : pc[c] # "idle" => at[c] \in Instances /\ sub[c] \in Submissions
  /\ \A i \in Instances : delivery[i] \in {"append", "ack", "clear"} => inhand[i] \in Submissions

TypeInv == TypeOK /\ CallType

\* Every step keeps the types.
LEMMA TypeStep ==
  ASSUME TypeInv, [Next]_vars
  PROVE  TypeInv'
<1> USE DEF TypeInv, diskVars, lifeVars, workVars, callVars, vars
<1>1. ASSUME NEW c \in Callers, NEW i \in Instances, NEW s \in Submissions,
             SubmitReserve(c, i, s) \/ SubmitRefused(c, i, s)
      PROVE  TypeInv'
  <2>1. CASE SubmitReserve(c, i, s)
    BY <2>1 DEF SubmitReserve, TypeOK, CallType
  <2>2. CASE SubmitRefused(c, i, s)
    BY <2>2 DEF SubmitRefused, TypeOK, CallType
  <2> QED BY <1>1, <2>1, <2>2
<1>2. ASSUME NEW c \in Callers, CallerStep(c) PROVE TypeInv'
  <2>1. CASE LookupFree(c)
    BY <2>1 DEF LookupFree, TypeOK, CallType
  <2>2. CASE LookupDuplicate(c)
    BY <2>2 DEF LookupDuplicate, Unreserve, Return, TypeOK, CallType
  <2>3. CASE LookupRefused(c)
    BY <2>3 DEF LookupRefused, Unreserve, Raise, TypeOK, CallType
  <2>4. CASE Enqueue(c)
    <3>1. at[c] \in Instances /\ sub[c] \in Submissions
      BY <2>4 DEF Enqueue, CallType
    <3>2. Append(queue[at[c]], sub[c]) \in Seq(Submissions)
      BY <3>1, QueueAppend DEF TypeOK
    <3>3. CASE phase[at[c]] = "open"
      <4>1. /\ queue' = [queue EXCEPT ![at[c]] = Append(@, sub[c])] /\ pc' = [pc EXCEPT ![c] = "wait"]
            /\ UNCHANGED <<reserved, sub, at>>
            /\ UNCHANGED <<diskVars, lifeVars, writing, pending, writer, delivery, inhand, accepted>>
        BY <2>4, <3>3 DEF Enqueue
      <4>2. queue' \in [Instances -> Seq(Submissions)]
        BY <3>1, <3>2, <4>1 DEF TypeOK
      <4> QED BY <3>1, <4>1, <4>2 DEF TypeOK, CallType
    <3>4. CASE phase[at[c]] # "open"
      <4>1. /\ Unreserve(at[c], sub[c]) /\ pc' = [pc EXCEPT ![c] = "fallback"] /\ UNCHANGED <<queue, sub, at>>
            /\ UNCHANGED <<diskVars, lifeVars, writing, pending, writer, delivery, inhand, accepted>>
        BY <2>4, <3>4 DEF Enqueue, Raise
      <4> QED BY <3>1, <4>1 DEF Unreserve, TypeOK, CallType
    <3> QED BY <3>3, <3>4
  <2>5. CASE Timeout(c)
    BY <2>5 DEF Timeout, Raise, TypeOK, CallType
  <2>6. CASE Fallback(c)
    BY <2>6 DEF Fallback, Return, Appended, TypeOK, CallType
  <2> QED BY <1>2, <2>1, <2>2, <2>3, <2>4, <2>5, <2>6 DEF CallerStep
<1>3. ASSUME NEW i \in Instances, WriterStep(i) PROVE TypeInv'
  <2>q. queue[i] \in Seq(Submissions) /\ writing[i] \in Seq(Submissions) /\ journal \in Seq(Records)
    BY DEF TypeOK
  <2>1. CASE WriterTake(i)
    <3> DEFINE n == Smaller(Len(queue[i]), BatchLimit)
    <3>1. n \in 0 .. Len(queue[i])
      BY <2>q, BatchLimitAssumption DEF Smaller
    <3> HIDE DEF n
    <3>2. SubSeq(queue[i], 1, n) \in Seq(Submissions) /\ SubSeq(queue[i], n + 1, Len(queue[i])) \in Seq(Submissions)
      BY <2>q, <3>1, QueueSplit
    <3>3. /\ writing' = [writing EXCEPT ![i] = SubSeq(queue[i], 1, n)]
          /\ queue' = [queue EXCEPT ![i] = SubSeq(@, n + 1, Len(@))]
      BY <2>1 DEF WriterTake, n
    <3>4. queue' \in [Instances -> Seq(Submissions)] /\ writing' \in [Instances -> Seq(Submissions)]
      BY <3>2, <3>3 DEF TypeOK
    <3> QED BY <2>1, <3>4 DEF WriterTake, TypeOK, CallType
  <2>2. CASE WriterAppend(i)
    BY <2>2, <2>q, UnackedPuts DEF WriterAppend, TypeOK, CallType
  <2>3. CASE WriterPublish(i)
    <3>1. Elements(writing[i]) \subseteq Submissions /\ <<>> \in Seq(Submissions)
      BY <2>q, ElementsType
    <3>2. { sub[c] : c \in Served(i) } \subseteq Submissions
      BY <3>1 DEF Served
    <3> QED BY <2>3, <3>1, <3>2 DEF WriterPublish, TypeOK, CallType
  <2>4. CASE WriterExit(i)
    <3>1. /\ writer' = [writer EXCEPT ![i] = "exited"] /\ Leave(i, delivery[i])
          /\ UNCHANGED <<outbox, closer, stops, reserved, queue, writing, pending, delivery, inhand, callVars, accepted>>
      BY <2>4 DEF WriterExit
    <3>2. journal' \in Seq(Records)
      <4>1. journal' = journal \/ journal' = <<>>
        BY <3>1 DEF Leave, Compacted
      <4>2. <<>> \in Seq(Records)
        OBVIOUS
      <4> QED BY <4>1, <4>2, <2>q
    <3>3. owner' \in Instances \cup {NoInstance} /\ phase' \in [Instances -> {"down", "open", "closing", "stopping"}]
      BY <3>1 DEF Leave, TypeOK
    <3> QED BY <3>1, <3>2, <3>3 DEF TypeOK, CallType
  <2> QED BY <1>3, <2>1, <2>2, <2>3, <2>4 DEF WriterStep
<1>4. ASSUME NEW i \in Instances, DeliveryStep(i) PROVE TypeInv'
  <2>q. journal \in Seq(Records)
    BY DEF TypeOK
  <2>1. ASSUME NEW s \in Submissions, DeliveryPick(i, s) PROVE TypeInv'
    BY <2>1 DEF DeliveryPick, TypeOK, CallType
  <2>2. CASE DeliveryAppend(i)
    BY <2>2 DEF DeliveryAppend, Appended, TypeOK, CallType
  <2>3. CASE DeliveryAck(i)
    <3>1. inhand[i] \in Submissions /\ journal \in Seq(Records)
      BY <2>3 DEF DeliveryAck, TypeOK, CallType
    <3> QED BY <2>3, <3>1, UnackedAck DEF DeliveryAck, TypeOK, CallType
  <2>4. CASE DeliveryFails(i)
    BY <2>4 DEF DeliveryFails, TypeOK, CallType
  <2>5. CASE DeliveryClear(i)
    BY <2>5 DEF DeliveryClear, TypeOK, CallType
  <2>6. CASE DeliveryCompact(i)
    BY <2>6 DEF DeliveryCompact, Compacted, TypeOK, CallType
  <2>7. CASE DeliveryExit(i)
    <3>1. /\ delivery' = [delivery EXCEPT ![i] = "exited"] /\ Leave(i, writer[i])
          /\ UNCHANGED <<outbox, closer, stops, reserved, queue, writing, pending, writer, inhand, callVars, accepted>>
      BY <2>7 DEF DeliveryExit
    <3>2. journal' \in Seq(Records)
      <4>1. journal' = journal \/ journal' = <<>>
        BY <3>1 DEF Leave, Compacted
      <4>2. <<>> \in Seq(Records)
        OBVIOUS
      <4> QED BY <4>1, <4>2, <2>q
    <3>3. owner' \in Instances \cup {NoInstance} /\ phase' \in [Instances -> {"down", "open", "closing", "stopping"}]
      BY <3>1 DEF Leave, TypeOK
    <3> QED BY <3>1, <3>2, <3>3 DEF TypeOK, CallType
  <2> QED BY <1>4, <2>1, <2>2, <2>3, <2>4, <2>5, <2>6, <2>7 DEF DeliveryStep
<1>5. ASSUME NEW i \in Instances, LifeStep(i) PROVE TypeInv'
  <2>1. CASE Open(i)
    <3>1. Unacked(journal) \subseteq Submissions /\ <<>> \in Seq(Submissions) /\ <<>> \in Seq(Records)
      BY DEF Unacked
    <3> QED BY <2>1, <3>1 DEF Open, TypeOK, CallType
  <2>2. CASE CloseBegin(i)
    BY <2>2, MaxStopsAssumption DEF CloseBegin, TypeOK, CallType
  <2>3. CASE CloseStop(i)
    BY <2>3 DEF CloseStop, TypeOK, CallType
  <2>4. CASE CloseReturn(i)
    BY <2>4 DEF CloseReturn, Compacted, TypeOK, CallType
  <2>5. CASE Crash(i)
    <3>1. writing[i] \in Seq(Submissions) /\ journal \in Seq(Records) /\ Len(writing[i]) \in Nat
      BY DEF TypeOK
    <3>2. PICK n \in 0 .. Len(writing[i]) : journal' = journal \o PutAll(SubSeq(writing[i], 1, n))
      BY <2>5, <3>1 DEF Crash
    <3>3. SubSeq(writing[i], 1, n) \in Seq(Submissions)
      BY <3>1, QueueSplit
    <3>4. journal' \in Seq(Records)
      BY <3>1, <3>2, <3>3, UnackedPuts
    <3>5. stops' \in 0 .. MaxStops
      BY <2>5, MaxStopsAssumption DEF Crash, TypeOK
    <3>6. /\ reserved' \in [Instances -> SUBSET Submissions] /\ pending' \in [Instances -> SUBSET Submissions]
          /\ queue' \in [Instances -> Seq(Submissions)] /\ writing' \in [Instances -> Seq(Submissions)]
          /\ inhand' \in [Instances -> Submissions \cup {NoSubmission}]
      <4>1. <<>> \in Seq(Submissions)
        OBVIOUS
      <4> QED BY <2>5, <4>1 DEF Crash, Forget, TypeOK
    <3>7. /\ pc' \in [Callers -> {"idle", "lookup", "enqueue", "wait", "fallback"}]
          /\ sub' \in [Callers -> Submissions \cup {NoSubmission}] /\ at' \in [Callers -> Instances \cup {NoInstance}]
      BY <2>5 DEF Crash, TypeOK
    <3>8. /\ phase' \in [Instances -> {"down", "open", "closing", "stopping"}] /\ closer' \in [Instances -> BOOLEAN]
          /\ owner' \in Instances \cup {NoInstance}
          /\ writer' \in [Instances -> {"idle", "append", "publish", "exited"}]
          /\ delivery' \in [Instances -> {"idle", "append", "ack", "clear", "compact", "exited"}]
          /\ UNCHANGED <<outbox, accepted>>
      BY <2>5 DEF Crash, TypeOK
    <3>9. TypeOK'
      BY <3>4, <3>5, <3>6, <3>7, <3>8 DEF TypeOK
    <3>10. CallType'
      BY <2>5 DEF Crash, Forget, CallType, TypeOK
    <3> QED BY <3>9, <3>10
  <2> QED BY <1>5, <2>1, <2>2, <2>3, <2>4, <2>5 DEF LifeStep
<1>6. CASE UNCHANGED vars
  BY <1>6 DEF TypeOK, CallType
<1> QED BY <1>1, <1>2, <1>3, <1>4, <1>5, <1>6 DEF Next

\* All variables keep their types, for any number of instances and crashes.
THEOREM TypeCorrect == Spec => []TypeOK
<1>1. Init => TypeInv
  <2>1. <<>> \in Seq(Submissions) /\ <<>> \in Seq(Records)
    OBVIOUS
  <2> QED BY <2>1, MaxStopsAssumption DEF Init, TypeInv, TypeOK, CallType
<1>2. TypeInv /\ [Next]_vars => TypeInv'
  BY TypeStep
<1>3. TypeInv => TypeOK
  BY DEF TypeInv
<1> QED BY <1>1, <1>2, <1>3, PTL DEF Spec

-----------------------------------------------------------------------------
(* Every reserved submission is in one place: in a call, in the queue, in  *)
(* the batch of the writer or among the pending ones.                      *)

\* No two submissions share an id.
UniqueIds(S) == \A r, s \in S : r.id = s.id => r = s

\* The places a submission passes after its call has enqueued it.
Places(i) == Elements(queue[i]) \cup Elements(writing[i]) \cup pending[i]

\* What is in a place is reserved, once per id, and in one place.
PlacesOK(i) ==
  /\ UniqueIds(reserved[i])
  /\ Places(i) \subseteq reserved[i]
  /\ Distinct(queue[i]) /\ Distinct(writing[i])
  /\ Elements(queue[i]) \cap Elements(writing[i]) = {}
  /\ pending[i] \cap (Elements(queue[i]) \cup Elements(writing[i])) = {}

\* The call holds a reservation that nothing else stands for yet.
Calling(c) == pc[c] \in {"lookup", "enqueue"}

CallOK(c) == Calling(c) => sub[c] \in reserved[at[c]] \ Places(at[c])

\* No two calls hold the same reservation.
CallsDiffer ==
  \A c, d \in Callers : Calling(c) /\ Calling(d) /\ at[c] = at[d] /\ sub[c] = sub[d] => c = d

ReserveInv ==
  /\ \A i \in Instances : PlacesOK(i)
  /\ \A c \in Callers : CallOK(c)
  /\ CallsDiffer

\* A step is harmless when it starts no call and leaves the places alone.
LEMMA QuietStep ==
  ASSUME ReserveInv, UNCHANGED <<reserved, queue, writing, pending>>,
         \A c \in Callers : Calling(c)' => Calling(c) /\ sub'[c] = sub[c] /\ at'[c] = at[c]
  PROVE  ReserveInv'
<1>1. \A i \in Instances : PlacesOK(i)'
  BY DEF ReserveInv, PlacesOK, Places
<1>2. \A c \in Callers : CallOK(c)'
  BY DEF ReserveInv, CallOK, Places
<1>3. CallsDiffer'
  BY DEF ReserveInv, CallsDiffer
<1> QED BY <1>1, <1>2, <1>3 DEF ReserveInv

\* A step of call c that gives its reservation back.
LEMMA UnreserveStep ==
  ASSUME TypeInv, ReserveInv, NEW c \in Callers, Calling(c), ~Calling(c)',
         Unreserve(at[c], sub[c]), UNCHANGED <<queue, writing, pending>>,
         \A d \in Callers \ {c} : pc'[d] = pc[d] /\ sub'[d] = sub[d] /\ at'[d] = at[d]
  PROVE  ReserveInv'
<1> DEFINE i == at[c]
           s == sub[c]
<1>1. i \in Instances /\ s \in reserved[i] \ Places(i)
  BY DEF ReserveInv, CallOK, TypeInv, CallType, Calling
<1>2. reserved' = [reserved EXCEPT ![i] = @ \ {s}]
  BY <1>1 DEF Unreserve, Places, TypeInv, TypeOK
<1> HIDE DEF i, s
<1>3. \A j \in Instances : reserved'[j] = IF j = i THEN reserved[j] \ {s} ELSE reserved[j]
  BY <1>2 DEF TypeInv, TypeOK
<1>4. ASSUME NEW j \in Instances PROVE PlacesOK(j)'
  <2>1. PlacesOK(j) /\ Places(j)' = Places(j)
    BY DEF ReserveInv, Places
  <2> QED BY <2>1, <1>1, <1>3 DEF PlacesOK, UniqueIds
<1>5. ASSUME NEW d \in Callers, Calling(d)' PROVE CallOK(d)'
  <2>1. d # c /\ Calling(d) /\ sub'[d] = sub[d] /\ at'[d] = at[d]
    BY <1>5 DEF Calling
  <2>2. at[d] \in Instances /\ sub[d] \in reserved[at[d]] \ Places(at[d])
    BY <2>1 DEF ReserveInv, CallOK, TypeInv, CallType, Calling
  <2>3. at[d] # i \/ sub[d] # s
    BY <2>1 DEF ReserveInv, CallsDiffer, i, s
  <2> QED BY <2>1, <2>2, <2>3, <1>3 DEF CallOK, Places
<1>6. CallsDiffer'
  <2>1. \A d \in Callers : Calling(d)' => Calling(d) /\ sub'[d] = sub[d] /\ at'[d] = at[d]
    BY DEF Calling
  <2> QED BY <2>1 DEF ReserveInv, CallsDiffer
<1> QED BY <1>4, <1>5, <1>6 DEF ReserveInv, CallOK

\* The calls of submit keep every reserved submission in one place.
LEMMA ReserveCalls ==
  ASSUME TypeInv, ReserveInv, NEW c \in Callers,
         CallerStep(c) \/ \E i \in Instances, s \in Submissions : SubmitReserve(c, i, s) \/ SubmitRefused(c, i, s)
  PROVE  ReserveInv'
<1> USE DEF diskVars, lifeVars, workVars, callVars
<1>1. ASSUME NEW i \in Instances, NEW s \in Submissions, SubmitReserve(c, i, s) PROVE ReserveInv'
  <2>0. /\ ~Calling(c) /\ ~SameId(s, reserved[i]) /\ UNCHANGED <<queue, writing, pending>>
        /\ \A j \in Instances : reserved'[j] = IF j = i THEN reserved[j] \cup {s} ELSE reserved[j]
        /\ sub'[c] = s /\ at'[c] = i
        /\ \A d \in Callers \ {c} : pc'[d] = pc[d] /\ sub'[d] = sub[d] /\ at'[d] = at[d]
    BY <1>1 DEF SubmitReserve, Calling, TypeInv, TypeOK
  <2>1. s \notin reserved[i]
    BY <2>0 DEF SameId
  <2>2. ASSUME NEW j \in Instances PROVE PlacesOK(j)'
    <3>1. PlacesOK(j) /\ Places(j)' = Places(j)
      BY <2>0 DEF ReserveInv, Places
    <3>2. \A r \in reserved[i] : r.id # s.id
      BY <2>0 DEF SameId
    <3>3. \A q, r \in reserved'[j] : q.id = r.id => q = r
      <4>1. \A q, r \in reserved[j] : q.id = r.id => q = r
        BY <3>1 DEF PlacesOK, UniqueIds
      <4>2. CASE j = i
        <5>1. reserved'[j] = reserved[j] \cup {s}
          BY <2>0, <4>2
        <5> QED BY <5>1, <4>1, <3>2, <4>2
      <4>3. CASE j # i
        <5>1. reserved'[j] = reserved[j]
          BY <2>0, <4>3
        <5> QED BY <5>1, <4>1
      <4> QED BY <4>2, <4>3
    <3>4. UniqueIds(reserved[j])'
      BY <3>3 DEF UniqueIds
    <3> QED BY <2>0, <3>1, <3>4 DEF PlacesOK
  <2>3. ASSUME NEW d \in Callers \ {c}, Calling(d)'
        PROVE  CallOK(d)' /\ ~(at'[d] = i /\ sub'[d] = s)
    <3>1. Calling(d) /\ sub'[d] = sub[d] /\ at'[d] = at[d]
      BY <2>0, <2>3 DEF Calling
    <3>2. at[d] \in Instances /\ sub[d] \in reserved[at[d]] \ Places(at[d])
      BY <3>1 DEF ReserveInv, CallOK, TypeInv, CallType, Calling
    <3> QED BY <2>0, <2>1, <3>1, <3>2 DEF CallOK, Places
  <2>4. CallOK(c)'
    <3>1. s \notin Places(i)
      BY <2>1 DEF ReserveInv, PlacesOK
    <3> QED BY <2>0, <3>1 DEF CallOK, Places
  <2>5. CallsDiffer'
    <3>1. \A d \in Callers \ {c} : Calling(d)' => Calling(d) /\ sub'[d] = sub[d] /\ at'[d] = at[d]
      BY <2>0 DEF Calling
    <3> QED BY <2>0, <2>3, <3>1 DEF ReserveInv, CallsDiffer
  <2> QED BY <2>2, <2>3, <2>4, <2>5 DEF ReserveInv, CallOK
<1>2. ASSUME NEW i \in Instances, NEW s \in Submissions, SubmitRefused(c, i, s) PROVE ReserveInv'
  <2>1. /\ UNCHANGED <<reserved, queue, writing, pending>>
        /\ \A d \in Callers : Calling(d)' => Calling(d) /\ sub'[d] = sub[d] /\ at'[d] = at[d]
    BY <1>2 DEF SubmitRefused, Calling, TypeInv, TypeOK
  <2> QED BY <2>1, QuietStep
<1>3. CASE LookupFree(c) \/ Timeout(c) \/ Fallback(c)
  <2>1. /\ UNCHANGED <<reserved, queue, writing, pending>>
        /\ \A d \in Callers : Calling(d)' => Calling(d) /\ sub'[d] = sub[d] /\ at'[d] = at[d]
    BY <1>3 DEF LookupFree, Timeout, Raise, Fallback, Return, Calling, TypeInv, TypeOK
  <2> QED BY <2>1, QuietStep
<1>4. CASE LookupDuplicate(c) \/ LookupRefused(c)
  <2>1. /\ Calling(c) /\ ~Calling(c)' /\ Unreserve(at[c], sub[c]) /\ UNCHANGED <<queue, writing, pending>>
        /\ \A d \in Callers \ {c} : pc'[d] = pc[d] /\ sub'[d] = sub[d] /\ at'[d] = at[d]
    BY <1>4 DEF LookupDuplicate, LookupRefused, Return, Raise, Calling, TypeInv, TypeOK
  <2> QED BY <2>1, UnreserveStep
<1>5. CASE Enqueue(c)
  <2>1. CASE phase[at[c]] # "open"
    <3>1. /\ Calling(c) /\ ~Calling(c)' /\ Unreserve(at[c], sub[c]) /\ UNCHANGED <<queue, writing, pending>>
          /\ \A d \in Callers \ {c} : pc'[d] = pc[d] /\ sub'[d] = sub[d] /\ at'[d] = at[d]
      BY <1>5, <2>1 DEF Enqueue, Raise, Calling, TypeInv, TypeOK
    <3> QED BY <3>1, UnreserveStep
  <2>2. CASE phase[at[c]] = "open"
    <3>a. Calling(c) /\ at[c] \in Instances /\ sub[c] \in Submissions
      BY <1>5 DEF Enqueue, Calling, TypeInv, CallType
    <3>p. PICK i \in Instances, s \in Submissions : i = at[c] /\ s = sub[c]
      BY <3>a
    <3>0. /\ ~Calling(c)' /\ UNCHANGED <<reserved, writing, pending, sub, at>>
          /\ queue' = [queue EXCEPT ![i] = Append(@, s)]
          /\ \A d \in Callers \ {c} : pc'[d] = pc[d]
      BY <1>5, <2>2, <3>p DEF Enqueue, Calling, TypeInv, TypeOK
    <3>1. s \in reserved[i] \ Places(i)
      BY <3>a, <3>p DEF ReserveInv, CallOK
    <3>2. /\ queue[i] \in Seq(Submissions) /\ queue'[i] = Append(queue[i], s)
          /\ \A j \in Instances \ {i} : queue'[j] = queue[j]
      BY <3>0, <3>1 DEF TypeInv, TypeOK
    <3>d. \A d \in Callers : Calling(d)' => Calling(d) /\ d # c
      BY <3>0 DEF Calling
    <3>e. \A d \in Callers : Calling(d) /\ at[d] = i /\ sub[d] = s => d = c
      BY <3>a, <3>p DEF ReserveInv, CallsDiffer
    <3>3. /\ Elements(queue'[i]) = Elements(queue[i]) \cup {s}
          /\ s \notin Elements(queue[i]) /\ Distinct(queue[i]) => Distinct(queue'[i])
      BY <3>1, <3>2, QueueAppend
    <3>4. Places(i)' = Places(i) \cup {s} /\ \A j \in Instances \ {i} : Places(j)' = Places(j)
      BY <3>0, <3>2, <3>3 DEF Places
    <3>5. PlacesOK(i)'
      <4>1. PlacesOK(i) /\ s \notin Elements(queue[i]) /\ s \notin Elements(writing[i]) /\ s \notin pending[i]
        BY <3>1 DEF ReserveInv, Places
      <4> QED BY <4>1, <3>0, <3>1, <3>3, <3>4 DEF PlacesOK
    <3>6. \A j \in Instances \ {i} : PlacesOK(j)'
      BY <3>0, <3>2, <3>4 DEF ReserveInv, PlacesOK
    <3>7. ASSUME NEW d \in Callers, Calling(d)' PROVE CallOK(d)'
      <4>1. at[d] \in Instances /\ sub[d] \in reserved[at[d]] \ Places(at[d])
        BY <3>d, <3>7 DEF ReserveInv, CallOK, TypeInv, CallType, Calling
      <4>2. at[d] # i \/ sub[d] # s
        BY <3>d, <3>e, <3>7
      <4> QED BY <4>1, <4>2, <3>0, <3>1, <3>4 DEF CallOK
    <3>8. CallsDiffer'
      BY <3>0, <3>d DEF ReserveInv, CallsDiffer
    <3> QED BY <3>5, <3>6, <3>7, <3>8 DEF ReserveInv, CallOK
  <2> QED BY <2>1, <2>2
<1> QED BY <1>1, <1>2, <1>3, <1>4, <1>5 DEF CallerStep

\* The writer moves its tickets from the queue over its batch to the pending
\* entries.
LEMMA ReserveWriter ==
  ASSUME TypeInv, ReserveInv, NEW i \in Instances, WriterStep(i)
  PROVE  ReserveInv'
<1> USE DEF diskVars, lifeVars, workVars, callVars
<1>0. /\ queue[i] \in Seq(Submissions) /\ writing[i] \in Seq(Submissions)
      /\ PlacesOK(i)
  BY DEF TypeInv, TypeOK, ReserveInv
<1>1. CASE WriterTake(i)
  <2> DEFINE n == Smaller(Len(queue[i]), BatchLimit)
             a == SubSeq(queue[i], 1, n)
             b == SubSeq(queue[i], n + 1, Len(queue[i]))
  <2>1. n \in 0 .. Len(queue[i])
    BY <1>0, BatchLimitAssumption DEF Smaller
  <2>2. /\ UNCHANGED <<reserved, pending, pc, sub, at>>
        /\ \A j \in Instances : queue'[j] = IF j = i THEN b ELSE queue[j]
        /\ \A j \in Instances : writing'[j] = IF j = i THEN a ELSE writing[j]
    BY <1>1 DEF WriterTake, TypeInv, TypeOK
  <2> HIDE DEF n
  <2>3. /\ Elements(a) \cup Elements(b) = Elements(queue[i])
        /\ Distinct(a) /\ Distinct(b) /\ Elements(a) \cap Elements(b) = {}
    BY <1>0, <2>1, QueueSplit DEF PlacesOK
  <2> HIDE DEF a, b
  <2>4. \A j \in Instances : Places(j)' \subseteq Places(j)
    BY <2>2, <2>3 DEF Places
  <2>5. PlacesOK(i)'
    BY <1>0, <2>2, <2>3, <2>4 DEF PlacesOK
  <2>6. \A j \in Instances \ {i} : PlacesOK(j)'
    BY <2>2, <2>4 DEF ReserveInv, PlacesOK
  <2>7. ASSUME NEW c \in Callers PROVE CallOK(c)'
    <3> SUFFICES ASSUME Calling(c) PROVE CallOK(c)'
      BY <2>2 DEF CallOK, Calling
    <3>1. at[c] \in Instances /\ sub[c] \in reserved[at[c]] \ Places(at[c])
      BY DEF ReserveInv, CallOK, TypeInv, CallType, Calling
    <3> QED BY <3>1, <2>2, <2>4 DEF CallOK
  <2>8. CallsDiffer'
    BY <2>2 DEF ReserveInv, CallsDiffer, Calling
  <2> QED BY <2>5, <2>6, <2>7, <2>8 DEF ReserveInv
<1>2. CASE WriterAppend(i) \/ WriterExit(i)
  <2>1. /\ UNCHANGED <<reserved, queue, writing, pending>>
        /\ \A d \in Callers : Calling(d)' => Calling(d) /\ sub'[d] = sub[d] /\ at'[d] = at[d]
    BY <1>2 DEF WriterAppend, WriterExit, Calling
  <2> QED BY <2>1, QuietStep
<1>3. CASE WriterPublish(i)
  <2>1. /\ UNCHANGED <<reserved, queue>>
        /\ \A j \in Instances : writing'[j] = IF j = i THEN <<>> ELSE writing[j]
        /\ \A j \in Instances : pending'[j] = IF j = i THEN pending[j] \cup Elements(writing[j]) ELSE pending[j]
        /\ \A d \in Callers : Calling(d)' => Calling(d) /\ sub'[d] = sub[d] /\ at'[d] = at[d]
    BY <1>3 DEF WriterPublish, Served, Calling, TypeInv, TypeOK
  <2>2. Elements(<<>>) = {} /\ Distinct(<<>>)
    BY ElementsType DEF Distinct, Elements
  <2>3. \A j \in Instances : Places(j)' = Places(j)
    BY <2>1, <2>2 DEF Places
  <2>4. PlacesOK(i)'
    BY <1>0, <2>1, <2>2, <2>3 DEF PlacesOK
  <2>5. \A j \in Instances \ {i} : PlacesOK(j)'
    BY <2>1, <2>3 DEF ReserveInv, PlacesOK
  <2>6. ASSUME NEW c \in Callers, Calling(c)' PROVE CallOK(c)'
    <3>1. Calling(c) /\ at[c] \in Instances /\ sub[c] \in reserved[at[c]] \ Places(at[c])
      BY <2>1, <2>6 DEF ReserveInv, CallOK, TypeInv, CallType, Calling
    <3> QED BY <3>1, <2>1, <2>3, <2>6 DEF CallOK
  <2>7. CallsDiffer'
    BY <2>1 DEF ReserveInv, CallsDiffer
  <2> QED BY <2>4, <2>5, <2>6, <2>7 DEF ReserveInv, CallOK
<1> QED BY <1>1, <1>2, <1>3 DEF WriterStep

\* What the delivery thread has in hand is pending.
HandInv ==
  \A i \in Instances : delivery[i] \in {"append", "ack", "clear"} => inhand[i] \in pending[i]

\* The delivery thread drops an entry and its reservation together.
LEMMA ReserveDelivery ==
  ASSUME TypeInv, ReserveInv, HandInv, NEW i \in Instances, DeliveryStep(i)
  PROVE  ReserveInv'
<1> USE DEF diskVars, lifeVars, workVars, callVars
<1>1. CASE DeliveryClear(i)
  <2>0. inhand[i] \in pending[i] /\ PlacesOK(i)
    BY <1>1 DEF DeliveryClear, HandInv, ReserveInv
  <2>p. PICK s \in pending[i] : s = inhand[i]
    BY <2>0
  <2>1. /\ UNCHANGED <<queue, writing, pc, sub, at>>
        /\ \A j \in Instances : pending'[j] = IF j = i THEN pending[j] \ {s} ELSE pending[j]
        /\ \A j \in Instances : reserved'[j] = IF j = i THEN { r \in reserved[j] : r.id # s.id } ELSE reserved[j]
    BY <1>1, <2>p DEF DeliveryClear, TypeInv, TypeOK
  <2>2. \A r \in reserved[i] : r # s => r.id # s.id
    BY <2>0 DEF PlacesOK, UniqueIds, Places
  <2>3. reserved'[i] = reserved[i] \ {s}
    BY <2>1, <2>2
  <2>4. Places(i)' = Places(i) \ {s} /\ \A j \in Instances \ {i} : Places(j)' = Places(j)
    BY <2>0, <2>1 DEF Places, PlacesOK
  <2>5. PlacesOK(i)'
    BY <2>0, <2>1, <2>3, <2>4 DEF PlacesOK, UniqueIds
  <2>6. \A j \in Instances \ {i} : PlacesOK(j)'
    BY <2>1, <2>4 DEF ReserveInv, PlacesOK
  <2>7. ASSUME NEW c \in Callers, Calling(c) PROVE CallOK(c)'
    <3>1. at[c] \in Instances /\ sub[c] \in reserved[at[c]] \ Places(at[c])
      BY <2>7 DEF ReserveInv, CallOK, TypeInv, CallType, Calling
    <3>2. s \in Places(i)
      BY DEF Places
    <3> QED BY <3>1, <3>2, <2>1, <2>3, <2>4 DEF CallOK
  <2>8. \A c \in Callers : Calling(c)' <=> Calling(c)
    BY <2>1 DEF Calling
  <2>9. CallsDiffer'
    BY <2>1, <2>8 DEF ReserveInv, CallsDiffer
  <2> QED BY <2>5, <2>6, <2>7, <2>8, <2>9 DEF ReserveInv, CallOK
<1>2. CASE ~DeliveryClear(i)
  <2>1. /\ UNCHANGED <<reserved, queue, writing, pending>>
        /\ \A d \in Callers : Calling(d)' => Calling(d) /\ sub'[d] = sub[d] /\ at'[d] = at[d]
    BY <1>2 DEF DeliveryStep, DeliveryPick, DeliveryAppend, DeliveryAck, DeliveryFails, DeliveryCompact,
                DeliveryExit, Calling
  <2> QED BY <2>1, QuietStep
<1> QED BY <1>1, <1>2

\* What the replay of a journal leaves has one submission per id.
LEMMA ReplayedIds ==
  ASSUME NEW j \in Seq(Records), Replayable(j)
  PROVE  UniqueIds(Unacked(j))
<1>1. CASE j = <<>>
  BY <1>1, UnackedEmpty DEF UniqueIds
<1>2. CASE j # <<>>
  <2>1. Len(j) \in 1 .. Len(j) /\ SubSeq(j, 1, Len(j)) = j
    BY <1>2
  <2>2. \A r, q \in Unacked(SubSeq(j, 1, Len(j))) : q.id = r.id => r = q
    BY <2>1 DEF Replayable
  <2> QED BY <2>1, <2>2 DEF UniqueIds
<1> QED BY <1>1, <1>2

\* Opening reserves what is replayed, a crash forgets all places, and close
\* touches none.
LEMMA ReserveLife ==
  ASSUME TypeInv, ReserveInv, NEW i \in Instances, LifeStep(i)
  PROVE  ReserveInv'
<1> USE DEF diskVars, lifeVars, workVars, callVars
<1>0. Elements(<<>>) = {} /\ Distinct(<<>>)
  BY ElementsType DEF Distinct, Elements
<1>1. CASE Open(i)
  <2>1. /\ UNCHANGED <<pc, sub, at>> /\ \A c \in Callers : at[c] # i
        /\ \A j \in Instances : reserved'[j] = IF j = i THEN Unacked(journal) ELSE reserved[j]
        /\ \A j \in Instances : pending'[j] = IF j = i THEN Unacked(journal) ELSE pending[j]
        /\ \A j \in Instances : queue'[j] = IF j = i THEN <<>> ELSE queue[j]
        /\ \A j \in Instances : writing'[j] = IF j = i THEN <<>> ELSE writing[j]
    BY <1>1 DEF Open, TypeInv, TypeOK
  <2>2. UniqueIds(Unacked(journal))
    BY <1>1, ReplayedIds DEF Open, TypeInv, TypeOK
  <2>3. PlacesOK(i)'
    <3>1. Places(i)' = Unacked(journal)
      BY <2>1, <1>0 DEF Places
    <3> QED BY <3>1, <2>1, <2>2, <1>0 DEF PlacesOK, UniqueIds
  <2>4. ASSUME NEW j \in Instances \ {i} PROVE PlacesOK(j)' /\ Places(j)' = Places(j)
    BY <2>1 DEF ReserveInv, PlacesOK, Places
  <2>5. ASSUME NEW c \in Callers, Calling(c)' PROVE CallOK(c)'
    <3>1. Calling(c) /\ at[c] \in Instances \ {i} /\ sub[c] \in reserved[at[c]] \ Places(at[c])
      BY <2>1, <2>5 DEF ReserveInv, CallOK, TypeInv, CallType, Calling
    <3> QED BY <3>1, <2>1, <2>4 DEF CallOK
  <2>6. CallsDiffer'
    BY <2>1 DEF ReserveInv, CallsDiffer, Calling
  <2> QED BY <2>3, <2>4, <2>5, <2>6 DEF ReserveInv, CallOK
<1>2. CASE CloseBegin(i) \/ CloseStop(i) \/ CloseReturn(i)
  <2>1. /\ UNCHANGED <<reserved, queue, writing, pending>>
        /\ \A d \in Callers : Calling(d)' => Calling(d) /\ sub'[d] = sub[d] /\ at'[d] = at[d]
    BY <1>2 DEF CloseBegin, CloseStop, CloseReturn, Calling
  <2> QED BY <2>1, QuietStep
<1>3. CASE Crash(i)
  <2>1. /\ \A j \in Instances : reserved'[j] = IF j = i THEN {} ELSE reserved[j]
        /\ \A j \in Instances : pending'[j] = IF j = i THEN {} ELSE pending[j]
        /\ \A j \in Instances : queue'[j] = IF j = i THEN <<>> ELSE queue[j]
        /\ \A j \in Instances : writing'[j] = IF j = i THEN <<>> ELSE writing[j]
    BY <1>3 DEF Crash, Forget, TypeInv, TypeOK
  <2>2. \A c \in Callers : Calling(c)' => Calling(c) /\ at[c] # i /\ sub'[c] = sub[c] /\ at'[c] = at[c]
    BY <1>3 DEF Crash, Calling
  <2>3. PlacesOK(i)'
    BY <2>1, <1>0 DEF PlacesOK, Places, UniqueIds
  <2>4. ASSUME NEW j \in Instances \ {i} PROVE PlacesOK(j)' /\ Places(j)' = Places(j)
    BY <2>1 DEF ReserveInv, PlacesOK, Places
  <2>5. ASSUME NEW c \in Callers, Calling(c)' PROVE CallOK(c)'
    <3>1. Calling(c) /\ at[c] \in Instances \ {i} /\ sub[c] \in reserved[at[c]] \ Places(at[c])
      BY <2>2, <2>5 DEF ReserveInv, CallOK, TypeInv, CallType, Calling
    <3> QED BY <3>1, <2>1, <2>2, <2>4, <2>5 DEF CallOK
  <2>6. CallsDiffer'
    BY <2>2 DEF ReserveInv, CallsDiffer
  <2> QED BY <2>3, <2>4, <2>5, <2>6 DEF ReserveInv, CallOK
<1> QED BY <1>1, <1>2, <1>3 DEF LifeStep

\* Every step keeps the reservations right.
LEMMA ReserveStep ==
  ASSUME TypeInv, ReserveInv, HandInv, [Next]_vars
  PROVE  ReserveInv'
<1>1. ASSUME UNCHANGED vars PROVE ReserveInv'
  BY <1>1, QuietStep DEF vars, workVars, callVars, Calling
<1>2. ASSUME Next PROVE ReserveInv'
  BY <1>2, ReserveCalls, ReserveWriter, ReserveDelivery, ReserveLife DEF Next
<1> QED BY <1>1, <1>2

\* Every step keeps what is in hand pending: only the delivery thread itself
\* drops an entry while it holds one.
LEMMA HandStep ==
  ASSUME TypeInv, HandInv, [Next]_vars
  PROVE  HandInv'
<1> USE DEF diskVars, lifeVars, workVars, callVars, vars
<1>1. ASSUME UNCHANGED <<delivery, inhand, pending>> PROVE HandInv'
  BY <1>1 DEF HandInv
<1>2. ASSUME NEW c \in Callers,
             CallerStep(c) \/ \E i \in Instances, s \in Submissions : SubmitReserve(c, i, s) \/ SubmitRefused(c, i, s)
      PROVE  HandInv'
  <2>1. UNCHANGED <<delivery, inhand, pending>>
    BY <1>2 DEF CallerStep, SubmitReserve, SubmitRefused, LookupFree, LookupDuplicate, LookupRefused,
                Enqueue, Timeout, Fallback
  <2> QED BY <2>1, <1>1
<1>3. ASSUME NEW i \in Instances, WriterStep(i) PROVE HandInv'
  <2>1. CASE WriterPublish(i)
    BY <2>1 DEF WriterPublish, HandInv, TypeInv, TypeOK
  <2>2. CASE ~WriterPublish(i)
    <3>1. UNCHANGED <<delivery, inhand, pending>>
      BY <1>3, <2>2 DEF WriterStep, WriterTake, WriterAppend, WriterExit
    <3> QED BY <3>1, <1>1
  <2> QED BY <2>1, <2>2
<1>4. ASSUME NEW i \in Instances, DeliveryStep(i) PROVE HandInv'
  <2>1. \A j \in Instances \ {i} : delivery'[j] = delivery[j] /\ inhand'[j] = inhand[j] /\ pending'[j] = pending[j]
    BY <1>4 DEF DeliveryStep, DeliveryPick, DeliveryAppend, DeliveryAck, DeliveryFails, DeliveryClear,
                DeliveryCompact, DeliveryExit, TypeInv, TypeOK
  <2>2. delivery'[i] \in {"append", "ack", "clear"} => inhand'[i] \in pending'[i]
    BY <1>4 DEF DeliveryStep, DeliveryPick, DeliveryAppend, DeliveryAck, DeliveryFails, DeliveryClear,
                DeliveryCompact, DeliveryExit, HandInv, TypeInv, TypeOK
  <2> QED BY <2>1, <2>2 DEF HandInv
<1>5. ASSUME NEW i \in Instances, LifeStep(i) PROVE HandInv'
  <2>1. CASE Open(i) \/ Crash(i)
    <3>1. \A j \in Instances \ {i} : delivery'[j] = delivery[j] /\ inhand'[j] = inhand[j] /\ pending'[j] = pending[j]
      BY <2>1 DEF Open, Crash, Forget, TypeInv, TypeOK
    <3>2. delivery'[i] \in {"idle", "exited"}
      BY <2>1 DEF Open, Crash, TypeInv, TypeOK
    <3> QED BY <3>1, <3>2 DEF HandInv
  <2>2. CASE CloseBegin(i) \/ CloseStop(i) \/ CloseReturn(i)
    <3>1. UNCHANGED <<delivery, inhand, pending>>
      BY <2>2 DEF CloseBegin, CloseStop, CloseReturn
    <3> QED BY <3>1, <1>1
  <2> QED BY <1>5, <2>1, <2>2 DEF LifeStep
<1>6. ASSUME UNCHANGED vars PROVE HandInv'
  BY <1>1, <1>6
<1> QED BY <1>2, <1>3, <1>4, <1>5, <1>6 DEF Next

-----------------------------------------------------------------------------
(* What is on the disk, for one instance at a time.                        *)

\* The next instance is opened when close of the last one has returned.
OneInstance == \A i, j \in Instances : i = j

\* What the delivery thread has acknowledged already is in the outbox.
OutboxInv ==
  \A i \in Instances : delivery[i] \in {"ack", "clear"} => inhand[i] \in outbox

\* Rows never leave the outbox here, and an ack comes after the append.
LEMMA OutboxStep ==
  ASSUME TypeInv, OutboxInv, [Next]_vars
  PROVE  OutboxInv' /\ outbox \subseteq outbox'
<1> USE DEF diskVars, lifeVars, workVars, callVars, vars
<1>1. outbox \subseteq outbox'
  <2>1. ASSUME NEW c \in Callers, CallerStep(c) PROVE outbox \subseteq outbox'
    BY <2>1 DEF CallerStep, LookupFree, LookupDuplicate, LookupRefused, Enqueue, Timeout, Fallback, Appended
  <2>2. ASSUME NEW i \in Instances, WriterStep(i) \/ DeliveryStep(i) \/ LifeStep(i) PROVE outbox \subseteq outbox'
    BY <2>2 DEF WriterStep, WriterTake, WriterAppend, WriterPublish, WriterExit, DeliveryStep, DeliveryPick,
                DeliveryAppend, DeliveryAck, DeliveryFails, DeliveryClear, DeliveryCompact, DeliveryExit,
                LifeStep, Open, CloseBegin, CloseStop, CloseReturn, Crash, Appended
  <2> QED BY <2>1, <2>2 DEF Next, SubmitReserve, SubmitRefused
<1>2. ASSUME NEW i \in Instances, delivery'[i] \in {"ack", "clear"} PROVE inhand'[i] \in outbox'
  <2>1. CASE delivery'[i] = delivery[i] /\ inhand'[i] = inhand[i]
    BY <1>1, <1>2, <2>1 DEF OutboxInv
  <2>2. CASE DeliveryAppend(i) \/ DeliveryAck(i)
    BY <1>1, <2>2 DEF DeliveryAppend, DeliveryAck, OutboxInv, TypeInv, TypeOK
  <2>3. ASSUME NEW j \in Instances, DeliveryStep(j)
        PROVE  inhand'[i] \in outbox'
    <3>1. CASE j # i
      BY <2>1, <2>3, <3>1 DEF DeliveryStep, DeliveryPick, DeliveryAppend, DeliveryAck, DeliveryFails,
                DeliveryClear, DeliveryCompact, DeliveryExit, TypeInv, TypeOK
    <3>2. CASE j = i
      BY <1>2, <2>2, <2>3, <3>2 DEF DeliveryStep, DeliveryPick, DeliveryFails,
                DeliveryClear, DeliveryCompact, DeliveryExit, TypeInv, TypeOK
    <3> QED BY <3>1, <3>2
  <2>4. ASSUME NEW j \in Instances, LifeStep(j) PROVE inhand'[i] \in outbox'
    BY <1>2, <2>1, <2>4 DEF LifeStep, Open, CloseBegin, CloseStop, CloseReturn, Crash, Forget, TypeInv, TypeOK
  <2>5. ASSUME NEW j \in Instances, WriterStep(j) PROVE inhand'[i] \in outbox'
    BY <2>1, <2>5 DEF WriterStep, WriterTake, WriterAppend, WriterPublish, WriterExit
  <2>6. ASSUME NEW c \in Callers,
               CallerStep(c) \/ \E j \in Instances, s \in Submissions : SubmitReserve(c, j, s) \/ SubmitRefused(c, j, s)
        PROVE  inhand'[i] \in outbox'
    BY <2>1, <2>6 DEF CallerStep, SubmitReserve, SubmitRefused, LookupFree, LookupDuplicate, LookupRefused,
                Enqueue, Timeout, Fallback
  <2> QED BY <2>1, <2>3, <2>4, <2>5, <2>6 DEF Next
<1> QED BY <1>1, <1>2 DEF OutboxInv

\* Puts on the disk that are not pending yet, and the entry whose ack is on the
\* disk but which is still pending.
Publishing(i) == IF writer[i] = "publish" THEN Elements(writing[i]) ELSE {}

Acked(i) == IF delivery[i] = "clear" THEN {inhand[i]} ELSE {}

\* The journal holds what its owner has pending or is about to publish.
DiskOK(i) == Unacked(journal) = (pending[i] \ Acked(i)) \cup Publishing(i)

\* An instance that is down has no thread left; any other owns the journal.
DiskInv ==
  \A i \in Instances :
    IF phase[i] = "down" THEN Exited(i) /\ ~closer[i] ELSE DiskOK(i)

\* Compaction drops no put that has no ack.
LEMMA CompactionKeeps ==
  ASSUME TypeInv, ReserveInv, NEW i \in Instances, DiskOK(i)
  PROVE  Unacked(Compacted(i)) = Unacked(journal)
<1>1. CASE Idle(i)
  <2>1. Places(i) = {}
    BY <1>1 DEF Idle, ReserveInv, PlacesOK
  <2>2. Unacked(journal) = {}
    BY <2>1 DEF DiskOK, Publishing, Places
  <2> QED BY <1>1, <2>2, UnackedEmpty DEF Compacted
<1>2. CASE ~Idle(i)
  BY <1>2 DEF Compacted
<1> QED BY <1>1, <1>2

\* A thread that leaves keeps the instance as it is, or takes it down.
LEMMA DiskLeave ==
  ASSUME TypeInv, ReserveInv, NEW i \in Instances, DiskOK(i), NEW other, Leave(i, other), phase[i] # "down",
         other = "exited" => Exited(i)', UNCHANGED <<closer, pending, writing, inhand>>,
         Publishing(i)' = Publishing(i), Acked(i)' = Acked(i)
  PROVE  IF phase'[i] = "down" THEN Exited(i)' /\ ~closer'[i] ELSE DiskOK(i)'
<1>1. Unacked(journal') = Unacked(journal)
  BY CompactionKeeps DEF Leave
<1>2. DiskOK(i)'
  BY <1>1 DEF DiskOK
<1>3. phase'[i] = "down" => Exited(i)' /\ ~closer'[i]
  BY DEF Leave, TypeInv, TypeOK
<1> QED BY <1>2, <1>3

\* The state of the only instance is all there is to look at.
LEMMA OnlyInstance ==
  ASSUME OneInstance, NEW i \in Instances,
         IF phase'[i] = "down" THEN Exited(i)' /\ ~closer'[i] ELSE DiskOK(i)'
  PROVE  DiskInv'
BY DEF OneInstance, DiskInv

\* The writer keeps the journal in line with the memory of its instance.
LEMMA DiskWriter ==
  ASSUME OneInstance, TypeInv, ReserveInv, HandInv, DiskInv, NEW i \in Instances, WriterStep(i)
  PROVE  DiskInv'
<1> USE DEF diskVars, lifeVars, workVars, callVars
<1> SUFFICES IF phase'[i] = "down" THEN Exited(i)' /\ ~closer'[i] ELSE DiskOK(i)'
  BY OnlyInstance
<1>1. phase[i] # "down"
  BY DEF DiskInv, Exited, WriterStep, WriterTake, WriterAppend, WriterPublish, WriterExit
<1>2. DiskOK(i) /\ writing[i] \in Seq(Submissions) /\ journal \in Seq(Records)
  BY <1>1 DEF DiskInv, TypeInv, TypeOK
<1>3. CASE WriterTake(i)
  <2>1. /\ UNCHANGED <<journal, phase, delivery, inhand, pending>>
        /\ writer[i] # "publish" /\ writer'[i] # "publish"
    BY <1>3 DEF WriterTake, TypeInv, TypeOK
  <2> QED BY <1>1, <1>2, <2>1 DEF DiskOK, Publishing, Acked
<1>4. CASE WriterAppend(i)
  <2>1. /\ UNCHANGED <<phase, delivery, inhand, pending, writing>>
        /\ writer[i] # "publish" /\ writer'[i] = "publish" /\ journal' = journal \o PutAll(writing[i])
    BY <1>4 DEF WriterAppend, TypeInv, TypeOK
  <2>2. Unacked(journal') = Unacked(journal) \cup Elements(writing[i])
    BY <1>2, <2>1, UnackedPuts
  <2> QED BY <1>1, <1>2, <2>1, <2>2 DEF DiskOK, Publishing, Acked
<1>5. CASE WriterPublish(i)
  <2>1. /\ UNCHANGED <<journal, phase, delivery, inhand>>
        /\ writer[i] = "publish" /\ writer'[i] # "publish"
        /\ pending'[i] = pending[i] \cup Elements(writing[i])
    BY <1>5 DEF WriterPublish, TypeInv, TypeOK
  <2>2. Acked(i) \cap Elements(writing[i]) = {}
    BY DEF Acked, HandInv, ReserveInv, PlacesOK
  <2> QED BY <1>1, <1>2, <2>1, <2>2 DEF DiskOK, Publishing, Acked
<1>6. CASE WriterExit(i)
  <2>1. /\ Leave(i, delivery[i]) /\ writer'[i] = "exited" /\ writer[i] # "publish"
        /\ UNCHANGED <<closer, pending, writing, inhand, delivery>>
    BY <1>6 DEF WriterExit, TypeInv, TypeOK
  <2>2. Publishing(i)' = Publishing(i) /\ Acked(i)' = Acked(i) /\ (delivery[i] = "exited" => Exited(i)')
    BY <2>1 DEF Publishing, Acked, Exited
  <2> QED BY <1>1, <1>2, <2>1, <2>2, DiskLeave
<1> QED BY <1>3, <1>4, <1>5, <1>6 DEF WriterStep

\* The delivery thread keeps it in line, also when it compacts.
LEMMA DiskDelivery ==
  ASSUME OneInstance, TypeInv, ReserveInv, HandInv, DiskInv, NEW i \in Instances, DeliveryStep(i)
  PROVE  DiskInv'
<1> USE DEF diskVars, lifeVars, workVars, callVars
<1> SUFFICES IF phase'[i] = "down" THEN Exited(i)' /\ ~closer'[i] ELSE DiskOK(i)'
  BY OnlyInstance
<1>1. phase[i] # "down"
  BY DEF DiskInv, Exited, DeliveryStep, DeliveryPick, DeliveryAppend, DeliveryAck, DeliveryFails, DeliveryClear,
         DeliveryCompact, DeliveryExit
<1>2. DiskOK(i) /\ journal \in Seq(Records)
  BY <1>1 DEF DiskInv, TypeInv, TypeOK
<1>3. CASE DeliveryAppend(i) \/ DeliveryFails(i) \/ \E s \in Submissions : DeliveryPick(i, s)
  <2>1. /\ UNCHANGED <<journal, phase, writer, writing, pending>>
        /\ delivery[i] # "clear" /\ delivery'[i] # "clear"
    BY <1>3 DEF DeliveryAppend, DeliveryFails, DeliveryPick, TypeInv, TypeOK
  <2> QED BY <1>1, <1>2, <2>1 DEF DiskOK, Publishing, Acked
<1>4. CASE DeliveryAck(i)
  <2>1. /\ UNCHANGED <<phase, writer, writing, pending, inhand>> /\ inhand[i] \in Submissions
        /\ delivery[i] # "clear" /\ delivery'[i] = "clear" /\ journal' = Append(journal, Ack(inhand[i]))
    BY <1>4 DEF DeliveryAck, TypeInv, TypeOK, CallType
  <2>2. Unacked(journal') = Unacked(journal) \ {inhand[i]}
    BY <1>2, <2>1, UnackedAck
  <2>3. inhand[i] \in pending[i] /\ inhand[i] \notin Publishing(i)
    BY <1>4 DEF DeliveryAck, HandInv, ReserveInv, PlacesOK, Publishing
  <2> QED BY <1>1, <1>2, <2>1, <2>2, <2>3 DEF DiskOK, Publishing, Acked
<1>5. CASE DeliveryClear(i)
  <2>1. /\ UNCHANGED <<journal, phase, writer, writing>>
        /\ delivery[i] = "clear" /\ delivery'[i] # "clear" /\ pending'[i] = pending[i] \ {inhand[i]}
    BY <1>5 DEF DeliveryClear, TypeInv, TypeOK
  <2> QED BY <1>1, <1>2, <2>1 DEF DiskOK, Publishing, Acked
<1>6. CASE DeliveryCompact(i)
  <2>1. /\ UNCHANGED <<phase, writer, writing, pending, inhand>> /\ journal' = Compacted(i)
        /\ delivery[i] # "clear" /\ delivery'[i] # "clear"
    BY <1>6 DEF DeliveryCompact, TypeInv, TypeOK
  <2>2. Unacked(journal') = Unacked(journal)
    BY <1>2, <2>1, CompactionKeeps
  <2> QED BY <1>1, <1>2, <2>1, <2>2 DEF DiskOK, Publishing, Acked
<1>7. CASE DeliveryExit(i)
  <2>1. /\ Leave(i, writer[i]) /\ delivery[i] # "clear" /\ delivery'[i] = "exited"
        /\ UNCHANGED <<closer, pending, writing, inhand, writer>>
    BY <1>7 DEF DeliveryExit, TypeInv, TypeOK
  <2>2. Publishing(i)' = Publishing(i) /\ Acked(i)' = Acked(i) /\ (writer[i] = "exited" => Exited(i)')
    BY <2>1 DEF Publishing, Acked, Exited
  <2> QED BY <1>1, <1>2, <2>1, <2>2, DiskLeave
<1> QED BY <1>3, <1>4, <1>5, <1>6, <1>7 DEF DeliveryStep

\* A replay brings them in line, a close keeps them so, and after a crash there
\* is no memory to compare with.
LEMMA DiskLife ==
  ASSUME OneInstance, TypeInv, ReserveInv, DiskInv, NEW i \in Instances, LifeStep(i)
  PROVE  DiskInv'
<1> USE DEF diskVars, lifeVars, workVars, callVars
<1> SUFFICES IF phase'[i] = "down" THEN Exited(i)' /\ ~closer'[i] ELSE DiskOK(i)'
  BY OnlyInstance
<1>1. CASE Open(i)
  <2>1. /\ phase'[i] = "open" /\ writer'[i] = "idle" /\ delivery'[i] = "idle"
        /\ pending'[i] = Unacked(journal)
        /\ journal' = IF Unacked(journal) = {} THEN <<>> ELSE journal
    BY <1>1 DEF Open, TypeInv, TypeOK
  <2>2. Unacked(journal') = Unacked(journal)
    BY <2>1, UnackedEmpty
  <2> QED BY <2>1, <2>2 DEF DiskOK, Publishing, Acked
<1>2. CASE CloseBegin(i) \/ CloseStop(i)
  <2>1. phase[i] # "down" /\ phase'[i] # "down" /\ UNCHANGED <<journal, workVars>>
    BY <1>2 DEF CloseBegin, CloseStop, TypeInv, TypeOK
  <2> QED BY <2>1 DEF DiskInv, DiskOK, Publishing, Acked
<1>3. CASE CloseReturn(i)
  <2>1. /\ phase[i] # "down" /\ UNCHANGED workVars /\ closer'[i] = FALSE
        /\ phase'[i] = IF Exited(i) THEN "down" ELSE phase[i]
        /\ journal' = IF Exited(i) THEN Compacted(i) ELSE journal
    BY <1>3 DEF CloseReturn, TypeInv, TypeOK
  <2> QED BY <2>1 DEF DiskInv, DiskOK, Publishing, Acked, Exited
<1>4. CASE Crash(i)
  BY <1>4 DEF Crash, Exited, TypeInv, TypeOK
<1> QED BY <1>1, <1>2, <1>3, <1>4 DEF LifeStep

\* Every step keeps the journal and the memory of the only instance in line.
LEMMA DiskStep ==
  ASSUME OneInstance, TypeInv, ReserveInv, HandInv, DiskInv, [Next]_vars
  PROVE  DiskInv'
<1> USE DEF diskVars, lifeVars, workVars, callVars
<1>1. ASSUME UNCHANGED <<journal, phase, closer, writing, pending, writer, delivery, inhand>> PROVE DiskInv'
  BY <1>1 DEF DiskInv, DiskOK, Publishing, Acked, Exited
<1>2. ASSUME NEW c \in Callers,
             CallerStep(c) \/ \E i \in Instances, s \in Submissions : SubmitReserve(c, i, s) \/ SubmitRefused(c, i, s)
      PROVE  DiskInv'
  <2>1. UNCHANGED <<journal, phase, closer, writing, pending, writer, delivery, inhand>>
    BY <1>2 DEF CallerStep, SubmitReserve, SubmitRefused, LookupFree, LookupDuplicate, LookupRefused,
                Enqueue, Timeout, Fallback
  <2> QED BY <2>1, <1>1
<1>3. ASSUME UNCHANGED vars PROVE DiskInv'
  BY <1>1, <1>3 DEF vars
<1> QED BY <1>2, <1>3, DiskWriter, DiskDelivery, DiskLife DEF Next

-----------------------------------------------------------------------------
(* The refinement.                                                         *)

\* The parts together.
DurableInv == TypeInv /\ ReserveInv /\ HandInv /\ OutboxInv /\ DiskInv

\* A step that touches neither outbox nor answers nor unacked puts is invisible.
LEMMA AcceptQuiet ==
  ASSUME UNCHANGED <<outbox, accepted>>, Unacked(journal') = Unacked(journal)
  PROVE  UNCHANGED Accept!acceptVars
BY DEF Accept!acceptVars, Durable

\* An append to the outbox delivers a submission, or changes nothing.
LEMMA AcceptDeliver ==
  ASSUME NEW s \in Submissions, outbox' = Appended(s), UNCHANGED <<journal, accepted>>
  PROVE  [Accept!AcceptNext]_(Accept!acceptVars)
<1>1. CASE SameId(s, outbox)
  BY <1>1, AcceptQuiet DEF Appended
<1>2. CASE ~SameId(s, outbox)
  <2>1. Durable' = Durable \cup {s} /\ outbox' = outbox \cup {s} /\ \A r \in outbox : r.id # s.id
    BY <1>2 DEF Appended, Durable, SameId
  <2>2. Accept!Deliver(s)
    BY <2>1 DEF Accept!Deliver
  <2> QED BY <2>2 DEF Accept!AcceptNext
<1> QED BY <1>1, <1>2

\* Puts that reach the disk, of a whole batch or of what a crash left of one,
\* make their submissions durable.
LEMMA AcceptPersist ==
  ASSUME NEW b \in Seq(Submissions), journal \in Seq(Records), journal' = journal \o PutAll(b),
         UNCHANGED <<outbox, accepted>>
  PROVE  [Accept!AcceptNext]_(Accept!acceptVars)
<1>1. Unacked(journal') = Unacked(journal) \cup Elements(b) /\ Elements(b) \subseteq Submissions
  BY UnackedPuts, ElementsType
<1>2. Accept!Persist(Elements(b))
  BY <1>1 DEF Accept!Persist, Durable
<1> QED BY <1>1, <1>2 DEF Accept!AcceptNext

\* Every step is one of durable acceptance, or invisible there.
LEMMA AcceptStep ==
  ASSUME OneInstance, DurableInv, [Next]_vars
  PROVE  [Accept!AcceptNext]_(Accept!acceptVars)
<1> USE DEF diskVars, lifeVars, workVars, callVars
<1>t. TypeInv /\ ReserveInv /\ HandInv /\ OutboxInv /\ DiskInv /\ journal \in Seq(Records)
  BY DEF DurableInv, TypeInv, TypeOK
<1>1. ASSUME NEW c \in Callers,
             CallerStep(c) \/ \E i \in Instances, s \in Submissions : SubmitReserve(c, i, s) \/ SubmitRefused(c, i, s)
      PROVE  [Accept!AcceptNext]_(Accept!acceptVars)
  <2>1. CASE Fallback(c)
    <3>1. sub[c] \in Submissions /\ UNCHANGED <<journal, accepted>> /\ outbox' \in {outbox, Appended(sub[c])}
      BY <1>t, <2>1 DEF Fallback, TypeInv, CallType
    <3> QED BY <3>1, AcceptDeliver, AcceptQuiet
  <2>2. CASE ~Fallback(c)
    <3>1. UNCHANGED <<journal, outbox, accepted>>
      BY <1>1, <2>2 DEF CallerStep, SubmitReserve, SubmitRefused, LookupFree, LookupDuplicate, LookupRefused,
                  Enqueue, Timeout
    <3> QED BY <3>1, AcceptQuiet
  <2> QED BY <2>1, <2>2
<1>2. ASSUME NEW i \in Instances, WriterStep(i) PROVE [Accept!AcceptNext]_(Accept!acceptVars)
  <2>t. writing[i] \in Seq(Submissions) /\ Elements(writing[i]) \subseteq Submissions
    BY <1>t, ElementsType DEF TypeInv, TypeOK
  <2>d. phase[i] # "down" /\ DiskOK(i)
    BY <1>2, <1>t DEF DiskInv, Exited, WriterStep, WriterTake, WriterAppend, WriterPublish, WriterExit
  <2>1. CASE WriterTake(i)
    BY <2>1, AcceptQuiet DEF WriterTake
  <2>2. CASE WriterAppend(i)
    BY <2>2, <1>t, <2>t, AcceptPersist DEF WriterAppend
  <2>3. CASE WriterPublish(i)
    <3> DEFINE S == { sub[c] : c \in Served(i) }
    <3>1. S \subseteq Elements(writing[i])
      BY DEF Served
    <3>2. Elements(writing[i]) \subseteq Unacked(journal)
      BY <2>d, <2>3 DEF DiskOK, Publishing, WriterPublish
    <3>3. UNCHANGED <<journal, outbox>> /\ accepted' = accepted \cup S
      BY <2>3 DEF WriterPublish
    <3> HIDE DEF S
    <3>4. S \subseteq Submissions /\ S \subseteq Durable /\ Durable' = Durable
      BY <2>t, <3>1, <3>2, <3>3 DEF Durable
    <3>5. Accept!Answer(S)
      BY <3>3, <3>4 DEF Accept!Answer
    <3> QED BY <3>4, <3>5 DEF Accept!AcceptNext
  <2>4. CASE WriterExit(i)
    <3>1. Unacked(journal') = Unacked(journal)
      BY <2>4, <2>d, <1>t, CompactionKeeps DEF WriterExit, Leave
    <3> QED BY <2>4, <3>1, AcceptQuiet DEF WriterExit
  <2> QED BY <1>2, <2>1, <2>2, <2>3, <2>4 DEF WriterStep
<1>3. ASSUME NEW i \in Instances, DeliveryStep(i) PROVE [Accept!AcceptNext]_(Accept!acceptVars)
  <2>d. phase[i] # "down" /\ DiskOK(i)
    BY <1>3, <1>t DEF DiskInv, Exited, DeliveryStep, DeliveryPick, DeliveryAppend, DeliveryAck, DeliveryFails,
                DeliveryClear, DeliveryCompact, DeliveryExit
  <2>1. CASE DeliveryAppend(i)
    <3>1. inhand[i] \in Submissions
      BY <2>1, <1>t DEF DeliveryAppend, TypeInv, CallType
    <3> QED BY <2>1, <3>1, AcceptDeliver DEF DeliveryAppend
  <2>2. CASE DeliveryAck(i)
    <3>1. inhand[i] \in Submissions /\ inhand[i] \in outbox
      BY <2>2, <1>t DEF DeliveryAck, TypeInv, CallType, OutboxInv
    <3>2. Unacked(journal') = Unacked(journal) \ {inhand[i]}
      BY <2>2, <3>1, <1>t, UnackedAck DEF DeliveryAck
    <3> QED BY <2>2, <3>1, <3>2 DEF DeliveryAck, Accept!acceptVars, Durable
  <2>3. CASE DeliveryCompact(i) \/ DeliveryExit(i)
    <3>1. Unacked(journal') = Unacked(journal) /\ UNCHANGED <<outbox, accepted>>
      BY <2>3, <2>d, <1>t, CompactionKeeps DEF DeliveryCompact, DeliveryExit, Leave
    <3> QED BY <3>1, AcceptQuiet
  <2>4. CASE DeliveryFails(i) \/ DeliveryClear(i) \/ \E s \in Submissions : DeliveryPick(i, s)
    BY <2>4, AcceptQuiet DEF DeliveryFails, DeliveryClear, DeliveryPick
  <2> QED BY <1>3, <2>1, <2>2, <2>3, <2>4 DEF DeliveryStep
<1>4. ASSUME NEW i \in Instances, LifeStep(i) PROVE [Accept!AcceptNext]_(Accept!acceptVars)
  <2>1. CASE Open(i)
    BY <2>1, AcceptQuiet, UnackedEmpty DEF Open
  <2>2. CASE CloseBegin(i) \/ CloseStop(i)
    BY <2>2, AcceptQuiet DEF CloseBegin, CloseStop
  <2>3. CASE CloseReturn(i)
    <3>1. DiskOK(i)
      BY <2>3, <1>t DEF CloseReturn, DiskInv
    <3>2. Unacked(journal') = Unacked(journal)
      BY <2>3, <3>1, <1>t, CompactionKeeps DEF CloseReturn
    <3> QED BY <2>3, <3>2, AcceptQuiet DEF CloseReturn
  <2>4. CASE Crash(i)
    <3>1. writing[i] \in Seq(Submissions) /\ Len(writing[i]) \in Nat
      BY <1>t DEF TypeInv, TypeOK
    <3>p. PICK n \in 0 .. (IF writer[i] = "append" THEN Len(writing[i]) ELSE 0) :
               journal' = journal \o PutAll(SubSeq(writing[i], 1, n))
      BY <2>4 DEF Crash
    <3>2. n \in 0 .. Len(writing[i]) /\ journal' = journal \o PutAll(SubSeq(writing[i], 1, n))
      BY <3>1, <3>p
    <3>3. SubSeq(writing[i], 1, n) \in Seq(Submissions)
      BY <3>1, QueueSplit
    <3> QED BY <2>4, <1>t, <3>2, <3>3, AcceptPersist DEF Crash
  <2> QED BY <1>4, <2>1, <2>2, <2>3, <2>4 DEF LifeStep
<1>5. ASSUME UNCHANGED vars PROVE [Accept!AcceptNext]_(Accept!acceptVars)
  BY <1>5, AcceptQuiet DEF vars
<1> QED BY <1>1, <1>2, <1>3, <1>4, <1>5 DEF Next

\* The invariant the theorems rest on is inductive for one instance.
LEMMA DurableInductive ==
  ASSUME OneInstance
  PROVE  Spec => []DurableInv
<1>1. Init => DurableInv
  <2> SUFFICES ASSUME Init PROVE DurableInv
    OBVIOUS
  <2>1. <<>> \in Seq(Submissions) /\ <<>> \in Seq(Records) /\ Elements(<<>>) = {} /\ Distinct(<<>>)
    BY ElementsType DEF Distinct, Elements
  <2>2. TypeInv
    BY <2>1, MaxStopsAssumption DEF Init, TypeInv, TypeOK, CallType
  <2>3. ReserveInv
    BY <2>1 DEF Init, ReserveInv, PlacesOK, Places, UniqueIds, CallOK, CallsDiffer, Calling
  <2>4. HandInv /\ OutboxInv /\ DiskInv
    BY DEF Init, HandInv, OutboxInv, DiskInv, Exited
  <2> QED BY <2>2, <2>3, <2>4 DEF DurableInv
<1>2. DurableInv /\ [Next]_vars => DurableInv'
  BY TypeStep, ReserveStep, HandStep, OutboxStep, DiskStep DEF DurableInv
<1> QED BY <1>1, <1>2, PTL DEF Spec

\* The journal, its writer, delivery, compaction, restarts and crashes implement
\* durable acceptance.
THEOREM ImplementsAccept ==
  ASSUME OneInstance
  PROVE  Spec => ImplementsDurableAccept
<1>1. Init => Accept!AcceptInit
  <2>1. Len(<<>>) = 0
    OBVIOUS
  <2> QED BY <2>1 DEF Init, Accept!AcceptInit, Durable, Unacked
<1>2. DurableInv /\ [Next]_vars => [Accept!AcceptNext]_(Accept!acceptVars)
  BY AcceptStep
<1> QED BY <1>1, <1>2, DurableInductive, PTL DEF Spec, ImplementsDurableAccept, Accept!AcceptSpec

\* What submit has confirmed is in the outbox or in the journal without an ack,
\* whatever fails or crashes.
THEOREM AcceptedStaysDurable ==
  ASSUME OneInstance
  PROVE  Spec => []AcceptedIsDurable
<1>1. Init => AcceptedIsDurable
  BY DEF Init, AcceptedIsDurable
<1>2. AcceptedIsDurable /\ DurableInv /\ [Next]_vars => AcceptedIsDurable'
  <2> SUFFICES ASSUME AcceptedIsDurable, DurableInv, [Next]_vars PROVE AcceptedIsDurable'
    OBVIOUS
  <2>1. [Accept!AcceptNext]_(Accept!acceptVars)
    BY AcceptStep
  <2> QED BY <2>1 DEF AcceptedIsDurable, Accept!AcceptNext, Accept!acceptVars, Accept!Persist, Accept!Answer,
              Accept!Deliver
<1> QED BY <1>1, <1>2, DurableInductive, PTL DEF Spec

\* What the memory of the owner has pending is on the disk.
THEOREM PendingStaysDurable ==
  ASSUME OneInstance
  PROVE  Spec => []PendingIsDurable
<1>1. DurableInv => PendingIsDurable
  BY DEF DurableInv, DiskInv, DiskOK, OutboxInv, Acked, PendingIsDurable, Durable
<1> QED BY <1>1, DurableInductive, PTL

-----------------------------------------------------------------------------
(* What is appended to the journal can be replayed.                        *)

\* A longer journal replays its old records as before.
LEMMA ReplayPrefix ==
  ASSUME NEW j \in Seq(Records), NEW g \in Seq(Records), Replayable(j), Len(j) \leq Len(g),
         \A k \in 1 .. Len(j) : g[k] = j[k], NEW k \in 1 .. Len(j)
  PROVE  LET left == Unacked(SubSeq(g, 1, k)) IN
         /\ \A r, s \in left : r.id = s.id => r = s
         /\ g[k].op = "ack" => \A s \in left : s.id # g[k].sub.id
<1>0. Len(j) \in Nat /\ Len(g) \in Nat /\ k \in Nat /\ k \leq Len(j)
  OBVIOUS
<1>1. SubSeq(g, 1, k) \in Seq(Records) /\ Len(SubSeq(g, 1, k)) = k /\ \A m \in 1 .. k : SubSeq(g, 1, k)[m] = g[m]
  BY <1>0
<1>2. SubSeq(j, 1, k) \in Seq(Records) /\ Len(SubSeq(j, 1, k)) = k /\ \A m \in 1 .. k : SubSeq(j, 1, k)[m] = j[m]
  BY <1>0
<1>3. \A m \in 1 .. k : g[m] = j[m]
  BY <1>0
<1>4. SubSeq(g, 1, k) = SubSeq(j, 1, k)
  BY <1>1, <1>2, <1>3, SeqEqual
<1> QED BY <1>4 DEF Replayable

\* The ack of a submission whose id no other put has can be replayed.
LEMMA ReplayAck ==
  ASSUME NEW j \in Seq(Records), NEW s \in Submissions, Replayable(j), UniqueIds(Unacked(j) \cup {s})
  PROVE  Replayable(Append(j, Ack(s)))
<1> DEFINE g == Append(j, Ack(s))
<1>1. g \in Seq(Records) /\ Unacked(g) = Unacked(j) \ {s}
  BY UnackedAck
<1>2. Len(j) \in Nat /\ Len(g) = Len(j) + 1 /\ g[Len(j) + 1] = Ack(s) /\ \A k \in 1 .. Len(j) : g[k] = j[k]
  OBVIOUS
<1> HIDE DEF g
<1>3. SubSeq(g, 1, Len(g)) = g
  BY <1>1, <1>2
<1>4. ASSUME NEW k \in 1 .. Len(g)
      PROVE  LET left == Unacked(SubSeq(g, 1, k)) IN
             /\ \A q, r \in left : q.id = r.id => q = r
             /\ g[k].op = "ack" => \A r \in left : r.id # g[k].sub.id
  <2>1. CASE k = Len(g)
    <3>1. \A q, r \in Unacked(j) \cup {s} : q.id = r.id => q = r
      BY DEF UniqueIds
    <3>2. g[k].sub = s
      BY <2>1, <1>2 DEF Ack
    <3> QED BY <2>1, <3>1, <3>2, <1>1, <1>3
  <2>2. CASE k # Len(g)
    <3>1. k \in 1 .. Len(j) /\ Len(j) \leq Len(g)
      BY <2>2, <1>2
    <3> QED BY <3>1, <1>1, <1>2, ReplayPrefix
  <2> QED BY <2>1, <2>2
<1>5. Replayable(g)
  BY <1>4 DEF Replayable
<1> QED BY <1>5 DEF g

\* Puts of submissions with ids of their own can be replayed.
LEMMA ReplayPuts ==
  ASSUME NEW j \in Seq(Records), NEW b \in Seq(Submissions), Replayable(j),
         UniqueIds(Unacked(j) \cup Elements(b))
  PROVE  Replayable(j \o PutAll(b))
<1> DEFINE g == j \o PutAll(b)
<1>1. PutAll(b) \in Seq(Records) /\ Len(PutAll(b)) = Len(b) /\ \A k \in 1 .. Len(b) : PutAll(b)[k] = Put(b[k])
  BY DEF PutAll, Put, Records
<1>2. /\ g \in Seq(Records) /\ Len(j) \in Nat /\ Len(b) \in Nat /\ Len(g) = Len(j) + Len(b)
      /\ \A k \in 1 .. Len(j) : g[k] = j[k]
      /\ \A k \in 1 .. Len(b) : g[Len(j) + k] = Put(b[k])
  BY <1>1
<1> HIDE DEF g
<1>3. ASSUME NEW n \in 1 .. Len(b)
      PROVE  LET k == Len(j) + n
                 left == Unacked(SubSeq(g, 1, k))
             IN /\ \A q, r \in left : q.id = r.id => q = r
                /\ g[k].op = "ack" => \A r \in left : r.id # g[k].sub.id
  <2> DEFINE p == SubSeq(b, 1, n)
             h == j \o PutAll(p)
             f == SubSeq(g, 1, Len(j) + n)
  <2>0. n \in Nat /\ n \leq Len(b) /\ n \in 0 .. Len(b)
    BY <1>2
  <2>1. p \in Seq(Submissions) /\ Len(p) = n /\ \A k \in 1 .. n : p[k] = b[k]
    BY <2>0
  <2>2. Elements(p) \subseteq Elements(b)
    BY <2>0, QueueSplit
  <2> HIDE DEF p
  <2>3. PutAll(p) \in Seq(Records) /\ Len(PutAll(p)) = n /\ \A k \in 1 .. n : PutAll(p)[k] = Put(p[k])
    BY <2>1 DEF PutAll, Put, Records
  <2>4. /\ h \in Seq(Records) /\ Len(h) = Len(j) + n
        /\ \A k \in 1 .. Len(j) : h[k] = j[k]
        /\ \A k \in 1 .. n : h[Len(j) + k] = Put(p[k])
    <3> HIDE DEF h
    <3>1. /\ h \in Seq(Records) /\ Len(h) = Len(j) + n
          /\ \A k \in 1 .. Len(j) + n : h[k] = IF k <= Len(j) THEN j[k] ELSE PutAll(p)[k - Len(j)]
      BY <2>3, ConcatProperties, Zenon DEF h
    <3>2. \A k \in 1 .. Len(j) : k \in 1 .. Len(j) + n /\ k <= Len(j)
      BY <1>2, <2>0
    <3>3. \A k \in 1 .. n : Len(j) + k \in 1 .. Len(j) + n /\ ~(Len(j) + k <= Len(j)) /\ Len(j) + k - Len(j) = k
      BY <1>2, <2>0
    <3>4. \A k \in 1 .. Len(j) : h[k] = j[k]
      BY <3>1, <3>2
    <3>5. ASSUME NEW k \in 1 .. n PROVE h[Len(j) + k] = Put(p[k])
      <4>1. h[Len(j) + k] = PutAll(p)[Len(j) + k - Len(j)] /\ Len(j) + k - Len(j) = k
        BY <3>1, <3>3
      <4> QED BY <4>1, <2>3
    <3> QED BY <3>1, <3>4, <3>5
  <2>5. Unacked(h) = Unacked(j) \cup Elements(p)
    BY <2>1, UnackedPuts
  <2>6. f \in Seq(Records) /\ Len(f) = Len(j) + n /\ \A k \in 1 .. Len(j) + n : f[k] = g[k]
    BY <1>2, <2>0
  <2> HIDE DEF h, f
  <2>7. ASSUME NEW k \in 1 .. Len(j) + n PROVE f[k] = h[k]
    <3>1. CASE k \leq Len(j)
      <4>1. k \in 1 .. Len(j)
        BY <3>1, <1>2
      <4> QED BY <4>1, <2>4, <2>6, <1>2
    <3>2. CASE k > Len(j)
      <4>1. k - Len(j) \in 1 .. n /\ Len(j) + (k - Len(j)) = k /\ k - Len(j) \in 1 .. Len(b)
        BY <3>2, <1>2, <2>0
      <4>2. h[k] = Put(p[k - Len(j)]) /\ g[k] = Put(b[k - Len(j)])
        BY <4>1, <2>4, <1>2
      <4> QED BY <4>1, <4>2, <2>1, <2>6
    <3> QED BY <3>1, <3>2, <1>2, <2>0
  <2>8. f = h
    BY <2>4, <2>6, <2>7, SeqEqual
  <2>9. \A q, r \in Unacked(f) : q.id = r.id => q = r
    BY <2>2, <2>5, <2>8 DEF UniqueIds
  <2>10. g[Len(j) + n].op # "ack"
    <3>1. g[Len(j) + n] = Put(b[n])
      BY <1>2
    <3> QED BY <3>1 DEF Put
  <2> QED BY <2>9, <2>10 DEF f
<1>4. ASSUME NEW k \in 1 .. Len(g)
      PROVE  LET left == Unacked(SubSeq(g, 1, k)) IN
             /\ \A q, r \in left : q.id = r.id => q = r
             /\ g[k].op = "ack" => \A r \in left : r.id # g[k].sub.id
  <2>1. CASE k \leq Len(j)
    <3>1. k \in 1 .. Len(j) /\ Len(j) \leq Len(g)
      BY <2>1, <1>2
    <3> QED BY <3>1, <1>2, ReplayPrefix
  <2>2. CASE k > Len(j)
    <3>1. k - Len(j) \in 1 .. Len(b) /\ Len(j) + (k - Len(j)) = k
      BY <2>2, <1>2
    <3> QED BY <3>1, <1>3
  <2> QED BY <2>1, <2>2, <1>2
<1>5. Replayable(g)
  BY <1>4 DEF Replayable
<1> QED BY <1>5 DEF g

\* What is on the disk and what is on its way there have different ids, for all
\* of it is reserved.
LEMMA JournalReserved ==
  ASSUME ReserveInv, NEW i \in Instances, DiskOK(i), NEW S, S \subseteq Places(i)
  PROVE  UniqueIds(Unacked(journal) \cup S)
<1>1. Unacked(journal) \cup S \subseteq reserved[i] /\ UniqueIds(reserved[i])
  BY DEF ReserveInv, PlacesOK, Places, DiskOK, Publishing
<1> QED BY <1>1 DEF UniqueIds

\* Every step leaves a journal that can be replayed.
LEMMA ReplayStep ==
  ASSUME OneInstance, DurableInv, JournalIsReplayable, [Next]_vars
  PROVE  JournalIsReplayable'
<1> USE DEF diskVars, lifeVars, workVars, callVars, JournalIsReplayable
<1>t. TypeInv /\ ReserveInv /\ HandInv /\ DiskInv /\ journal \in Seq(Records)
  BY DEF DurableInv, TypeInv, TypeOK
<1>e. ASSUME journal' \in {journal, <<>>} PROVE JournalIsReplayable'
  BY <1>e DEF Replayable
<1>1. ASSUME NEW c \in Callers,
             CallerStep(c) \/ \E i \in Instances, s \in Submissions : SubmitReserve(c, i, s) \/ SubmitRefused(c, i, s)
      PROVE  JournalIsReplayable'
  <2>1. journal' = journal
    BY <1>1 DEF CallerStep, SubmitReserve, SubmitRefused, LookupFree, LookupDuplicate, LookupRefused,
                Enqueue, Timeout, Fallback
  <2> QED BY <2>1, <1>e
<1>2. ASSUME NEW i \in Instances, WriterStep(i) PROVE JournalIsReplayable'
  <2>1. CASE WriterAppend(i)
    <3>1. phase[i] # "down" /\ writing[i] \in Seq(Submissions) /\ journal' = journal \o PutAll(writing[i])
      BY <1>t, <2>1 DEF DiskInv, Exited, WriterAppend, TypeInv, TypeOK
    <3>2. UniqueIds(Unacked(journal) \cup Elements(writing[i]))
      BY <1>t, <3>1, JournalReserved DEF DiskInv, Places
    <3> QED BY <1>t, <3>1, <3>2, ReplayPuts
  <2>2. CASE ~WriterAppend(i)
    <3>1. journal' \in {journal, <<>>}
      BY <1>2, <2>2 DEF WriterStep, WriterTake, WriterPublish, WriterExit, Leave, Compacted
    <3> QED BY <3>1, <1>e
  <2> QED BY <2>1, <2>2
<1>3. ASSUME NEW i \in Instances, DeliveryStep(i) PROVE JournalIsReplayable'
  <2>1. CASE DeliveryAck(i)
    <3>1. phase[i] # "down" /\ inhand[i] \in Submissions /\ inhand[i] \in pending[i]
      BY <1>t, <2>1 DEF DiskInv, Exited, HandInv, DeliveryAck, TypeInv, CallType
    <3>2. UniqueIds(Unacked(journal) \cup {inhand[i]})
      BY <1>t, <3>1, JournalReserved DEF DiskInv, Places
    <3> QED BY <1>t, <2>1, <3>1, <3>2, ReplayAck DEF DeliveryAck
  <2>2. CASE ~DeliveryAck(i)
    <3>1. journal' \in {journal, <<>>}
      BY <1>3, <2>2 DEF DeliveryStep, DeliveryPick, DeliveryAppend, DeliveryFails, DeliveryClear,
                  DeliveryCompact, DeliveryExit, Leave, Compacted
    <3> QED BY <3>1, <1>e
  <2> QED BY <2>1, <2>2
<1>4. ASSUME NEW i \in Instances, LifeStep(i) PROVE JournalIsReplayable'
  <2>1. CASE Crash(i)
    <3>1. phase[i] # "down" /\ writing[i] \in Seq(Submissions) /\ Len(writing[i]) \in Nat
      BY <1>t, <2>1 DEF Crash, TypeInv, TypeOK
    <3>p. PICK n \in 0 .. (IF writer[i] = "append" THEN Len(writing[i]) ELSE 0) :
               journal' = journal \o PutAll(SubSeq(writing[i], 1, n))
      BY <2>1 DEF Crash
    <3>2. n \in 0 .. Len(writing[i])
      BY <3>1, <3>p
    <3>3. /\ SubSeq(writing[i], 1, n) \in Seq(Submissions)
          /\ Elements(SubSeq(writing[i], 1, n)) \subseteq Elements(writing[i])
      BY <3>1, <3>2, QueueSplit
    <3>4. UniqueIds(Unacked(journal) \cup Elements(SubSeq(writing[i], 1, n)))
      BY <1>t, <3>1, <3>3, JournalReserved DEF DiskInv, Places
    <3> QED BY <1>t, <3>p, <3>3, <3>4, ReplayPuts
  <2>2. CASE ~Crash(i)
    <3>1. journal' \in {journal, <<>>}
      BY <1>4, <2>2 DEF LifeStep, Open, CloseBegin, CloseStop, CloseReturn, Compacted
    <3> QED BY <3>1, <1>e
  <2> QED BY <2>1, <2>2
<1>5. ASSUME UNCHANGED vars PROVE JournalIsReplayable'
  BY <1>5, <1>e DEF vars
<1> QED BY <1>1, <1>2, <1>3, <1>4, <1>5 DEF Next

\* No sequence of calls, timeouts, closes and crashes writes a journal that the
\* next start refuses.
THEOREM JournalStaysReplayable ==
  ASSUME OneInstance
  PROVE  Spec => []JournalIsReplayable
<1>1. Init => JournalIsReplayable
  BY DEF Init, JournalIsReplayable, Replayable
<1>2. JournalIsReplayable /\ DurableInv /\ [Next]_vars => JournalIsReplayable'
  BY ReplayStep
<1> QED BY <1>1, <1>2, DurableInductive, PTL DEF Spec
=============================================================================
