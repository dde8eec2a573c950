-------------------------- MODULE AggregatorProofs --------------------------
(***************************************************************************)
(* The safety properties of Aggregator for every set of groups, members,   *)
(* summaries and workers.  The invariant relates three things the code     *)
(* keeps apart: the table of summaries, the row of a group and the lease a *)
(* worker holds outside every lock.  Aggregator implements GroupJoin, and  *)
(* gives CloudAnswer for every summary.                                    *)
(***************************************************************************)
EXTENDS Aggregator, FiniteSetTheorems, TLAPS

\* The table has one row per member and per id, all of one policy per group.
RowsInv ==
  /\ \A s \in rows : gstate[s.group] # "absent" /\ policy[s.group] = s.policy
  /\ \A r, s \in rows : r.group = s.group /\ r.member = s.member => r = s
  /\ \A r, s \in rows : r.id = s.id => r = s
  /\ acked \subseteq rows

\* A lease still describes its group: new summaries may have been added to
\* the table since, but nothing the lease says has been undone.
LeaseOK(l) ==
  /\ gstate[l.group] = "inflight"
  /\ reason[l.group] = l.reason
  /\ l.revision = revision[l.group] + 1
  /\ l.events # {} /\ l.events \subseteq RowsOf(l.group)
  /\ result[l.group].events \subseteq l.events
  /\ claimed[l.group] = Cardinality(MembersIn(l.events))
  /\ Cardinality(MembersIn(l.events)) >= policy[l.group].minimum
  /\ l.reason = AllExpected <=> policy[l.group].expected \subseteq MembersIn(l.events)

LeaseInv == \A w \in Workers : \A B \in batches[w] : \A l \in B : LeaseOK(l)

\* The published result of a group and the state it left the group in.
ResultOK(g) ==
  /\ gstate[g] # "absent" => policy[g] \in Policies
  /\ gstate[g] = "absent" => result[g] = NoResult
  /\ result[g].revision = revision[g]
  /\ result[g].events \subseteq RowsOf(g)
  /\ result[g].confirmed => result[g].finality = "final"
  /\ result[g].finality = "final" => policy[g].expected \subseteq MembersIn(result[g].events)
  /\ gstate[g] = "completed" =>
       /\ result[g] # NoResult
       /\ result[g].events = RowsOf(g)
       /\ reason[g] = AllExpected <=> policy[g].expected \subseteq MembersIn(RowsOf(g))
       /\ reason[g] = AllExpected => result[g].finality = "final"

ResultInv == \A g \in Groups : ResultOK(g)

IInv == TypeOK /\ RowsInv /\ LeaseInv /\ ResultInv /\ LeaseIsExclusive

-----------------------------------------------------------------------------
(* Facts about the operators of the model.                                 *)

\* The members of a set of summaries are a finite set: there are finitely
\* many edges.
LEMMA MembersFinite ==
  ASSUME NEW S \in SUBSET Submissions
  PROVE  IsFiniteSet(MembersIn(S)) /\ Cardinality(MembersIn(S)) \in Nat
<1>1. MembersIn(S) \in SUBSET Members
  BY SubmissionsAssumption DEF MembersIn
<1>2. IsFiniteSet(MembersIn(S))
  BY <1>1, MembersAssumption, FS_Subset
<1> QED
  BY <1>2, FS_CardinalityType

\* The fields of a lease some worker holds.
LEMMA LeaseType ==
  ASSUME TypeOK, NEW w \in Workers, NEW B \in batches[w], NEW l \in B
  PROVE  /\ l = [group |-> l.group, events |-> l.events, reason |-> l.reason,
                 revision |-> l.revision]
         /\ l.group \in Groups /\ l.events \in SUBSET Submissions
         /\ l.reason \in {AllExpected, TimedOut} /\ l.revision \in Nat
<1>1. batches[w] \in SUBSET (SUBSET Leases)
  BY DEF TypeOK
<1>2. l \in Leases
  BY <1>1
<1> QED
  BY <1>2 DEF Leases

\* A part of a group's summaries from as many members as the group has
\* contributors is all of them: this is why comparing the stored number of
\* members with claimed_member_count detects every late summary.
LEMMA NothingArrived ==
  ASSUME TypeOK, RowsInv, NEW g \in Groups, NEW E \in SUBSET RowsOf(g),
         ~(Cardinality(MembersIn(RowsOf(g))) > Cardinality(MembersIn(E)))
  PROVE  E = RowsOf(g)
<1>1. RowsOf(g) \in SUBSET Submissions /\ E \in SUBSET Submissions
  BY DEF TypeOK, RowsOf
<1>2. MembersIn(E) \in SUBSET MembersIn(RowsOf(g))
  BY DEF MembersIn
<1>3. IsFiniteSet(MembersIn(RowsOf(g))) /\ IsFiniteSet(MembersIn(E))
  BY <1>1, MembersFinite
<1>4. Cardinality(MembersIn(RowsOf(g))) = Cardinality(MembersIn(E))
  <2>1. Cardinality(MembersIn(RowsOf(g))) \in Nat /\ Cardinality(MembersIn(E)) \in Nat
    BY <1>1, MembersFinite
  <2>2. Cardinality(MembersIn(E)) <= Cardinality(MembersIn(RowsOf(g)))
    BY <1>2, <1>3, FS_Subset
  <2> QED
    BY <2>1, <2>2
<1>5. MembersIn(RowsOf(g)) = MembersIn(E)
  BY <1>2, <1>3, <1>4, FS_Subset
<1>6. ASSUME NEW r \in RowsOf(g) PROVE r \in E
  <2>1. PICK e \in E : e.member = r.member
    BY <1>5 DEF MembersIn
  <2>2. e \in rows /\ r \in rows /\ e.group = r.group
    BY DEF RowsOf
  <2> QED
    BY <2>1, <2>2 DEF RowsInv
<1> QED
  BY <1>6

\* A closed group already holds every summary it can be sent without a
\* conflict: answering it without storing anything loses nothing.
LEMMA ClosedGroupHasIt ==
  ASSUME IInv, NEW s \in Submissions, ~Conflict(s), Closed(s.group)
  PROVE  s \in rows
<1>1. s.group \in Groups /\ s.member \in s.policy.expected
  BY SubmissionsAssumption
<1>2. policy[s.group] = s.policy
  BY DEF Conflict, PolicyMismatch, Closed
<1>3. s.policy.expected \subseteq MembersIn(RowsOf(s.group))
  BY <1>1, <1>2 DEF IInv, ResultInv, ResultOK, Closed
<1>4. PICK r \in RowsOf(s.group) : r.member = s.member
  BY <1>1, <1>3 DEF MembersIn
<1> QED
  BY <1>4 DEF Conflict, MemberTaken, RowsOf

\* A due group has reached its minimum, also when it is due because it is
\* complete: the minimum never exceeds the expected members.
LEMMA DueMeetsMinimum ==
  ASSUME IInv, NEW g \in Groups, Due(g)
  PROVE  Cardinality(MembersIn(RowsOf(g))) >= policy[g].minimum
<1>1. RowsOf(g) \in SUBSET Submissions
  BY DEF IInv, TypeOK, RowsOf
<1>2. PICK s \in Submissions : policy[g] = s.policy
  BY DEF IInv, ResultInv, ResultOK, Due, Policies
<1>3. CASE Complete(g)
  <2>1. IsFiniteSet(MembersIn(RowsOf(g))) /\ Cardinality(MembersIn(RowsOf(g))) \in Nat
    BY <1>1, MembersFinite
  <2>2. Cardinality(s.policy.expected) <= Cardinality(MembersIn(RowsOf(g)))
    BY <1>2, <1>3, <2>1, FS_Subset DEF Complete
  <2>3. IsFiniteSet(s.policy.expected) /\ s.policy.minimum \in 1 .. Cardinality(s.policy.expected)
    BY SubmissionsAssumption, MembersAssumption, FS_Subset
  <2>4. Cardinality(s.policy.expected) \in Nat
    BY <2>3, FS_CardinalityType
  <2> QED
    BY <1>2, <2>1, <2>2, <2>3, <2>4
<1>4. CASE MinimumMet(g)
  BY <1>4 DEF MinimumMet
<1> QED
  BY <1>3, <1>4 DEF Due

-----------------------------------------------------------------------------
(* The invariant holds initially and every action preserves it.            *)

\* An empty database satisfies the invariant.
LEMMA InitHolds == Init => IInv
<1> SUFFICES ASSUME Init PROVE IInv
  OBVIOUS
<1>1. TypeOK
  BY DEF Init, TypeOK, NoResult
<1>2. RowsInv /\ LeaseInv /\ LeaseIsExclusive
  BY DEF Init, RowsInv, LeaseInv, LeaseIsExclusive
<1>3. ResultInv
  BY DEF Init, ResultInv, ResultOK, NoResult, RowsOf
<1> QED
  BY <1>1, <1>2, <1>3 DEF IInv

\* Answering a retry, or a summary for a closed group, keeps the invariant: the
\* summary is already in the table.
LEMMA SubmitNoopStep ==
  ASSUME IInv, NEW s \in Submissions, SubmitNoop(s)
  PROVE  IInv'
<1>1. s \in rows
  BY ClosedGroupHasIt DEF SubmitNoop
<1>2. acked' \subseteq rows
  BY <1>1 DEF IInv, RowsInv, SubmitNoop
<1> USE DEF IInv, SubmitNoop, dbVars, timeVars
<1>3. TypeOK'
  BY <1>2 DEF TypeOK
<1>4. RowsInv'
  BY <1>2 DEF RowsInv
<1>5. LeaseInv'
  BY DEF LeaseInv, LeaseOK, RowsOf
<1>6. ResultInv' /\ LeaseIsExclusive'
  BY DEF ResultInv, ResultOK, LeaseIsExclusive, RowsOf
<1> QED
  BY <1>3, <1>4, <1>5, <1>6

\* Storing a new summary keeps the invariant, also when it opens a group,
\* reopens a partial one or arrives while a lease of its group is out.
LEMMA SubmitStoreStep ==
  ASSUME IInv, NEW s \in Submissions, SubmitStore(s)
  PROVE  IInv'
<1> DEFINE g == s.group
<1> USE DEF IInv
<1>0. g \in Groups /\ s.policy \in Policies /\ \A r \in rows : r.group \in Groups
  BY SubmissionsAssumption DEF Policies, TypeOK
<1>1. TypeOK'
  BY <1>0 DEF TypeOK, SubmitStore, AllExpected, TimedOut
<1>2. gstate'[g] # "absent" /\ policy'[g] = s.policy
  BY <1>0 DEF TypeOK, SubmitStore, Reopens
<1>3. gstate[g] # "absent" => policy'[g] = policy[g]
  BY <1>0 DEF TypeOK, SubmitStore, Conflict, PolicyMismatch
<1>4. RowsInv'
  <2>1. \A r \in rows : gstate'[r.group] # "absent" /\ policy'[r.group] = r.policy
    <3> SUFFICES ASSUME NEW r \in rows
                 PROVE  gstate'[r.group] # "absent" /\ policy'[r.group] = r.policy
      OBVIOUS
    <3>1. CASE r.group = g
      BY <1>2, <1>3, <3>1 DEF RowsInv
    <3>2. CASE r.group # g
      BY <1>0, <3>2 DEF RowsInv, TypeOK, SubmitStore
    <3> QED
      BY <3>1, <3>2
  <2>2. \A r \in rows : ~(r.group = g /\ r.member = s.member) /\ r.id # s.id
    BY DEF SubmitStore, Conflict, MemberTaken, IdReused, RowsOf
  <2>3. rows' = rows \cup {s} /\ acked' = acked \cup {s}
    BY DEF SubmitStore
  <2>4. \A r \in rows' : gstate'[r.group] # "absent" /\ policy'[r.group] = r.policy
    BY <1>2, <2>1, <2>3
  <2>5. \A q, r \in rows' : q.group = r.group /\ q.member = r.member => q = r
    BY <2>2, <2>3 DEF RowsInv
  <2>6. \A q, r \in rows' : q.id = r.id => q = r
    BY <2>2, <2>3 DEF RowsInv
  <2>7. acked' \subseteq rows'
    BY <2>3 DEF RowsInv
  <2> QED
    BY <2>4, <2>5, <2>6, <2>7 DEF RowsInv
<1>5. \A h \in Groups : /\ RowsOf(h) \subseteq RowsOf(h)'
                        /\ h # g => RowsOf(h)' = RowsOf(h)
  BY DEF RowsOf, SubmitStore
<1>6. gstate[g] = "completed" => Reopens(g)
  BY DEF SubmitStore, Reopens, Closed
<1>7. gstate'[g] # "completed"
  BY <1>0, <1>6 DEF SubmitStore, TypeOK
<1>8. LeaseInv'
  <2> SUFFICES ASSUME NEW w \in Workers, NEW B \in batches[w], NEW l \in B
               PROVE  LeaseOK(l)'
    BY DEF LeaseInv, SubmitStore
  <2>1. l.group \in Groups /\ gstate[l.group] = "inflight"
    BY LeaseType DEF LeaseInv, LeaseOK
  <2>2. /\ gstate'[l.group] = "inflight" /\ reason'[l.group] = reason[l.group]
        /\ claimed'[l.group] = claimed[l.group] /\ policy'[l.group] = policy[l.group]
        /\ revision' = revision /\ result' = result
    BY <1>0, <1>3, <2>1 DEF SubmitStore, TypeOK, Reopens
  <2>3. l.events \subseteq RowsOf(l.group)'
    BY <1>5, <2>1 DEF LeaseInv, LeaseOK
  <2> QED
    BY <2>2, <2>3 DEF LeaseInv, LeaseOK
<1>9. ResultInv'
  <2> SUFFICES ASSUME NEW h \in Groups PROVE ResultOK(h)'
    BY DEF ResultInv, ResultOK
  <2>1. result' = result /\ revision' = revision
    BY DEF SubmitStore
  <2>2. CASE h # g
    <3>1. /\ gstate'[h] = gstate[h] /\ policy'[h] = policy[h] /\ reason'[h] = reason[h]
          /\ RowsOf(h)' = RowsOf(h)
      BY <1>0, <1>5, <2>2 DEF SubmitStore, TypeOK
    <3> QED
      BY <2>1, <3>1 DEF ResultInv, ResultOK
  <2>3. CASE h = g
    <3>1. result[g].finality = "final" =>
            policy'[g].expected \subseteq MembersIn(result[g].events)
      \* A group without a row has no summaries and no result.
      <4>1. CASE gstate[g] = "absent"
        BY <1>0, <4>1 DEF ResultInv, ResultOK, NoResult
      <4> QED
        BY <1>0, <1>3, <4>1 DEF ResultInv, ResultOK
    <3> QED
      BY <1>0, <1>2, <1>5, <1>7, <2>1, <2>3, <3>1 DEF ResultInv, ResultOK
  <2> QED
    BY <2>2, <2>3
<1>10. LeaseIsExclusive'
  <2>1. \A h \in Groups : gstate[h] = "inflight" => gstate'[h] = "inflight"
    BY <1>0 DEF SubmitStore, TypeOK, Reopens
  <2>2. ASSUME NEW w \in Workers, NEW B \in batches[w], NEW l \in B
        PROVE  l.group \in Groups
    BY LeaseType
  <2>3. batches' = batches
    BY DEF SubmitStore
  <2> QED
    BY <2>1, <2>2, <2>3 DEF LeaseIsExclusive
<1> QED
  BY <1>1, <1>4, <1>8, <1>9, <1>10

\* A claim hands out leases that describe their groups, and only of groups
\* nobody holds.
LEMMA ClaimDueStep ==
  ASSUME IInv, NEW w \in Workers, ClaimDue(w)
  PROVE  IInv'
<1> USE DEF IInv
<1>1. PICK G \in SUBSET Groups :
        /\ Claimable(G)
        /\ batches' = [batches EXCEPT ![w] = {{LeaseOf(g) : g \in G}}]
        /\ gstate' = [g \in Groups |-> IF g \in G THEN "inflight" ELSE gstate[g]]
        /\ reason' = [g \in Groups |-> IF g \in G THEN ClaimReason(g) ELSE reason[g]]
        /\ claimed' = [g \in Groups |-> IF g \in G
                                        THEN Cardinality(MembersIn(RowsOf(g)))
                                        ELSE claimed[g]]
  BY DEF ClaimDue
<1>2. UNCHANGED <<policy, revision, result, rows, expired, backoff, acked>>
  BY DEF ClaimDue, timeVars
<1>3. \A g \in G : Due(g) /\ gstate[g] = "waiting"
  BY <1>1 DEF Claimable, Due
<1>4. \A g \in Groups : RowsOf(g)' = RowsOf(g) /\ RowsOf(g) \in SUBSET Submissions
  BY <1>2 DEF RowsOf, TypeOK
<1> DEFINE new == {LeaseOf(g) : g \in G}
<1>5. batches'[w] = {new} /\ \A v \in Workers : v # w => batches'[v] = batches[v]
  BY <1>1 DEF TypeOK
<1>6. TypeOK'
  <2>1. ASSUME NEW g \in G PROVE LeaseOf(g) \in Leases
    <3>1. RowsOf(g) \in SUBSET Submissions /\ g \in Groups
      BY <1>4
    <3>2. revision[g] + 1 \in Nat
      <4>1. revision \in [Groups -> Nat]
        BY DEF TypeOK
      <4> QED
        BY <3>1, <4>1
    <3>3. ClaimReason(g) \in {AllExpected, TimedOut}
      BY DEF ClaimReason
    <3> QED
      BY <3>1, <3>2, <3>3 DEF LeaseOf, Leases
  <2>2. batches' \in [Workers -> SUBSET (SUBSET Leases)]
    <3>1. {new} \in SUBSET (SUBSET Leases)
      BY <2>1
    <3> HIDE DEF new
    <3> QED
      BY <1>1, <3>1 DEF TypeOK, new
  <2>3. ASSUME NEW g \in G PROVE Cardinality(MembersIn(RowsOf(g))) \in Nat
    <3>1. RowsOf(g) \in SUBSET Submissions
      BY <1>4
    <3> QED
      BY <3>1, MembersFinite
  <2>4. claimed' \in [Groups -> Nat]
    BY <1>1, <2>3 DEF TypeOK
  <2>5. reason' \in [Groups -> {"", AllExpected, TimedOut}]
    BY <1>1 DEF TypeOK, ClaimReason
  <2>6. gstate' \in [Groups -> {"absent", "waiting", "inflight", "completed"}]
    BY <1>1 DEF TypeOK
  <2> QED
    BY <1>2, <2>2, <2>4, <2>5, <2>6 DEF TypeOK
<1>7. RowsInv'
  <2>1. \A r \in rows : r.group \in Groups
    BY SubmissionsAssumption DEF TypeOK
  <2>2. \A r \in rows : gstate'[r.group] # "absent"
    BY <1>1, <2>1 DEF RowsInv
  <2> QED
    BY <1>2, <2>2 DEF RowsInv
<1>8. ASSUME NEW l \in new
      PROVE  LeaseOK(l)' /\ l.group \in G
  <2>1. PICK g \in G : l = LeaseOf(g)
    OBVIOUS
  <2>2. /\ l.group = g /\ l.events = RowsOf(g) /\ l.reason = ClaimReason(g)
        /\ l.revision = revision[g] + 1
    BY <2>1 DEF LeaseOf
  <2>3. /\ gstate'[g] = "inflight" /\ reason'[g] = l.reason
        /\ claimed'[g] = Cardinality(MembersIn(l.events))
    BY <1>1, <2>2
  <2>4. Cardinality(MembersIn(l.events)) >= policy[g].minimum
    BY <1>3, <2>2, DueMeetsMinimum
  <2>5. l.events # {}
    <3>1. PICK s \in Submissions : policy[g] = s.policy
      BY <1>3 DEF ResultInv, ResultOK, Policies
    <3>2. Cardinality(s.policy.expected) \in Nat
      BY SubmissionsAssumption, MembersAssumption, FS_Subset, FS_CardinalityType
    <3>3. s.policy.minimum >= 1 /\ s.policy.minimum \in Nat
      BY <3>2, SubmissionsAssumption
    <3>4. CASE l.events = {}
      <4>1. Cardinality(MembersIn(l.events)) = 0
        BY <3>4, FS_EmptySet DEF MembersIn
      <4> QED
        BY <2>4, <3>1, <3>3, <4>1
    <3> QED
      BY <3>4
  <2>6. result[g].events \subseteq l.events
    BY <2>2 DEF ResultInv, ResultOK
  <2>7. l.reason = AllExpected <=> policy[g].expected \subseteq MembersIn(l.events)
    BY <2>2 DEF ClaimReason, Complete, AllExpected, TimedOut
  <2>8. l.events \subseteq RowsOf(g)'
    BY <1>4, <2>2
  <2> QED
    BY <1>2, <2>2, <2>3, <2>4, <2>5, <2>6, <2>7, <2>8 DEF LeaseOK
<1>9. ASSUME NEW v \in Workers, NEW B \in batches[v], NEW l \in B
      PROVE  LeaseOK(l)' /\ l.group \in Groups \ G
  <2>1. LeaseOK(l) /\ l.group \in Groups
    BY LeaseType DEF LeaseInv
  <2>2. l.group \notin G
    BY <1>3, <2>1 DEF LeaseOK
  <2> QED
    BY <1>1, <1>2, <1>4, <2>1, <2>2 DEF LeaseOK
<1>10. LeaseInv'
  BY <1>5, <1>8, <1>9 DEF LeaseInv
<1>11. ResultInv'
  <2> SUFFICES ASSUME NEW g \in Groups PROVE ResultOK(g)'
    BY DEF ResultInv
  <2>1. CASE g \in G
    BY <1>1, <1>2, <1>3, <1>4, <2>1 DEF ResultInv, ResultOK
  <2>2. CASE g \notin G
    BY <1>1, <1>2, <1>4, <2>2 DEF ResultInv, ResultOK
  <2> QED
    BY <2>1, <2>2
<1>12. LeaseIsExclusive'
  <2> SUFFICES ASSUME NEW u \in Workers, NEW v \in Workers,
                      NEW B \in batches'[u], NEW C \in batches'[v],
                      NEW l \in B, NEW k \in C, l.group = k.group
               PROVE  u = v /\ B = C /\ l = k
    BY <1>10 DEF LeaseIsExclusive, LeaseInv, LeaseOK
  <2>1. CASE u = w /\ v = w
    <3>1. B = new /\ C = new
      BY <1>5, <2>1
    <3>2. PICK g \in G, h \in G : l = LeaseOf(g) /\ k = LeaseOf(h)
      BY <3>1
    <3> QED
      BY <2>1, <3>1, <3>2 DEF LeaseOf
  <2>2. CASE u # w /\ v # w
    BY <1>5, <2>2 DEF LeaseIsExclusive
  <2>3. CASE (u = w) # (v = w)
    BY <1>5, <1>8, <1>9, <2>3
  <2> QED
    BY <2>1, <2>2, <2>3
<1> QED
  BY <1>6, <1>7, <1>10, <1>11, <1>12

\* Halving a batch that failed keeps its leases exclusive.
LEMMA SplitBatchStep ==
  ASSUME IInv, NEW w \in Workers, NEW B \in batches[w], SplitBatch(w, B)
  PROVE  IInv'
<1> USE DEF IInv
<1>1. PICK L \in SUBSET B : batches' = [batches EXCEPT ![w] = (@ \ {B}) \cup {L, B \ L}]
  BY DEF SplitBatch
<1>2. UNCHANGED <<dbVars, timeVars, acked>>
  BY DEF SplitBatch
<1>3. /\ batches'[w] = (batches[w] \ {B}) \cup {L, B \ L}
      /\ \A v \in Workers : v # w => batches'[v] = batches[v]
  BY <1>1 DEF TypeOK
<1>4. TypeOK'
  <2>1. batches[w] \in SUBSET (SUBSET Leases)
    BY DEF TypeOK
  <2>2. (batches[w] \ {B}) \cup {L, B \ L} \in SUBSET (SUBSET Leases)
    <3>1. B \in SUBSET Leases
      BY <2>1
    <3>2. L \in SUBSET Leases /\ B \ L \in SUBSET Leases
      BY <3>1
    <3> QED
      BY <2>1, <3>2
  <2>3. batches' \in [Workers -> SUBSET (SUBSET Leases)]
    BY <1>1, <2>2 DEF TypeOK
  <2> QED
    BY <1>2, <2>3 DEF TypeOK, dbVars, timeVars
\* Every lease that is held afterwards was held before, by the same worker.
<1>5. ASSUME NEW v \in Workers, NEW C \in batches'[v], NEW l \in C
      PROVE  \/ C \in batches[v] /\ ~(v = w /\ C = B)
             \/ v = w /\ l \in B /\ (C = L \/ C = B \ L)
             \/ v = w /\ C = B /\ (C = L \/ C = B \ L)
  BY <1>3
<1>6. \A h \in Groups : RowsOf(h)' = RowsOf(h)
  BY <1>2 DEF RowsOf, dbVars
<1>7. LeaseInv'
  <2> SUFFICES ASSUME NEW v \in Workers, NEW C \in batches'[v], NEW l \in C
               PROVE  LeaseOK(l)'
    BY DEF LeaseInv
  <2>1. LeaseOK(l) /\ l.group \in Groups
    BY <1>5, LeaseType DEF LeaseInv
  <2> QED
    BY <1>2, <1>6, <2>1 DEF LeaseOK, dbVars
<1>8. RowsInv' /\ ResultInv'
  BY <1>2, <1>6 DEF RowsInv, ResultInv, ResultOK, dbVars
<1>9. LeaseIsExclusive'
  <2> SUFFICES ASSUME NEW u \in Workers, NEW v \in Workers,
                      NEW C \in batches'[u], NEW D \in batches'[v],
                      NEW l \in C, NEW k \in D, l.group = k.group
               PROVE  u = v /\ C = D /\ l = k
    BY <1>7 DEF LeaseIsExclusive, LeaseInv, LeaseOK
  \* The batch each lease came from.
  <2>1. PICK C0 \in batches[u] : l \in C0 /\ (C = C0 \/ (u = w /\ C0 = B /\ C \in {L, B \ L}))
    BY <1>3
  <2>2. PICK D0 \in batches[v] : k \in D0 /\ (D = D0 \/ (v = w /\ D0 = B /\ D \in {L, B \ L}))
    BY <1>3
  <2>3. u = v /\ C0 = D0 /\ l = k
    BY <2>1, <2>2 DEF LeaseIsExclusive
  <2>4. CASE u = w /\ C0 = B
    <3>1. C \in {L, B \ L} /\ D \in {L, B \ L}
      BY <1>3, <2>1, <2>2, <2>3, <2>4
    <3> QED
      BY <2>3, <3>1
  <2>5. CASE ~(u = w /\ C0 = B)
    BY <2>1, <2>2, <2>3, <2>5
  <2> QED
    BY <2>4, <2>5
<1> QED
  BY <1>4, <1>7, <1>8, <1>9

\* A commit or a release of batch B leaves every other lease alone: none of
\* them is for a group of B.
LEMMA OtherLeases ==
  ASSUME IInv, NEW w \in Workers, NEW B \in batches[w],
         batches' = [batches EXCEPT ![w] = @ \ {B}],
         UNCHANGED <<policy, rows>>,
         \A h \in Groups \ GroupsOf(B) :
           /\ gstate'[h] = gstate[h] /\ reason'[h] = reason[h] /\ claimed'[h] = claimed[h]
           /\ result'[h] = result[h] /\ revision'[h] = revision[h]
  PROVE  LeaseInv' /\ LeaseIsExclusive'
<1> USE DEF IInv
<1>1. ASSUME NEW v \in Workers, NEW C \in batches'[v]
      PROVE  C \in batches[v] /\ ~(v = w /\ C = B)
  BY DEF TypeOK
<1>2. ASSUME NEW v \in Workers, NEW C \in batches'[v], NEW l \in C
      PROVE  l.group \in Groups \ GroupsOf(B)
  <2>1. l.group \in Groups
    BY <1>1, LeaseType
  <2>2. \A k \in B : k.group # l.group
    BY <1>1 DEF LeaseIsExclusive
  <2> QED
    BY <2>1, <2>2 DEF GroupsOf
<1>3. \A h \in Groups : RowsOf(h)' = RowsOf(h)
  BY DEF RowsOf
<1>4. LeaseInv'
  <2> SUFFICES ASSUME NEW v \in Workers, NEW C \in batches'[v], NEW l \in C
               PROVE  LeaseOK(l)'
    BY DEF LeaseInv
  <2>1. LeaseOK(l)
    BY <1>1 DEF LeaseInv
  <2> QED
    BY <1>2, <1>3, <2>1 DEF LeaseOK
<1>5. LeaseIsExclusive'
  <2> SUFFICES ASSUME NEW u \in Workers, NEW v \in Workers,
                      NEW C \in batches'[u], NEW D \in batches'[v],
                      NEW l \in C, NEW k \in D, l.group = k.group
               PROVE  u = v /\ C = D /\ l = k
    BY <1>4 DEF LeaseIsExclusive, LeaseInv, LeaseOK
  <2> QED
    BY <1>1 DEF LeaseIsExclusive
<1> QED
  BY <1>4, <1>5

\* The commit of a batch closes a group only over everything it was sent.
LEMMA CompleteBatchStep ==
  ASSUME IInv, NEW w \in Workers, NEW B \in batches[w], CompleteBatch(w, B)
  PROVE  IInv'
<1> USE DEF IInv
<1>1. PICK consistent \in [GroupsOf(B) -> BOOLEAN] :
        result' = [g \in Groups |->
                     IF g \in GroupsOf(B)
                     THEN MarkFinality(CHOOSE l \in B : l.group = g, consistent[g])
                     ELSE result[g]]
  BY DEF CompleteBatch
<1>2. /\ UNCHANGED <<policy, rows, expired, acked>>
      /\ batches' = [batches EXCEPT ![w] = @ \ {B}]
  BY DEF CompleteBatch
<1>3. \A g \in Groups :
        /\ gstate'[g] = IF g \in GroupsOf(B)
                        THEN IF ArrivedDuringClaim(g) THEN "waiting" ELSE "completed"
                        ELSE gstate[g]
        /\ reason'[g] = IF g \in GroupsOf(B) /\ ArrivedDuringClaim(g) THEN "" ELSE reason[g]
        /\ revision'[g] = IF g \in GroupsOf(B) THEN revision[g] + 1 ELSE revision[g]
        /\ claimed'[g] = IF g \in GroupsOf(B) THEN 0 ELSE claimed[g]
  BY DEF CompleteBatch
\* The result of a group of the batch is made from its one lease.
<1>4. ASSUME NEW l \in B
      PROVE  /\ l.group \in Groups /\ LeaseOK(l)
             /\ l.group \in GroupsOf(B)
             /\ result'[l.group] = MarkFinality(l, consistent[l.group])
  <2>1. l.group \in Groups /\ LeaseOK(l)
    BY LeaseType DEF LeaseInv
  <2>2. l.group \in GroupsOf(B)
    BY DEF GroupsOf
  <2>3. \A k \in B : k.group = l.group => k = l
    BY DEF LeaseIsExclusive
  <2>4. (CHOOSE k \in B : k.group = l.group) = l
    BY <2>3
  <2> QED
    BY <1>1, <2>1, <2>2, <2>4
<1>5. \A g \in Groups : RowsOf(g)' = RowsOf(g)
  BY <1>2 DEF RowsOf
<1>6. LeaseInv' /\ LeaseIsExclusive'
  BY <1>1, <1>2, <1>3, OtherLeases
<1>7. TypeOK'
  <2>1. ASSUME NEW g \in GroupsOf(B) PROVE result'[g] \in Results
    <3>1. PICK l \in B : g = l.group
      BY DEF GroupsOf
    <3>2. l.events \in SUBSET Submissions /\ l.revision \in Nat
      BY LeaseType
    <3>3. EvidenceComplete(l) \in BOOLEAN /\ consistent[g] \in BOOLEAN
      BY DEF EvidenceComplete
    <3>4. (EvidenceComplete(l) /\ consistent[g]) \in BOOLEAN
      OBVIOUS
    <3>5. result'[g] = MarkFinality(l, consistent[g])
      BY <1>4, <3>1
    <3> HIDE DEF EvidenceComplete
    <3> QED
      BY <3>2, <3>4, <3>5 DEF MarkFinality, Results
  <2>2. result' \in [Groups -> Results \cup {NoResult}]
    BY <1>1, <2>1 DEF TypeOK
  <2>3. gstate' \in [Groups -> {"absent", "waiting", "inflight", "completed"}]
    BY DEF CompleteBatch, TypeOK
  <2>4. reason' \in [Groups -> {"", AllExpected, TimedOut}]
    BY DEF CompleteBatch, TypeOK
  <2>5. revision' \in [Groups -> Nat] /\ claimed' \in [Groups -> Nat]
    <3>1. revision \in [Groups -> Nat] /\ claimed \in [Groups -> Nat]
      BY DEF TypeOK
    <3>2. /\ revision' = [g \in Groups |-> IF g \in GroupsOf(B) THEN revision[g] + 1 ELSE revision[g]]
          /\ claimed' = [g \in Groups |-> IF g \in GroupsOf(B) THEN 0 ELSE claimed[g]]
      BY DEF CompleteBatch
    <3>3. \A g \in Groups : revision'[g] \in Nat /\ claimed'[g] \in Nat
      BY <3>1, <3>2
    <3> QED
      BY <3>2, <3>3
  <2>6. backoff' \in [Groups -> BOOLEAN]
    BY DEF CompleteBatch, TypeOK
  <2>7. batches' \in [Workers -> SUBSET (SUBSET Leases)]
    BY <1>2 DEF TypeOK
  <2> QED
    BY <1>2, <2>2, <2>3, <2>4, <2>5, <2>6, <2>7 DEF TypeOK
<1>8. RowsInv'
  <2>1. \A r \in rows : r.group \in Groups
    BY SubmissionsAssumption DEF TypeOK
  <2>2. \A r \in rows : gstate'[r.group] # "absent"
    BY <1>3, <2>1 DEF RowsInv
  <2> QED
    BY <1>2, <2>2 DEF RowsInv
<1>9. ResultInv'
  <2> SUFFICES ASSUME NEW g \in Groups PROVE ResultOK(g)'
    BY DEF ResultInv
  <2>1. CASE g \notin GroupsOf(B)
    BY <1>1, <1>2, <1>3, <1>5, <2>1 DEF ResultInv, ResultOK
  <2>2. CASE g \in GroupsOf(B)
    <3>1. PICK l \in B : g = l.group
      BY <2>2 DEF GroupsOf
    <3>2. LeaseOK(l) /\ result'[g] = MarkFinality(l, consistent[g])
      BY <1>4, <3>1
    <3>3. /\ result'[g].events = l.events /\ result'[g].revision = l.revision
          /\ result'[g].finality = "final" <=> EvidenceComplete(l)
          /\ result'[g].confirmed => EvidenceComplete(l)
          /\ result'[g] # NoResult
      <4>1. /\ result'[g].events = l.events /\ result'[g].revision = l.revision
            /\ result'[g].confirmed = (EvidenceComplete(l) /\ consistent[g])
            /\ result'[g].finality = IF EvidenceComplete(l) THEN "final" ELSE "partial_final"
        BY <3>2 DEF MarkFinality
      <4>2. result'[g].finality # "none"
        BY <4>1
      <4>3. result'[g] # NoResult
        BY <4>2 DEF NoResult
      <4> QED
        BY <4>1, <4>3
    <3>4. EvidenceComplete(l) => policy[g].expected \subseteq MembersIn(l.events)
      BY <3>1 DEF EvidenceComplete
    <3>5. policy[g] \in Policies /\ gstate'[g] # "absent"
      BY <1>3, <3>1, <3>2 DEF ResultInv, ResultOK, LeaseOK
    <3>6. gstate'[g] = "completed" => /\ l.events = RowsOf(g)
                                      /\ reason'[g] = l.reason
      <4>1. CASE ~ArrivedDuringClaim(g)
        <5>1. l.events = RowsOf(g)
          BY <3>1, <3>2, <4>1, NothingArrived DEF ArrivedDuringClaim, LeaseOK
        <5> QED
          BY <1>3, <3>1, <3>2, <4>1, <5>1 DEF LeaseOK
      <4>2. CASE ArrivedDuringClaim(g)
        BY <1>3, <2>2, <4>2
      <4> QED
        BY <4>1, <4>2
    <3>7. l.reason = AllExpected <=> policy[g].expected \subseteq MembersIn(l.events)
      BY <3>1, <3>2 DEF LeaseOK
    <3>8. l.reason = AllExpected => EvidenceComplete(l)
      BY <3>1, <3>7 DEF EvidenceComplete
    <3>9. l.events \subseteq RowsOf(g) /\ l.revision = revision'[g]
      BY <1>3, <2>2, <3>1, <3>2 DEF LeaseOK
    <3> QED
      BY <1>2, <1>5, <3>3, <3>4, <3>5, <3>6, <3>7, <3>8, <3>9 DEF ResultOK
  <2> QED
    BY <2>1, <2>2
<1> QED
  BY <1>6, <1>7, <1>8, <1>9

\* Releasing a group that failed keeps its last published result.
LEMMA ReleaseGroupStep ==
  ASSUME IInv, NEW w \in Workers, NEW B \in batches[w], ReleaseGroup(w, B)
  PROVE  IInv'
<1> USE DEF IInv
<1>1. PICK l \in B : B = {l}
  BY DEF ReleaseGroup
<1> DEFINE g == l.group
<1>2. /\ g \in Groups /\ gstate[g] = "inflight" /\ GroupsOf(B) = {g}
  BY <1>1, LeaseType DEF LeaseInv, LeaseOK, GroupsOf
<1>3. /\ gstate' = [gstate EXCEPT ![g] = "waiting"]
      /\ backoff' = [backoff EXCEPT ![g] = ~ArrivedDuringClaim(g)]
      /\ claimed' = [claimed EXCEPT ![g] = 0]
  BY <1>1, <1>2 DEF ReleaseGroup
<1>4. /\ batches' = [batches EXCEPT ![w] = @ \ {B}]
      /\ UNCHANGED <<policy, reason, revision, result, rows, expired, acked>>
  BY DEF ReleaseGroup
<1>5. LeaseInv' /\ LeaseIsExclusive'
  <2>1. \A h \in Groups \ GroupsOf(B) : gstate'[h] = gstate[h] /\ claimed'[h] = claimed[h]
    BY <1>2, <1>3 DEF TypeOK
  <2> QED
    BY <1>4, <2>1, OtherLeases
<1>6. TypeOK'
  <2>1. batches' \in [Workers -> SUBSET (SUBSET Leases)]
    BY <1>4 DEF TypeOK
  <2>2. ArrivedDuringClaim(g) \in BOOLEAN
    BY DEF ArrivedDuringClaim
  <2> QED
    BY <1>2, <1>3, <1>4, <2>1, <2>2 DEF TypeOK
<1>7. RowsInv'
  <2>1. \A r \in rows : r.group \in Groups
    BY SubmissionsAssumption DEF TypeOK
  <2>2. \A r \in rows : gstate'[r.group] # "absent"
    BY <1>3, <2>1 DEF RowsInv, TypeOK
  <2> QED
    BY <1>4, <2>2 DEF RowsInv
<1>8. ResultInv'
  <2>1. \A h \in Groups : RowsOf(h)' = RowsOf(h)
    BY <1>4 DEF RowsOf
  <2>2. \A h \in Groups : gstate'[h] = IF h = g THEN "waiting" ELSE gstate[h]
    BY <1>3 DEF TypeOK
  <2> SUFFICES ASSUME NEW h \in Groups PROVE ResultOK(h)'
    BY DEF ResultInv
  <2>3. ResultOK(h)
    BY DEF ResultInv
  <2> QED
    BY <1>2, <1>4, <2>1, <2>2, <2>3 DEF ResultOK
<1> QED
  BY <1>5, <1>6, <1>7, <1>8

\* The clocks touch nothing the invariant speaks of, and a restart only
\* forgets leases.
LEMMA EnvironmentStep ==
  ASSUME IInv, (\E g \in Groups : DeadlinePasses(g) \/ BackoffElapses(g)) \/ CrashAndRestart
  PROVE  IInv'
<1> USE DEF IInv
<1>1. UNCHANGED <<dbVars, acked>> /\ expired' \in [Groups -> BOOLEAN] /\ backoff' \in [Groups -> BOOLEAN]
  BY DEF DeadlinePasses, BackoffElapses, CrashAndRestart, TypeOK, timeVars
<1>2. batches' = batches \/ batches' = [w \in Workers |-> {}]
  BY DEF DeadlinePasses, BackoffElapses, CrashAndRestart
<1>3. \A g \in Groups : RowsOf(g)' = RowsOf(g)
  BY <1>1 DEF RowsOf, dbVars
<1>4. TypeOK'
  BY <1>1, <1>2 DEF TypeOK, dbVars
<1>5. RowsInv' /\ ResultInv'
  BY <1>1, <1>3 DEF RowsInv, ResultInv, ResultOK, dbVars
<1>6. LeaseInv'
  <2> SUFFICES ASSUME NEW w \in Workers, NEW B \in batches'[w], NEW l \in B
               PROVE  LeaseOK(l)'
    BY DEF LeaseInv
  <2>1. B \in batches[w]
    BY <1>2
  <2>2. LeaseOK(l) /\ l.group \in Groups
    BY <2>1, LeaseType DEF LeaseInv
  <2> QED
    BY <1>1, <1>3, <2>2 DEF LeaseOK, dbVars
<1>7. LeaseIsExclusive'
  BY <1>1, <1>2 DEF LeaseIsExclusive, dbVars
<1> QED
  BY <1>4, <1>5, <1>6, <1>7

\* The inductive invariant: rows, leases and results agree in every reachable
\* state, for every set of groups, members, summaries and workers.
THEOREM Invariance == Spec => []IInv
<1>1. Init => IInv
  BY InitHolds
<1>2. IInv /\ [Next]_vars => IInv'
  <2> SUFFICES ASSUME IInv, [Next]_vars PROVE IInv'
    OBVIOUS
  <2>1. CASE \E s \in Submissions : Submit(s)
    BY <2>1, SubmitNoopStep, SubmitStoreStep DEF Submit
  <2>2. CASE \E w \in Workers : WorkerStep(w)
    <3>1. PICK w \in Workers : ClaimDue(w) \/ \E B \in batches[w] : WorkOn(w, B)
      BY <2>2 DEF WorkerStep
    <3>2. CASE ClaimDue(w)
      BY <3>2, ClaimDueStep
    <3>3. ASSUME NEW B \in batches[w], WorkOn(w, B) PROVE IInv'
      BY <3>3, CompleteBatchStep, SplitBatchStep, ReleaseGroupStep DEF WorkOn
    <3> QED
      BY <3>1, <3>2, <3>3
  <2>3. CASE (\E g \in Groups : DeadlinePasses(g) \/ BackoffElapses(g)) \/ CrashAndRestart
    BY <2>3, EnvironmentStep
  <2>4. CASE UNCHANGED vars
    <3> USE <2>4 DEF IInv, vars, dbVars, timeVars
    <3>1. TypeOK' /\ RowsInv'
      BY DEF TypeOK, RowsInv
    <3>2. LeaseInv' /\ LeaseIsExclusive'
      BY DEF LeaseInv, LeaseOK, LeaseIsExclusive, RowsOf
    <3>3. ResultInv'
      BY DEF ResultInv, ResultOK, RowsOf
    <3> QED
      BY <3>1, <3>2, <3>3
  <2> QED
    BY <2>1, <2>2, <2>3, <2>4 DEF Next
<1> QED
  BY <1>1, <1>2, PTL DEF Spec

-----------------------------------------------------------------------------
(* The safety properties of the runs.                                      *)

\* Every variable stays in its set.
THEOREM TypeCorrect == Spec => []TypeOK
  BY Invariance, PTL DEF IInv

\* A group shown as final was computed from every expected member.
THEOREM FinalCovers == Spec => []FinalCoversEveryMember
<1>1. IInv => FinalCoversEveryMember
  <2> SUFFICES ASSUME IInv, NEW g \in Groups, Finality(g) = "final" \/ Confirmed(g)
               PROVE  /\ MembersIn(result[g].events) = policy[g].expected
                      /\ result[g].finality = "final"
    BY DEF FinalCoversEveryMember
  <2> USE DEF IInv
  <2>1. ViewComplete(g) /\ ResultOK(g)
    BY DEF Finality, Confirmed, ResultInv
  <2>2. /\ result[g].events = RowsOf(g)
        /\ policy[g].expected \subseteq MembersIn(RowsOf(g))
        /\ result[g] # NoResult
    BY <2>1 DEF ViewComplete, ResultOK
  <2>3. ASSUME NEW s \in RowsOf(g) PROVE s.member \in policy[g].expected
    BY SubmissionsAssumption DEF RowsOf, RowsInv, TypeOK
  <2>4. MembersIn(RowsOf(g)) \subseteq policy[g].expected
    BY <2>3 DEF MembersIn
  <2>5. result[g].finality = "final"
    BY <2>1 DEF ViewComplete, ResultOK
  <2> QED
    BY <2>2, <2>4, <2>5
<1> QED
  BY <1>1, Invariance, PTL

\* No stored result claims more than its evidence.
THEOREM ConfirmationIsSupported == Spec => []NoUnsupportedConfirmation
<1>1. IInv => NoUnsupportedConfirmation
  BY DEF IInv, ResultInv, ResultOK, NoUnsupportedConfirmation
<1> QED
  BY <1>1, Invariance, PTL

\* A group at rest has used every summary in the table.
THEOREM EvidenceIsUsed == Spec => []NoStrandedEvidence
<1>1. IInv => NoStrandedEvidence
  BY DEF IInv, ResultInv, ResultOK, NoStrandedEvidence
<1> QED
  BY <1>1, Invariance, PTL

\* Whatever was answered without an error is stored.
THEOREM AcknowledgedIsDurable == Spec => []AckedIsStored
<1>1. IInv => AckedIsStored
  BY DEF IInv, RowsInv, AckedIsStored
<1> QED
  BY <1>1, Invariance, PTL

\* Two flushers never hold a lease for the same group.
THEOREM LeasesAreExclusive == Spec => []LeaseIsExclusive
  BY Invariance, PTL DEF IInv

-----------------------------------------------------------------------------
(* What a step may not do to a published result.                           *)

\* Only the commit of a group's own lease changes its result.
LEMMA ResultChange ==
  ASSUME IInv, [Next]_vars, NEW g \in Groups
  PROVE  \/ result'[g] = result[g] /\ revision'[g] = revision[g]
         \/ \E w \in Workers : \E B \in batches[w] : \E l \in B :
              /\ l.group = g /\ LeaseOK(l)
              /\ CompleteBatch(w, B)
              /\ result'[g].events = l.events /\ result'[g].revision = l.revision
              /\ revision'[g] = revision[g] + 1
<1>1. CASE UNCHANGED <<result, revision>>
  BY <1>1
<1>2. CASE \E w \in Workers : \E B \in batches[w] : CompleteBatch(w, B)
  <2>0. PICK w \in Workers : \E B \in batches[w] : CompleteBatch(w, B)
    BY <1>2
  <2>1. PICK B \in batches[w] : CompleteBatch(w, B)
    BY <2>0
  <2>2. CASE g \notin GroupsOf(B)
    BY <2>1, <2>2 DEF CompleteBatch
  <2>3. CASE g \in GroupsOf(B)
    <3>1. PICK l \in B : l.group = g
      BY <2>3 DEF GroupsOf
    <3>2. \A k \in B : k.group = g => k = l
      BY <3>1 DEF IInv, LeaseIsExclusive
    <3>3. (CHOOSE k \in B : k.group = g) = l
      BY <3>1, <3>2
    <3>4. PICK c \in [GroupsOf(B) -> BOOLEAN] : result'[g] = MarkFinality(l, c[g])
      BY <2>1, <2>3, <3>3 DEF CompleteBatch
    <3>5. result'[g].events = l.events /\ result'[g].revision = l.revision
      BY <3>4 DEF MarkFinality
    <3>6. LeaseOK(l) /\ revision'[g] = revision[g] + 1
      BY <2>1, <2>3 DEF IInv, LeaseInv, CompleteBatch
    <3> QED
      BY <2>1, <3>1, <3>5, <3>6
  <2> QED
    BY <2>2, <2>3
<1>3. \/ UNCHANGED <<result, revision>>
      \/ \E w \in Workers : \E B \in batches[w] : CompleteBatch(w, B)
  BY DEF Next, vars, dbVars, Submit, SubmitNoop, SubmitStore, WorkerStep, WorkOn, ClaimDue,
         SplitBatch, ReleaseGroup, DeadlinePasses, BackoffElapses, CrashAndRestart
<1> QED
  BY <1>1, <1>2, <1>3

\* A result is replaced only by a richer one with the next revision.
THEOREM RevisionsImprove == Spec => RevisionsOnlyImprove
<1>1. ASSUME IInv, [Next]_vars, NEW g \in Groups, result'[g] # result[g]
      PROVE  /\ result'[g].revision = revision'[g]
             /\ revision'[g] = revision[g] + 1
             /\ result[g].events \subseteq result'[g].events
  BY <1>1, ResultChange DEF LeaseOK
<1>2. IInv /\ [Next]_vars =>
        [\A g \in Groups :
           result'[g] # result[g] =>
             /\ result'[g].revision = revision'[g]
             /\ revision'[g] = revision[g] + 1
             /\ result[g] # NoResult => result[g].events \subseteq result'[g].events]_vars
  BY <1>1
<1> QED
  BY <1>2, Invariance, PTL DEF Spec, RevisionsOnlyImprove

\* A closed group keeps its state: only a submission could reopen it, and it
\* is answered as a no-op.
LEMMA ClosedGroupStep ==
  ASSUME IInv, Next, NEW g \in Groups, Closed(g)
  PROVE  /\ gstate'[g] = gstate[g] /\ reason'[g] = reason[g] /\ policy'[g] = policy[g]
         /\ RowsOf(g)' = RowsOf(g)
<1> USE DEF IInv
<1>1. CASE \E s \in Submissions : Submit(s)
  <2>1. PICK s \in Submissions : Submit(s)
    BY <1>1
  <2>2. CASE SubmitNoop(s)
    BY <2>2 DEF SubmitNoop, dbVars, RowsOf
  <2>3. CASE SubmitStore(s)
    <3>1. s.group # g
      BY <2>3 DEF SubmitStore
    <3> QED
      BY <2>3, <3>1 DEF SubmitStore, TypeOK, RowsOf
  <2> QED
    BY <2>1, <2>2, <2>3 DEF Submit
<1>2. CASE \E w \in Workers : WorkerStep(w)
  <2>1. PICK w \in Workers : WorkerStep(w)
    BY <1>2
  <2>2. CASE ClaimDue(w)
    <3>1. PICK G \in SUBSET Groups :
            /\ Claimable(G)
            /\ gstate' = [h \in Groups |-> IF h \in G THEN "inflight" ELSE gstate[h]]
            /\ reason' = [h \in Groups |-> IF h \in G THEN ClaimReason(h) ELSE reason[h]]
      BY <2>2 DEF ClaimDue
    <3>2. g \notin G
      BY <3>1 DEF Claimable, Due, Closed
    <3> QED
      BY <2>2, <3>1, <3>2 DEF ClaimDue, RowsOf
  <2>3. ASSUME NEW B \in batches[w], WorkOn(w, B)
        PROVE  /\ gstate'[g] = gstate[g] /\ reason'[g] = reason[g] /\ policy'[g] = policy[g]
               /\ RowsOf(g)' = RowsOf(g)
    <3>1. \A l \in B : l.group # g
      BY DEF LeaseInv, LeaseOK, Closed
    <3>2. CASE CompleteBatch(w, B)
      BY <3>1, <3>2 DEF CompleteBatch, GroupsOf, RowsOf
    <3>3. CASE SplitBatch(w, B)
      BY <3>3 DEF SplitBatch, dbVars, RowsOf
    <3>4. CASE ReleaseGroup(w, B)
      <4>1. PICK l \in B : gstate' = [gstate EXCEPT ![l.group] = "waiting"] \/ gstate' = gstate
        BY <3>4 DEF ReleaseGroup
      <4>2. gstate'[g] = gstate[g]
        BY <3>1, <4>1 DEF TypeOK
      <4> QED
        BY <3>4, <4>2 DEF ReleaseGroup, RowsOf
    <3> QED
      BY <2>3, <3>2, <3>3, <3>4 DEF WorkOn
  <2> QED
    BY <2>1, <2>2, <2>3 DEF WorkerStep
<1>3. CASE (\E h \in Groups : DeadlinePasses(h) \/ BackoffElapses(h)) \/ CrashAndRestart
  BY <1>3 DEF DeadlinePasses, BackoffElapses, CrashAndRestart, dbVars, RowsOf
<1> QED
  BY <1>1, <1>2, <1>3 DEF Next

\* A final group takes no summary, no lease and no other result.
LEMMA FinalStep ==
  ASSUME IInv, Next, NEW g \in Groups, Finality(g) = "final"
  PROVE  /\ Finality(g)' = "final"
         /\ result'[g] = result[g]
         /\ revision'[g] = revision[g]
<1>1. ViewComplete(g) /\ gstate[g] = "completed" /\ result[g] # NoResult
  BY DEF Finality
<1>2. result'[g] = result[g] /\ revision'[g] = revision[g]
  BY <1>1, ResultChange DEF LeaseOK
<1>3. gstate'[g] = gstate[g] /\ reason'[g] = reason[g] /\ policy'[g] = policy[g]
      /\ RowsOf(g)' = RowsOf(g)
  BY <1>1, ClosedGroupStep DEF ViewComplete, Closed
<1>4. ViewComplete(g)'
  BY <1>1, <1>3 DEF ViewComplete, Complete, MembersIn
<1> QED
  BY <1>1, <1>2, <1>3, <1>4 DEF Finality

\* Once a group has been shown as final nothing about it changes any more.
THEOREM FinalStays == Spec => FinalIsForever
<1>1. IInv /\ [Next]_vars =>
        [\A g \in Groups :
           Finality(g) = "final" =>
             /\ Finality(g)' = "final"
             /\ result'[g] = result[g]
             /\ revision'[g] = revision[g]]_vars
  BY FinalStep DEF vars, dbVars, Finality, ViewComplete, Complete, RowsOf, MembersIn
<1> QED
  BY <1>1, Invariance, PTL DEF Spec, FinalIsForever

-----------------------------------------------------------------------------
(* The aggregator implements the abstract join: a stored summary is an     *)
(* Accept, the commit of a batch is a Publish of its groups, and claims,   *)
(* splits, releases, clocks and restarts are invisible to a reader of the  *)
(* view.                                                                   *)

Views == [g \in Groups |-> View(g)]

\* The view of a group depends on its own row and summaries only.
LEMMA SameView ==
  ASSUME NEW g \in Groups,
         result'[g] = result[g], policy'[g] = policy[g], RowsOf(g)' = RowsOf(g),
         \/ gstate'[g] = gstate[g] /\ reason'[g] = reason[g]
         \/ gstate[g] # "completed" /\ gstate'[g] # "completed"
  PROVE  View(g)' = View(g)
  BY DEF View, Finality, ViewComplete, Complete, MembersIn

\* The view of an open group is pending, that of a closed one is not.
LEMMA ShownWhen ==
  ASSUME IInv, NEW g \in Groups
  PROVE  /\ gstate[g] # "completed" => Finality(g) = "pending"
         /\ gstate[g] = "completed" =>
              Finality(g) = IF policy[g].expected \subseteq MembersIn(RowsOf(g))
                            THEN "final" ELSE "partial_final"
  BY DEF Finality, ViewComplete, Complete, IInv, ResultInv, ResultOK

\* Storing a summary is an Accept of the abstract join: nothing that conflicts
\* gets in and the group is shown as pending again.
LEMMA StoreIsAccept ==
  ASSUME IInv, IInv', NEW s \in Submissions, SubmitStore(s)
  PROVE  Join!Accept(s)
<1> DEFINE g == s.group
<1>1. g \in Groups
  BY SubmissionsAssumption
<1>2. s \notin rows /\ rows' = rows \cup {s} /\ result' = result
  BY DEF SubmitStore
<1>3. View(g).shown # "final"
  BY <1>1 DEF SubmitStore, Closed, View, Finality, ViewComplete
<1>4. Join!Consistent(rows \cup {s})
  <2>1. \A q, r \in rows' :
          /\ q.group = r.group /\ q.member = r.member => q = r
          /\ q.id = r.id => q = r
          /\ q.group = r.group => q.policy = r.policy
    BY DEF IInv, RowsInv
  <2> QED
    BY <1>2, <2>1 DEF Join!Consistent
<1>5. Views' = [Views EXCEPT ![g].shown = "pending"]
  <2>1. ASSUME NEW h \in Groups, h # g PROVE View(h)' = View(h)
    <3>1. RowsOf(h)' = RowsOf(h) /\ policy'[h] = policy[h] /\ gstate'[h] = gstate[h]
          /\ reason'[h] = reason[h]
      BY <1>1, <2>1 DEF SubmitStore, RowsOf, IInv, TypeOK
    <3> QED
      BY <1>2, <3>1, SameView
  <2>2. View(g)' = [View(g) EXCEPT !.shown = "pending"]
    <3>1. gstate'[g] # "completed"
      BY <1>1 DEF SubmitStore, Closed, Reopens, IInv, TypeOK
    <3>2. Finality(g)' = "pending"
      BY <3>1 DEF Finality
    <3> QED
      BY <1>2, <3>2 DEF View
  <2> QED
    BY <1>1, <2>1, <2>2 DEF Views
<1> QED
  BY <1>1, <1>2, <1>3, <1>4, <1>5 DEF Join!Accept, Views

\* The commit of a batch is one Publish of all its groups.
LEMMA CommitIsPublish ==
  ASSUME IInv, IInv', NEW w \in Workers, NEW B \in batches[w], CompleteBatch(w, B)
  PROVE  Join!Publish(GroupsOf(B))
<1> DEFINE G == GroupsOf(B)
<1> USE DEF IInv
<1>1. \A l \in B : LeaseOK(l) /\ l.group \in Groups
  BY LeaseType DEF LeaseInv
<1>2. G \in SUBSET Groups
  BY <1>1 DEF GroupsOf
<1>3. \A g \in Groups : RowsOf(g)' = RowsOf(g) /\ policy'[g] = policy[g]
  BY DEF CompleteBatch, RowsOf
<1> DEFINE evidence == [g \in G |-> result'[g].events]
<1>4. ASSUME NEW g \in G
      PROVE  /\ Views[g].shown = "pending"
             /\ Views[g].events \subseteq evidence[g]
             /\ evidence[g] \subseteq RowsOf(g)
             /\ evidence[g] # {}
             /\ Join!Enough(evidence[g])
             /\ Views'[g] = Join!Publication(g, evidence[g])
  <2>1. g \in Groups
    BY <1>2
  <2>2. PICK l \in B : l.group = g
    BY DEF GroupsOf
  <2>3. LeaseOK(l)
    BY <1>1
  <2>4. /\ result'[g].events = l.events /\ result'[g].revision = l.revision
        /\ revision'[g] = revision[g] + 1
    <3>1. \A k \in B : k.group = g => k = l
      BY <2>2 DEF LeaseIsExclusive
    <3>2. (CHOOSE k \in B : k.group = g) = l
      BY <2>2, <3>1
    <3>3. PICK c \in [G -> BOOLEAN] : result'[g] = MarkFinality(l, c[g])
      BY <2>1, <3>2 DEF CompleteBatch
    <3>4. revision'[g] = revision[g] + 1
      BY <2>1 DEF CompleteBatch
    <3> QED
      BY <3>3, <3>4 DEF MarkFinality
  <2>5. Views[g].shown = "pending" /\ Views[g].events = result[g].events
        /\ Views[g].revision = revision[g]
    BY <2>1, <2>2, <2>3, ShownWhen DEF Views, View, LeaseOK, ResultInv, ResultOK
  <2>6. \A s \in RowsOf(g) : s.policy = policy[g]
    BY DEF RowsInv, RowsOf
  <2>7. Join!Enough(l.events)
    <3>1. \A s \in l.events : s.policy = policy[g]
      BY <2>2, <2>3, <2>6 DEF LeaseOK
    <3>2. Cardinality({r.member : r \in l.events}) >= policy[g].minimum
      BY <2>2, <2>3 DEF LeaseOK, MembersIn
    <3>3. ASSUME NEW s \in l.events
          PROVE  Cardinality({r.member : r \in l.events}) >= s.policy.minimum
      <4> HIDE DEF IInv
      <4>1. s.policy = policy[g]
        BY <3>1
      <4> QED
        BY ONLY <3>2, <4>1
    <3> QED
      BY ONLY <3>3 DEF Join!Enough, Join!Cardinality, Cardinality
  <2>8. Views'[g] = [events |-> l.events, revision |-> revision[g] + 1, shown |-> Finality(g)']
    BY <2>1, <2>2, <2>3, <2>4 DEF Views, View, LeaseOK
  <2>9. Finality(g)' = Join!Shown(g, l.events)
    <3>1. Join!AcceptedOf(g) = RowsOf(g)
      BY DEF Join!AcceptedOf, RowsOf
    <3>2. CASE ArrivedDuringClaim(g)
      <4>1. gstate'[g] = "waiting"
        BY <2>1, <3>2 DEF CompleteBatch
      <4>2. Finality(g)' = "pending"
        BY <4>1 DEF Finality
      <4>3. Cardinality(MembersIn(RowsOf(g))) > Cardinality(MembersIn(l.events))
        BY <2>2, <2>3, <3>2 DEF ArrivedDuringClaim, LeaseOK
      <4>4. l.events # RowsOf(g)
        <5>1. RowsOf(g) \in SUBSET Submissions
          BY DEF TypeOK, RowsOf
        <5>2. Cardinality(MembersIn(RowsOf(g))) \in Nat
          BY <5>1, MembersFinite
        <5> QED
          BY <4>3, <5>2
      <4> QED
        BY <3>1, <4>2, <4>4 DEF Join!Shown
    <3>3. CASE ~ArrivedDuringClaim(g)
      <4>1. gstate'[g] = "completed"
        BY <2>1, <3>3 DEF CompleteBatch
      <4>2. l.events = RowsOf(g)
        BY <2>1, <2>2, <2>3, <3>3, NothingArrived DEF ArrivedDuringClaim, LeaseOK
      <4>3. Join!Covers(l.events) <=> policy[g].expected \subseteq MembersIn(RowsOf(g))
        BY <2>2, <2>3, <2>6, <4>2 DEF Join!Covers, MembersIn, LeaseOK
      <4>4. Finality(g)' = IF policy[g].expected \subseteq MembersIn(RowsOf(g))
                           THEN "final" ELSE "partial_final"
        <5>1. Finality(g)' = IF policy'[g].expected \subseteq MembersIn(RowsOf(g)')
                             THEN "final" ELSE "partial_final"
          <6>1. ResultOK(g)'
            BY <2>1 DEF ResultInv
          <6> QED
            BY <4>1, <6>1 DEF Finality, ViewComplete, Complete, ResultOK
        <5> QED
          BY <1>3, <2>1, <5>1
      <4> QED
        BY <3>1, <4>2, <4>3, <4>4 DEF Join!Shown
    <3> QED
      BY <3>2, <3>3
  <2> QED
    BY <2>2, <2>3, <2>4, <2>5, <2>7, <2>8, <2>9 DEF Join!Publication, LeaseOK, Views
<1>5. ASSUME NEW g \in Groups \ G PROVE Views'[g] = Views[g]
  <2>1. gstate'[g] = gstate[g] /\ reason'[g] = reason[g] /\ result'[g] = result[g]
    BY <1>5 DEF CompleteBatch
  <2> QED
    BY <1>3, <2>1, SameView DEF Views
<1>6. \A g \in Groups : RowsOf(g) = Join!AcceptedOf(g)
  BY DEF RowsOf, Join!AcceptedOf
<1>7. rows' = rows
  BY DEF CompleteBatch
<1>8. evidence \in [G -> SUBSET rows]
  BY <1>4 DEF RowsOf
<1>9. Views' = [g \in Groups |-> IF g \in G THEN Join!Publication(g, evidence[g]) ELSE Views[g]]
  <2>1. \A g \in Groups : Views'[g] = IF g \in G THEN Join!Publication(g, evidence[g]) ELSE Views[g]
    BY <1>4, <1>5
  <2> HIDE DEF evidence, G
  <2> QED
    BY <2>1 DEF Views
<1> QED
  BY <1>2, <1>4, <1>6, <1>7, <1>8, <1>9 DEF Join!Publish, Views

\* No other step can be told from the outside.
LEMMA OtherStepsAreInvisible ==
  ASSUME IInv, IInv',
         \/ \E s \in Submissions : SubmitNoop(s)
         \/ \E w \in Workers : ClaimDue(w)
         \/ \E w \in Workers : \E B \in batches[w] : SplitBatch(w, B) \/ ReleaseGroup(w, B)
         \/ \E g \in Groups : DeadlinePasses(g) \/ BackoffElapses(g)
         \/ CrashAndRestart
         \/ UNCHANGED vars
  PROVE  UNCHANGED <<rows, Views>>
<1>1. UNCHANGED <<rows, policy, result>>
  BY DEF SubmitNoop, ClaimDue, SplitBatch, ReleaseGroup, DeadlinePasses, BackoffElapses,
         CrashAndRestart, vars, dbVars
<1>2. ASSUME NEW g \in Groups
      PROVE  \/ gstate'[g] = gstate[g] /\ reason'[g] = reason[g]
             \/ gstate[g] # "completed" /\ gstate'[g] # "completed"
  <2>1. CASE \E w \in Workers : ClaimDue(w)
    <3>1. PICK G \in SUBSET Groups :
            /\ Claimable(G)
            /\ gstate' = [h \in Groups |-> IF h \in G THEN "inflight" ELSE gstate[h]]
            /\ reason' = [h \in Groups |-> IF h \in G THEN ClaimReason(h) ELSE reason[h]]
      BY <2>1 DEF ClaimDue
    <3> QED
      BY <3>1 DEF Claimable, Due
  <2>2. CASE \E w \in Workers : \E B \in batches[w] : ReleaseGroup(w, B)
    <3>1. PICK h : \/ gstate' = gstate
                   \/ gstate[h] = "inflight" /\ gstate' = [gstate EXCEPT ![h] = "waiting"]
      BY <2>2 DEF ReleaseGroup
    <3>2. reason' = reason
      BY <2>2 DEF ReleaseGroup
    <3> QED
      BY <3>1, <3>2 DEF IInv, TypeOK
  <2>3. CASE UNCHANGED <<gstate, reason>>
    BY <2>3
  <2> QED
    BY <2>1, <2>2, <2>3
    DEF SubmitNoop, SplitBatch, DeadlinePasses, BackoffElapses, CrashAndRestart, vars, dbVars
<1>3. \A g \in Groups : RowsOf(g)' = RowsOf(g)
  BY <1>1 DEF RowsOf
<1>4. \A g \in Groups : View(g)' = View(g)
  BY <1>1, <1>2, <1>3, SameView
<1> QED
  BY <1>1, <1>4 DEF Views

\* The aggregator implements the abstract join.
THEOREM Implements == Spec => ImplementsGroupJoin
<1>1. ASSUME Init PROVE Join!JoinInit
  <2>1. rows = {}
    BY <1>1 DEF Init
  <2>2. ASSUME NEW g \in Groups
        PROVE  View(g) = [events |-> {}, revision |-> 0, shown |-> "pending"]
    <3>1. gstate[g] = "absent" /\ result[g] = NoResult
      BY <1>1 DEF Init
    <3> QED
      BY <3>1 DEF View, Finality, NoResult
  <2> QED
    BY <2>1, <2>2 DEF Join!JoinInit
<1>2. ASSUME IInv, IInv', [Next]_vars
      PROVE  Join!JoinNext \/ UNCHANGED <<rows, Views>>
  <2>1. CASE \E s \in Submissions : SubmitStore(s)
    <3>1. PICK s \in Submissions : SubmitStore(s)
      BY <2>1
    <3> QED
      BY <1>2, <3>1, StoreIsAccept DEF Join!JoinNext
  <2>2. CASE \E w \in Workers : \E B \in batches[w] : CompleteBatch(w, B)
    <3>1. PICK w \in Workers : \E B \in batches[w] : CompleteBatch(w, B)
      BY <2>2
    <3>2. PICK B \in batches[w] : CompleteBatch(w, B)
      BY <3>1
    <3>3. GroupsOf(B) \in SUBSET Groups
      <4>1. ASSUME NEW l \in B PROVE l.group \in Groups
        <5>1. TypeOK
          BY <1>2 DEF IInv
        <5> QED
          BY <5>1, LeaseType
      <4> QED
        BY <4>1 DEF GroupsOf
    <3> QED
      BY <1>2, <3>2, <3>3, CommitIsPublish DEF Join!JoinNext
  <2>3. CASE \/ \E s \in Submissions : SubmitNoop(s)
             \/ \E w \in Workers : ClaimDue(w)
             \/ \E w \in Workers : \E B \in batches[w] : SplitBatch(w, B) \/ ReleaseGroup(w, B)
             \/ \E g \in Groups : DeadlinePasses(g) \/ BackoffElapses(g)
             \/ CrashAndRestart
             \/ UNCHANGED vars
    BY <1>2, <2>3, OtherStepsAreInvisible
  <2> QED
    BY <1>2, <2>1, <2>2, <2>3 DEF Next, Submit, WorkerStep, WorkOn
<1>3. IInv /\ IInv' /\ [Next]_vars => [Join!JoinNext]_(Join!joinVars)
  BY <1>2 DEF Join!joinVars, Views
<1> QED
  BY <1>1, <1>3, Invariance, PTL DEF Spec, ImplementsGroupJoin, Join!JoinSpec

-----------------------------------------------------------------------------
(* What an edge is answered about its summary.  Results only grow and keep *)
(* to the table, so a decision on a summary is not lost with a reopening.  *)

\* A summary that comes in is at first in no result.
LEMMA NewSummaryIsHeld ==
  ASSUME IInv, NEW s \in Submissions, SubmitStore(s)
  PROVE  AnswerTo(s) = "unknown" /\ AnswerTo(s)' = "held"
<1>1. s.group \in Groups
  BY SubmissionsAssumption
<1>2. s \notin rows /\ s \in rows' /\ result' = result
  BY DEF SubmitStore
<1>3. s \notin result[s.group].events
  BY <1>1, <1>2 DEF IInv, ResultInv, ResultOK, RowsOf
<1>4. gstate'[s.group] # "completed"
  BY <1>1 DEF SubmitStore, Closed, Reopens, IInv, TypeOK
<1> QED
  BY <1>2, <1>3, <1>4 DEF AnswerTo, Finality

\* Only its own submission makes a summary known.
LEMMA RowsChange ==
  ASSUME [Next]_vars
  PROVE  rows' = rows \/ \E s \in Submissions : SubmitStore(s) /\ rows' = rows \cup {s}
BY DEF Next, vars, dbVars, Submit, SubmitNoop, SubmitStore, WorkerStep, WorkOn, ClaimDue,
       CompleteBatch, SplitBatch, ReleaseGroup, DeadlinePasses, BackoffElapses, CrashAndRestart

\* The answer to a summary that is in the table only improves.
LEMMA KnownAnswerImproves ==
  ASSUME IInv, Next, NEW s \in rows
  PROVE  Answer(s)!Decide \/ UNCHANGED AnswerTo(s)
<1>1. s \in Submissions /\ s.group \in Groups
  BY SubmissionsAssumption DEF IInv, TypeOK
<1>2. s \in rows'
  BY RowsChange
<1>3. result[s.group].events \subseteq result'[s.group].events
  BY <1>1, ResultChange DEF LeaseOK
<1>4. Finality(s.group) = "final" => Finality(s.group)' = "final"
  BY <1>1, FinalStep
<1>5. /\ AnswerTo(s) \in {"held", "partial", "final"}
      /\ AnswerTo(s)' \in {"held", "partial", "final"}
      /\ AnswerTo(s) = "partial" => AnswerTo(s)' # "held"
      /\ AnswerTo(s) = "final" => AnswerTo(s)' = "final"
  BY <1>2, <1>3, <1>4 DEF AnswerTo
<1> QED
  BY <1>5 DEF Answer!Decide

\* For every summary the aggregator is a CloudAnswer: an edge that keeps
\* asking is never told less than it was told before.
THEOREM AnswersAreKept == Spec => AnswersNeverGoBack
<1>1. ASSUME Init, NEW s \in Submissions PROVE Answer(s)!AnswerInit
  BY <1>1 DEF Init, AnswerTo, Answer!AnswerInit
<1>2. ASSUME IInv, Next, NEW s \in Submissions
      PROVE  Answer(s)!AnswerNext \/ UNCHANGED AnswerTo(s)
  <2>1. CASE s \in rows
    BY <1>2, <2>1, KnownAnswerImproves DEF Answer!AnswerNext
  <2>2. CASE s \notin rows /\ s \notin rows'
    BY <2>2 DEF AnswerTo
  <2>3. CASE s \notin rows /\ s \in rows'
    <3>1. SubmitStore(s)
      BY <1>2, <2>3, RowsChange
    <3> QED
      BY <1>2, <3>1, NewSummaryIsHeld DEF Answer!AnswerNext, Answer!Hold
  <2> QED
    BY <2>1, <2>2, <2>3
<1>3. IInv /\ [Next]_vars =>
        [\A s \in Submissions : Answer(s)!AnswerNext \/ UNCHANGED AnswerTo(s)]_vars
  BY <1>2
<1>4. Init => \A s \in Submissions : Answer(s)!AnswerInit
  BY <1>1
<1> QED
  BY <1>3, <1>4, Invariance, PTL DEF Spec, AnswersNeverGoBack
=============================================================================
