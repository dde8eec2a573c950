------------------------------ MODULE GroupJoin ------------------------------
(***************************************************************************)
(* What the cloud promises the edges about a group of summaries, without   *)
(* leases, retries, workers or restarts: summaries are accepted until the  *)
(* group is final, and every publication is made from all earlier evidence *)
(* and possibly more.  A publication that has used everything accepted is  *)
(* shown, as final when it covers the group and as partial_final when it   *)
(* does not; one that new evidence has overtaken stays pending.            *)
(***************************************************************************)
EXTENDS Naturals, FiniteSets

CONSTANTS Groups, Submissions

VARIABLES
  accepted,   \* the summaries the cloud has durably accepted
  published   \* group -> the view of its latest publication

joinVars == <<accepted, published>>

AcceptedOf(g) == { s \in accepted : s.group = g }

Covers(S) == \A s \in S : s.policy.expected \subseteq { r.member : r \in S }

Enough(S) == \A s \in S : Cardinality({ r.member : r \in S }) >= s.policy.minimum

\* One summary per member of a group, one use of an id, one policy per group.
Consistent(S) ==
  \A r, s \in S :
    /\ r.group = s.group /\ r.member = s.member => r = s
    /\ r.id = s.id => r = s
    /\ r.group = s.group => r.policy = s.policy

JoinInit ==
  /\ accepted = {}
  /\ published = [g \in Groups |-> [events |-> {}, revision |-> 0, shown |-> "pending"]]

Accept(s) ==
  LET g == s.group IN
  /\ s \notin accepted
  /\ published[g].shown # "final"
  /\ Consistent(accepted \cup {s})
  /\ accepted' = accepted \cup {s}
  /\ published' = [published EXCEPT ![g].shown = "pending"]

Shown(g, S) ==
  IF S # AcceptedOf(g) THEN "pending" ELSE IF Covers(S) THEN "final" ELSE "partial_final"

Publication(g, S) ==
  [events |-> S, revision |-> published[g].revision + 1, shown |-> Shown(g, S)]

\* Groups that are coordinated as one batch are published together.
Publish(G) ==
  /\ \A g \in G : published[g].shown = "pending"
  /\ \E evidence \in [G -> SUBSET accepted] :
       /\ \A g \in G : /\ published[g].events \subseteq evidence[g]
                       /\ evidence[g] \subseteq AcceptedOf(g)
                       /\ evidence[g] # {}
                       /\ Enough(evidence[g])
       /\ published' = [g \in Groups |-> IF g \in G THEN Publication(g, evidence[g])
                                                    ELSE published[g]]
  /\ UNCHANGED accepted

JoinNext ==
  \/ \E s \in Submissions : Accept(s)
  \/ \E G \in SUBSET Groups : Publish(G)

JoinSpec == JoinInit /\ [][JoinNext]_joinVars
=============================================================================
