---------------------------- MODULE DurableAccept ----------------------------
(***************************************************************************)
(* What an edge promises about a cloud submission it has accepted: it is   *)
(* durable before the caller is told so, and from then on no failure makes *)
(* it undurable; it reaches the outbox later, in any order.                *)
(***************************************************************************)
CONSTANT Submissions

VARIABLES
  durable,    \* submissions that survive a crash of the edge
  delivered,  \* submissions that are in the outbox
  answered    \* submissions whose caller was told they are accepted

acceptVars == <<durable, delivered, answered>>

AcceptInit == durable = {} /\ delivered = {} /\ answered = {}

Persist(S) ==
  /\ durable' = durable \cup S
  /\ UNCHANGED <<delivered, answered>>

Answer(S) ==
  /\ S \subseteq durable
  /\ answered' = answered \cup S
  /\ UNCHANGED <<durable, delivered>>

\* A submission enters the outbox, where no other one may have its id.
Deliver(s) ==
  /\ \A r \in delivered : r.id # s.id
  /\ delivered' = delivered \cup {s}
  /\ durable' = durable \cup {s}
  /\ UNCHANGED answered

AcceptNext ==
  \/ \E S \in SUBSET Submissions : Persist(S) \/ Answer(S)
  \/ \E s \in Submissions : Deliver(s)

AcceptSpec == AcceptInit /\ [][AcceptNext]_acceptVars
=============================================================================
