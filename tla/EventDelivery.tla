---------------------------- MODULE EventDelivery ----------------------------
(***************************************************************************)
(* What the file bridge promises of an event, without files, batches,      *)
(* leases, retries and restarts: one body is taken for an id; the edge     *)
(* decides on it at most once and while the event is open; the event is    *)
(* completed after that, or fails and is then never decided; and receipts  *)
(* say what became of it.                                                  *)
(***************************************************************************)
EXTENDS Naturals

CONSTANTS
    Events,     \* records with the field id
    NoEvent

VARIABLES
    taken,      \* [Ids -> the event that was taken]
    outcome,    \* [Ids -> open, completed or failed]
    decided,    \* [Events -> how often the edge has decided on it]
    receipt     \* [Ids -> none, delivered or failed]

deliveryVars == <<taken, outcome, decided, receipt>>

Ids == {e.id : e \in Events}

DeliveryInit ==
    /\ taken = [i \in Ids |-> NoEvent]
    /\ outcome = [i \in Ids |-> "open"]
    /\ decided = [e \in Events |-> 0]
    /\ receipt = [i \in Ids |-> "none"]

Take(e) ==
    /\ taken[e.id] = NoEvent
    /\ taken' = [taken EXCEPT ![e.id] = e]
    /\ UNCHANGED <<outcome, decided, receipt>>

Open(i) == taken[i] # NoEvent /\ outcome[i] = "open"

Decide(i) ==
    /\ Open(i)
    /\ decided[taken[i]] = 0
    /\ decided' = [decided EXCEPT ![taken[i]] = 1]
    /\ UNCHANGED <<taken, outcome, receipt>>

End(i, how) ==
    /\ outcome' = [outcome EXCEPT ![i] = how]
    /\ UNCHANGED <<taken, decided, receipt>>

Complete(i) == Open(i) /\ decided[taken[i]] = 1 /\ End(i, "completed")

Fail(i) == Open(i) /\ decided[taken[i]] = 0 /\ End(i, "failed")

Report(i) ==
    /\ outcome[i] # "open"
    /\ receipt' = [receipt EXCEPT ![i] = IF outcome[i] = "completed" THEN "delivered" ELSE "failed"]
    /\ UNCHANGED <<taken, outcome, decided>>

DeliveryNext ==
    \/ \E e \in Events : Take(e)
    \/ \E i \in Ids : Decide(i) \/ Complete(i) \/ Fail(i) \/ Report(i)

DeliverySpec == DeliveryInit /\ [][DeliveryNext]_deliveryVars
=============================================================================
