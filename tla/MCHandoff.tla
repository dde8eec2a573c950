------------------------------ MODULE MCHandoff ------------------------------
(***************************************************************************)
(* Small instances of Handoff: two submissions with an id of their own and *)
(* a third that reuses the id of the first with another payload.           *)
(***************************************************************************)
EXTENDS Handoff, TLC

S1 == [id |-> 1, payload |-> "x"]
S1Other == [id |-> 1, payload |-> "y"]
S2 == [id |-> 2, payload |-> "x"]

MCSubmissions == {S1, S1Other, S2}
HonestSubmissions == {S1, S2}
ConflictingSubmissions == {S1, S1Other}

CallerSymmetry == Permutations(Callers)
=============================================================================
