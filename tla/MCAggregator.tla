---------------------------- MODULE MCAggregator ----------------------------
(***************************************************************************)
(* Small instances of Aggregator.  Group g1 joins three edges and may be   *)
(* published from two of them; g2 and g3 are the summaries of single edges *)
(* that share batches with it, and g3 can never be coordinated.  Besides   *)
(* the honest summaries the edges send every kind of conflicting one:      *)
(* another event for a member that already contributed, an id that is      *)
(* reused by another group, and another policy for the group.              *)
(***************************************************************************)
EXTENDS Aggregator

P1 == [expected |-> {"a", "b", "c"}, minimum |-> 2, timeout |-> 1]
P1Late == [expected |-> {"a", "b"}, minimum |-> 1, timeout |-> 1]
P2 == [expected |-> {"a"}, minimum |-> 1, timeout |-> 1]
P3 == [expected |-> {"b"}, minimum |-> 1, timeout |-> 1]

Summary(i, g, m, p, pol) ==
  [id |-> i, group |-> g, member |-> m, payload |-> p, policy |-> pol]

Honest ==
  { Summary(1, "g1", "a", "x", P1), Summary(2, "g1", "b", "x", P1),
    Summary(3, "g1", "c", "x", P1),
    Summary(4, "g2", "a", "x", P2), Summary(5, "g3", "b", "x", P3) }

Conflicting ==
  { Summary(6, "g1", "b", "x", P1),      \* second event of member b
    Summary(4, "g1", "c", "y", P1),      \* id 4 in another group
    Summary(7, "g1", "b", "x", P1Late) } \* another policy for g1

MCSubmissions == Honest \cup Conflicting
HonestSubmissions == Honest
=============================================================================
