----------------------------- MODULE CloudAnswer -----------------------------
(***************************************************************************)
(* What the cloud answers an edge that asks about one of its summaries, as *)
(* the edge reads it: nothing is known of the summary, it is held, there   *)
(* is a decision on part of its group, or the final one.  The aggregator   *)
(* keeps to this for every summary, and ReviewDelivery is modelled with a  *)
(* cloud that does.                                                        *)
(***************************************************************************)
VARIABLE answer

AnswerInit == answer = "unknown"

Hold == answer = "unknown" /\ answer' = "held"

Decide == answer \in {"held", "partial"} /\ answer' \in {"partial", "final"}

AnswerNext == Hold \/ Decide

AnswerSpec == AnswerInit /\ [][AnswerNext]_answer
=============================================================================
