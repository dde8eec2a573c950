----------------------------- MODULE MCFileBridge -----------------------------
(***************************************************************************)
(* A small instance of FileBridge.  The second file repeats the id of the  *)
(* first with another body; the third, whose event the edge refuses, is    *)
(* written in place and uses the name of the second before or after it.    *)
(***************************************************************************)
EXTENDS FileBridge, TLC

E1 == [id |-> 1, body |-> "x"]
E1Other == [id |-> 1, body |-> "y"]
E2 == [id |-> 2, body |-> "x"]

MCEvents == {E1, E1Other, E2}
MCNameOf == "f1" :> "n1" @@ "f2" :> "n2" @@ "f3" :> "n2"
MCEventOf == "f1" :> E1 @@ "f2" :> E1Other @@ "f3" :> E2
MCRefused == {E2}
=============================================================================
