---------------------------- MODULE MCIdempotency ----------------------------
(***************************************************************************)
(* c1, c2 and c3 use one key from two processes, c3 with another payload;  *)
(* the operation of c2 may outlast its lease.  The answer of c4 on another *)
(* key is in the table from before and fills the cache.                    *)
(***************************************************************************)
EXTENDS Idempotency

MCKeyOf == [c \in Calls |-> IF c = "c4" THEN "k2" ELSE "k1"]
MCPayloadOf == [c \in Calls |-> IF c = "c3" THEN "b" ELSE "a"]
MCProcessOf == [c \in Calls |-> IF c \in {"c1", "c4"} THEN "p1" ELSE "p2"]

=============================================================================
