----------------------------- MODULE AnswerOnce -----------------------------
(***************************************************************************)
(* What an idempotency key promises the callers that share it: the key is  *)
(* bound to one request; the first answer is stored and every repeat is    *)
(* given it; a different request is refused.  The binding ends only when   *)
(* the key is forgotten (time to live, capacity) or its attempt failed.    *)
(***************************************************************************)
CONSTANTS
    Requests,     \* the callers of this key
    PayloadFor,   \* the payload each of them sends
    NoPayload, NoAnswer

VARIABLES
    bound,        \* the payload the key is bound to
    answer,       \* the caller whose answer is stored
    result        \* what each caller has been told

vars == <<bound, answer, result>>

Untold == [kind |-> "none"]
Told(c) == [kind |-> "answered", by |-> c]

Tell(c, told) ==
    /\ result[c] = Untold
    /\ result' = [result EXCEPT ![c] = told]

\* The key is free, or holds the answer to an earlier request.
Init ==
    \/ /\ bound = NoPayload
       /\ answer = NoAnswer
       /\ result = [c \in Requests |-> Untold]
    \/ \E c \in Requests :
         /\ bound = PayloadFor[c]
         /\ answer = c
         /\ result = [d \in Requests |-> IF d = c THEN Told(c) ELSE Untold]

\* A request takes a free key, or one whose answer is forgotten with this.
Bind(c) ==
    /\ bound = NoPayload \/ answer # NoAnswer
    /\ bound' = PayloadFor[c]
    /\ answer' = NoAnswer
    /\ UNCHANGED result

Forget ==
    /\ bound' = NoPayload
    /\ answer' = NoAnswer
    /\ UNCHANGED result

\* The first answer; it may be evicted at once.
Answer(c) ==
    /\ bound = PayloadFor[c]
    /\ answer = NoAnswer
    /\ Tell(c, Told(c))
    /\ \/ bound' = bound /\ answer' = c
       \/ bound' = NoPayload /\ answer' = NoAnswer

Repeat(c) ==
    /\ bound = PayloadFor[c]
    /\ answer # NoAnswer
    /\ Tell(c, [kind |-> "replayed", by |-> answer])
    /\ UNCHANGED <<bound, answer>>

Refuse(c) ==
    /\ bound # NoPayload
    /\ bound # PayloadFor[c]
    /\ Tell(c, [kind |-> "refused"])
    /\ UNCHANGED <<bound, answer>>

\* A failed attempt frees the key if it is not answered yet.
Fail(c) ==
    /\ Tell(c, [kind |-> "failed"])
    /\ \/ UNCHANGED <<bound, answer>>
       \/ answer = NoAnswer /\ bound' = NoPayload /\ answer' = NoAnswer

Next ==
    \/ Forget
    \/ \E c \in Requests :
         Bind(c) \/ Answer(c) \/ Repeat(c) \/ Refuse(c) \/ Fail(c)

Spec == Init /\ [][Next]_vars

=============================================================================
