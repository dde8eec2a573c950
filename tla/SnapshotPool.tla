----------------------------- MODULE SnapshotPool -----------------------------
(***************************************************************************)
(* What the plugin manager promises its requests, without generations,     *)
(* counts, locks and threads: a request works with the snapshot that was   *)
(* current when it began; a snapshot becomes current once, when it is new, *)
(* and is closed once, when it is current no longer and, in a service that *)
(* has not been stopped, no request works with it.                         *)
(***************************************************************************)
EXTENDS Naturals

CONSTANTS Requests, Snapshots, None

VARIABLES
    current,    \* the snapshot new requests get
    newest,     \* the last one that has become current
    using,      \* the snapshot of each request
    closed,     \* how often each snapshot has been closed
    stopped     \* the service has been closed

poolVars == <<current, newest, using, closed, stopped>>

PoolInit ==
    /\ current = 1 /\ newest = 1
    /\ using = [r \in Requests |-> None]
    /\ closed = [s \in Snapshots |-> 0]
    /\ stopped = FALSE

Use(r) ==
    /\ using[r] = None /\ current # None
    /\ using' = [using EXCEPT ![r] = current]
    /\ UNCHANGED <<current, newest, closed, stopped>>

Finish(r) ==
    /\ using[r] # None
    /\ using' = [using EXCEPT ![r] = None]
    /\ UNCHANGED <<current, newest, closed, stopped>>

Replace ==
    /\ newest + 1 \in Snapshots
    /\ newest' = newest + 1
    /\ current' = newest'
    /\ UNCHANGED <<using, closed, stopped>>

Close(s) ==
    /\ s <= newest /\ s # current
    /\ stopped \/ \A r \in Requests : using[r] # s
    /\ closed[s] = 0
    /\ closed' = [closed EXCEPT ![s] = 1]
    /\ UNCHANGED <<current, newest, using, stopped>>

Stop ==
    /\ ~stopped
    /\ stopped' = TRUE
    /\ current' = None
    /\ UNCHANGED <<newest, using, closed>>

PoolNext ==
    \/ \E r \in Requests : Use(r) \/ Finish(r)
    \/ \E s \in Snapshots : Close(s)
    \/ Replace \/ Stop

PoolSpec == PoolInit /\ [][PoolNext]_poolVars
=============================================================================
