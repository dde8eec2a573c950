--------------------------- MODULE CertifiedRelease ---------------------------
(***************************************************************************)
(* What a node promises those who read its release files, without writes   *)
(* that fail, journals, recoveries and fallbacks: the runtime outputs of   *)
(* all scenes change together; they change, and a server is started, only  *)
(* while there is no receipt; and a receipt is issued for a revision whose *)
(* outputs are in place and beside which no other server runs.             *)
(***************************************************************************)
EXTENDS Naturals

CONSTANTS Scenes, None

VARIABLES
    latest,     \* the number of revisions the store has seen
    runtime,    \* [Scenes -> the revision its output is made for]
    server,     \* the revision of the running server
    receipt     \* the revision that is certified

releaseVars == <<latest, runtime, server, receipt>>

All(n) == [s \in Scenes |-> n]

ReleaseInit ==
    /\ latest = 1
    /\ runtime = All(None)
    /\ server = None
    /\ receipt = None

Activate ==
    /\ latest' = latest + 1
    /\ UNCHANGED <<runtime, server, receipt>>

StartServer(n) ==
    /\ server' = n
    /\ receipt' = None
    /\ UNCHANGED <<latest, runtime>>

StopServer ==
    /\ server' = None
    /\ UNCHANGED <<latest, runtime, receipt>>

Withdraw ==
    /\ receipt' = None
    /\ UNCHANGED <<latest, runtime, server>>

Alone(n) == server \in {None, n}

Switch(n) ==
    /\ receipt = None
    /\ Alone(n)
    /\ runtime' = All(n)
    /\ UNCHANGED <<latest, server, receipt>>

Certify(n) ==
    /\ runtime = All(n)
    /\ Alone(n)
    /\ receipt' = n
    /\ UNCHANGED <<latest, runtime, server>>

ReleaseNext ==
    \/ Activate \/ StopServer \/ Withdraw
    \/ \E n \in 1 .. latest : StartServer(n) \/ Switch(n) \/ Certify(n)

ReleaseSpec == ReleaseInit /\ [][ReleaseNext]_releaseVars
=============================================================================
