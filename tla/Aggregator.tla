----------------------------- MODULE Aggregator -----------------------------
(***************************************************************************)
(* The cloud's durable event-time join: MultiEdgeEventAggregator (one row  *)
(* per group and one row per accepted edge summary, both in SQLite) and    *)
(* the flush workers of CloudApiService that claim the groups that are     *)
(* due, coordinate them as one batch and commit or release them.           *)
(*                                                                         *)
(* Every method of the aggregator runs under its lock and in one SQLite    *)
(* transaction, so it is one action.  What interleaves is the life of a    *)
(* lease: between claim_due and complete_many the model runs without any   *)
(* lock, and summaries, other workers and a crash can come in between.     *)
(*                                                                         *)
(* Abstractions: a summary is a record [id, group, member, payload,        *)
(* policy]; times are two booleans, the group's deadline has passed        *)
(* (expired) and its retry delay is still running (backoff); a             *)
(* coordination result keeps the summaries it was computed from, its       *)
(* finality, confirmation and revision.                                    *)
(***************************************************************************)
EXTENDS Naturals, FiniteSets

CONSTANTS
  Groups,       \* aggregation group ids
  Members,      \* edge nodes that may contribute to a group
  Submissions,  \* the summaries edges may send, conflicting ones included
  Workers,      \* threads that flush: the background worker, /flush requests
  BatchLimit,   \* claim_due's limit (64 in the code)
  BadGroups,    \* groups whose coordination always raises
  MayCrash,     \* whether the cloud process may stop and start again
  NoPolicy      \* the policy of a group that has no row

Policies == { s.policy : s \in Submissions }

ASSUME SubmissionsAssumption ==
  \A s \in Submissions :
    /\ s = [id |-> s.id, group |-> s.group, member |-> s.member,
            payload |-> s.payload, policy |-> s.policy]
    /\ s.group \in Groups
    /\ s.policy.expected \subseteq Members
    /\ s.policy.minimum \in 1 .. Cardinality(s.policy.expected)
    /\ s.member \in s.policy.expected

ASSUME MembersAssumption == IsFiniteSet(Members)

ASSUME NoPolicyAssumption == NoPolicy \notin Policies

VARIABLES
  gstate,    \* group -> state column ("absent": no row)
  policy,    \* group -> expected members, minimum and timeout of the row
  reason,    \* group -> completion_reason column
  revision,  \* group -> result_revision column
  claimed,   \* group -> claimed_member_count column
  result,    \* group -> result_json column
  expired,   \* group -> deadline_at_ms has passed
  backoff,   \* group -> next_attempt_at_ms lies in the future
  rows,      \* the aggregation_events table
  batches,   \* worker -> the batches of leases it still has to coordinate
  acked      \* history: the submissions answered without an error

dbVars == <<gstate, policy, reason, revision, claimed, result, rows>>
timeVars == <<expired, backoff>>
vars == <<dbVars, timeVars, batches, acked>>

AllExpected == "all_expected_members"
TimedOut == "timeout_with_partial_members"

Leases == [group : Groups, events : SUBSET Submissions,
           reason : {AllExpected, TimedOut}, revision : Nat]
NoResult == [events |-> {}, finality |-> "none", confirmed |-> FALSE, revision |-> 0]
Results == [events : SUBSET Submissions, finality : {"final", "partial_final"},
            confirmed : BOOLEAN, revision : Nat]

RowsOf(g) == { s \in rows : s.group = g }
MembersIn(S) == { s.member : s \in S }

TypeOK ==
  /\ gstate \in [Groups -> {"absent", "waiting", "inflight", "completed"}]
  /\ policy \in [Groups -> Policies \cup {NoPolicy}]
  /\ reason \in [Groups -> {"", AllExpected, TimedOut}]
  /\ revision \in [Groups -> Nat]
  /\ claimed \in [Groups -> Nat]
  /\ result \in [Groups -> Results \cup {NoResult}]
  /\ expired \in [Groups -> BOOLEAN]
  /\ backoff \in [Groups -> BOOLEAN]
  /\ rows \subseteq Submissions
  /\ batches \in [Workers -> SUBSET (SUBSET Leases)]
  /\ acked \subseteq Submissions

Init ==
  /\ gstate = [g \in Groups |-> "absent"]
  /\ policy = [g \in Groups |-> NoPolicy]
  /\ reason = [g \in Groups |-> ""]
  /\ revision = [g \in Groups |-> 0]
  /\ claimed = [g \in Groups |-> 0]
  /\ result = [g \in Groups |-> NoResult]
  /\ expired = [g \in Groups |-> FALSE]
  /\ backoff = [g \in Groups |-> FALSE]
  /\ rows = {}
  /\ batches = [w \in Workers |-> {}]
  /\ acked = {}

-----------------------------------------------------------------------------
(* submit.  A conflict raises and the transaction, the insertion of a new  *)
(* group row included, is rolled back: nothing changes.                    *)

PolicyMismatch(s) == gstate[s.group] # "absent" /\ policy[s.group] # s.policy

MemberTaken(s) == \E r \in RowsOf(s.group) : r.member = s.member /\ r # s

IdReused(s) == \E r \in rows : r.id = s.id /\ r # s

\* Mutant: the check for a second event of the same member is forgotten.
ConflictWithoutMemberCheck(s) == PolicyMismatch(s) \/ IdReused(s)

Conflict(s) == PolicyMismatch(s) \/ MemberTaken(s) \/ IdReused(s)

\* A group confirmed with every member takes no further summary.
Closed(g) == gstate[g] = "completed" /\ reason[g] = AllExpected

Reopens(g) == gstate[g] = "completed" /\ reason[g] # AllExpected

\* The exact retry of a stored summary and a summary for a closed group are
\* answered with the group's current view and write nothing.
SubmitNoop(s) ==
  /\ ~Conflict(s)
  /\ s \in rows \/ Closed(s.group)
  /\ acked' = acked \cup {s}
  /\ UNCHANGED <<dbVars, timeVars, batches>>

SubmitStore(s) ==
  LET g == s.group IN
  /\ ~Conflict(s)
  /\ s \notin rows
  /\ ~Closed(g)
  /\ rows' = rows \cup {s}
  /\ policy' = [policy EXCEPT ![g] = s.policy]
  /\ gstate' = [gstate EXCEPT ![g] = IF @ = "absent" \/ Reopens(g) THEN "waiting" ELSE @]
  /\ reason' = [reason EXCEPT ![g] = IF Reopens(g) THEN "" ELSE @]
  /\ claimed' = [claimed EXCEPT ![g] = IF Reopens(g) THEN 0 ELSE @]
  /\ backoff' = [backoff EXCEPT ![g] = FALSE]
  /\ acked' = acked \cup {s}
  /\ UNCHANGED <<revision, result, expired, batches>>

Submit(s) == SubmitNoop(s) \/ SubmitStore(s)

-----------------------------------------------------------------------------
(* claim_due.                                                              *)

Complete(g) == policy[g].expected \subseteq MembersIn(RowsOf(g))

MinimumMet(g) == Cardinality(MembersIn(RowsOf(g))) >= policy[g].minimum

\* Mutant of Due: the timeout never closes a group.
DueWhenCompleteOnly(g) == gstate[g] = "waiting" /\ ~backoff[g] /\ Complete(g)

Due(g) ==
  /\ gstate[g] = "waiting"
  /\ ~backoff[g]
  /\ Complete(g) \/ (expired[g] /\ MinimumMet(g))

ClaimReason(g) == IF Complete(g) THEN AllExpected ELSE TimedOut

\* Mutant of LeaseOf: a group that is opened again is coordinated from the
\* summaries that are new.
LeaseOfNewcomers(g) == [group |-> g, events |-> RowsOf(g) \ result[g].events,
                        reason |-> ClaimReason(g), revision |-> revision[g] + 1]

LeaseOf(g) == [group |-> g, events |-> RowsOf(g), reason |-> ClaimReason(g),
               revision |-> revision[g] + 1]

\* The groups one claim_due takes: at most the limit, groups past their
\* deadline first.
Claimable(G) ==
  /\ G # {}
  /\ \A g \in G : Due(g)
  /\ Cardinality(G) <= BatchLimit
  /\ \A h \in Groups \ G :
       Due(h) => /\ Cardinality(G) = BatchLimit
                 /\ expired[h] => \A g \in G : expired[g]

ClaimDue(w) ==
  /\ batches[w] = {}
  /\ \E G \in SUBSET Groups :
       /\ Claimable(G)
       /\ batches' = [batches EXCEPT ![w] = {{LeaseOf(g) : g \in G}}]
       /\ gstate' = [g \in Groups |-> IF g \in G THEN "inflight" ELSE gstate[g]]
       /\ reason' = [g \in Groups |-> IF g \in G THEN ClaimReason(g) ELSE reason[g]]
       /\ claimed' = [g \in Groups |-> IF g \in G
                                       THEN Cardinality(MembersIn(RowsOf(g)))
                                       ELSE claimed[g]]
  /\ UNCHANGED <<policy, revision, result, rows, timeVars, acked>>

-----------------------------------------------------------------------------
(* Coordination of one batch, complete_many and release.                   *)

\* Mutant: members that arrive while a lease is out are not noticed.
NothingArrivesDuringClaim(g) == FALSE

ArrivedDuringClaim(g) == Cardinality(MembersIn(RowsOf(g))) > claimed[g]

\* Mutant: completeness is read from the table when the batch commits.
EvidenceCompleteByNow(l) == Complete(l.group)

\* Finality is decided from the lease, whatever the table holds by now.
EvidenceComplete(l) ==
  /\ l.reason = AllExpected
  /\ policy[l.group].expected \subseteq MembersIn(l.events)

\* Mutant: a complete group whose members disagree is marked partial.
MarkFinalityByConfirmation(l, consistent) ==
  [events |-> l.events,
   finality |-> IF EvidenceComplete(l) /\ consistent THEN "final" ELSE "partial_final",
   confirmed |-> EvidenceComplete(l) /\ consistent,
   revision |-> l.revision]

MarkFinality(l, consistent) ==
  [events |-> l.events,
   finality |-> IF EvidenceComplete(l) THEN "final" ELSE "partial_final",
   confirmed |-> EvidenceComplete(l) /\ consistent,
   revision |-> l.revision]

GroupsOf(B) == { l.group : l \in B }

\* The batch commits as a whole; a group that gained members since the claim
\* keeps the result and goes back to waiting.
CompleteBatch(w, B) ==
  /\ B \in batches[w]
  /\ GroupsOf(B) \cap BadGroups = {}
  /\ \A l \in B : gstate[l.group] = "inflight"
  /\ \E consistent \in [GroupsOf(B) -> BOOLEAN] :
       result' = [g \in Groups |->
                    IF g \in GroupsOf(B)
                    THEN MarkFinality(CHOOSE l \in B : l.group = g, consistent[g])
                    ELSE result[g]]
  /\ gstate' = [g \in Groups |->
                  IF g \in GroupsOf(B)
                  THEN IF ArrivedDuringClaim(g) THEN "waiting" ELSE "completed"
                  ELSE gstate[g]]
  /\ reason' = [g \in Groups |->
                  IF g \in GroupsOf(B) /\ ArrivedDuringClaim(g) THEN "" ELSE reason[g]]
  /\ revision' = [g \in Groups |-> IF g \in GroupsOf(B) THEN revision[g] + 1 ELSE revision[g]]
  /\ claimed' = [g \in Groups |-> IF g \in GroupsOf(B) THEN 0 ELSE claimed[g]]
  /\ backoff' = [g \in Groups |-> IF g \in GroupsOf(B) THEN FALSE ELSE backoff[g]]
  /\ batches' = [batches EXCEPT ![w] = @ \ {B}]
  /\ UNCHANGED <<policy, rows, expired, acked>>

\* Mutant: a batch that fails is kept whole and tried again as it is.
SplitBatchNever(w, B) == FALSE

\* Any exception of the model, the plugin or the commit: a batch of several
\* groups is halved and each half is tried again.
SplitBatch(w, B) ==
  /\ B \in batches[w]
  /\ \E L \in SUBSET B :
       /\ Cardinality(L) = Cardinality(B) \div 2
       /\ L # {}
       /\ batches' = [batches EXCEPT ![w] = (@ \ {B}) \cup {L, B \ L}]
  /\ UNCHANGED <<dbVars, timeVars, acked>>

\* A single group that fails is released: at once when it gained members
\* since the claim, after a delay otherwise.
ReleaseGroup(w, B) ==
  /\ B \in batches[w]
  /\ \E l \in B :
       LET g == l.group IN
       /\ B = {l}
       /\ IF gstate[g] = "inflight"
          THEN /\ gstate' = [gstate EXCEPT ![g] = "waiting"]
               /\ backoff' = [backoff EXCEPT ![g] = ~ArrivedDuringClaim(g)]
               /\ claimed' = [claimed EXCEPT ![g] = 0]
          ELSE UNCHANGED <<gstate, backoff, claimed>>
  /\ batches' = [batches EXCEPT ![w] = @ \ {B}]
  /\ UNCHANGED <<policy, reason, revision, result, rows, expired, acked>>

-----------------------------------------------------------------------------
(* Time and the process.                                                   *)

DeadlinePasses(g) ==
  /\ gstate[g] # "absent"
  /\ ~expired[g]
  /\ expired' = [expired EXCEPT ![g] = TRUE]
  /\ UNCHANGED <<dbVars, backoff, batches, acked>>

BackoffElapses(g) ==
  /\ backoff[g]
  /\ backoff' = [backoff EXCEPT ![g] = FALSE]
  /\ UNCHANGED <<dbVars, expired, batches, acked>>

\* The process stops and starts again: the leases are gone, and reopening
\* the database creates missing tables and columns but touches no group.
CrashAndRestart ==
  /\ MayCrash
  /\ batches' = [w \in Workers |-> {}]
  /\ UNCHANGED <<dbVars, timeVars, acked>>

WorkOn(w, B) == CompleteBatch(w, B) \/ SplitBatch(w, B) \/ ReleaseGroup(w, B)

WorkerStep(w) == ClaimDue(w) \/ \E B \in batches[w] : WorkOn(w, B)

Next ==
  \/ \E s \in Submissions : Submit(s)
  \/ \E w \in Workers : WorkerStep(w)
  \/ \E g \in Groups : DeadlinePasses(g) \/ BackoffElapses(g)
  \/ CrashAndRestart

Spec == Init /\ [][Next]_vars

CompleteGroup(g) == \E w \in Workers : \E B \in batches[w] :
                      g \in GroupsOf(B) /\ CompleteBatch(w, B)

\* The flush worker polls every 50 ms and never stops while the process
\* lives, clocks advance, and a coordination that is tried again and again
\* does not fail every time unless the group itself is bad.
Fairness ==
  /\ \A w \in Workers : WF_vars(WorkerStep(w))
  /\ \A g \in Groups : WF_vars(DeadlinePasses(g)) /\ WF_vars(BackoffElapses(g))
  /\ \A g \in Groups \ BadGroups : SF_vars(CompleteGroup(g))

FairSpec == Spec /\ Fairness

-----------------------------------------------------------------------------
(* The view GET /aggregations and the result batch give of a group.        *)

ViewComplete(g) ==
  /\ gstate[g] = "completed"
  /\ reason[g] = AllExpected
  /\ Complete(g)

Finality(g) ==
  IF gstate[g] = "completed" /\ result[g] # NoResult
  THEN IF ViewComplete(g) THEN "final" ELSE "partial_final"
  ELSE "pending"

Confirmed(g) == ViewComplete(g) /\ result[g] # NoResult /\ result[g].confirmed

(* The abstract join: what was accepted is what the table holds, and a     *)
(* publication is seen through the view.                                   *)
View(g) == [events |-> result[g].events, revision |-> result[g].revision,
            shown |-> Finality(g)]

Join == INSTANCE GroupJoin WITH accepted <- rows,
                                published <- [g \in Groups |-> View(g)]

\* What an edge makes of the group's view when it looks for the decision on
\* its own summary: the retained result is searched whatever the state of the
\* group, and only complete evidence makes it final.
AnswerTo(s) ==
  IF s \notin rows THEN "unknown"
  ELSE IF s \notin result[s.group].events THEN "held"
  ELSE IF Finality(s.group) = "final" THEN "final" ELSE "partial"

Answer(s) == INSTANCE CloudAnswer WITH answer <- AnswerTo(s)

(***************************************************************************)
(* Properties.                                                             *)
(***************************************************************************)

\* A group shown as final carries a result that was computed from a summary
\* of every expected member and that says so itself, although the view is
\* assembled from the row and the result from an earlier lease.
FinalCoversEveryMember ==
  \A g \in Groups :
    Finality(g) = "final" \/ Confirmed(g) =>
      /\ MembersIn(result[g].events) = policy[g].expected
      /\ result[g].finality = "final"

\* No stored result, whatever the state of its group, claims global
\* confirmation or finality on part of the evidence.
NoUnsupportedConfirmation ==
  \A g \in Groups :
    result[g] # NoResult /\ (result[g].confirmed \/ result[g].finality = "final") =>
      policy[g].expected \subseteq MembersIn(result[g].events)

\* A group at rest has used everything it was sent: a summary that came in
\* while a lease was out, or after a partial result, is never left behind in
\* a completed group.
NoStrandedEvidence ==
  \A g \in Groups :
    gstate[g] = "completed" =>
      result[g] # NoResult /\ result[g].events = RowsOf(g)

\* A summary answered without an error is in the durable table, although
\* submit answers a closed group without storing anything.
AckedIsStored == acked \subseteq rows

\* At most one live lease exists for a group, and only for an inflight one:
\* two flushers never coordinate the same group.
LeaseIsExclusive ==
  \A v, w \in Workers : \A B \in batches[v], C \in batches[w] : \A l \in B, k \in C :
    l.group = k.group => v = w /\ B = C /\ l = k /\ gstate[l.group] = "inflight"

\* A published result is replaced only by one with the next revision that
\* has seen at least the same summaries, and its revision is the row's.
RevisionsOnlyImprove ==
  [][\A g \in Groups :
       result'[g] # result[g] =>
         /\ result'[g].revision = revision'[g]
         /\ revision'[g] = revision[g] + 1
         /\ result[g] # NoResult => result[g].events \subseteq result'[g].events]_vars

\* Once a group has been shown as final nothing about it changes any more.
FinalIsForever ==
  [][\A g \in Groups :
       Finality(g) = "final" =>
         /\ Finality(g)' = "final"
         /\ result'[g] = result[g]
         /\ revision'[g] = revision[g]]_vars

\* Seen through the view, the leases, retries, late summaries and restarts of
\* the implementation are steps of the abstract join or invisible.
ImplementsGroupJoin == Join!JoinSpec

\* To an edge that asks about its summary the cloud never goes back: what was
\* accepted stays known, a partial decision stays until a better one, although
\* the group is opened again by later summaries, and a final one stays for
\* ever (submit, complete_many, get).
AnswersNeverGoBack ==
  /\ \A s \in Submissions : Answer(s)!AnswerInit
  /\ [][\A s \in Submissions : Answer(s)!AnswerNext \/ UNCHANGED AnswerTo(s)]_vars

\* A restart while a lease is out leaves the group inflight with nobody to
\* finish it (see RestartRecoversInflightGroups).
Stranded(g) ==
  /\ gstate[g] = "inflight"
  /\ \A w \in Workers : \A B \in batches[w] : g \notin GroupsOf(B)

\* A group that has a summary of every expected member becomes final, even
\* when its first leases fail or it shares a batch with a group that can
\* never be coordinated, unless a restart strands it.
CompleteGroupBecomesFinal ==
  \A g \in Groups \ BadGroups :
    (gstate[g] # "absent" /\ Complete(g)) ~> (Finality(g) = "final" \/ Stranded(g))

\* A group that reached its minimum gets a result even if the others never
\* send theirs: the deadline ends the wait, unless a restart strands it.
MinimumGetsResult ==
  \A g \in Groups \ BadGroups :
    (gstate[g] # "absent" /\ MinimumMet(g)) ~> (Finality(g) # "pending" \/ Stranded(g))

\* The README (line 133) says that the aggregation state is recovered from
\* SQLite after a restart: a group that was being coordinated does not stay
\* inflight for ever.
RestartRecoversInflightGroups ==
  \A g \in Groups : gstate[g] = "inflight" ~> gstate[g] # "inflight"
=============================================================================
