---------------------------- MODULE VodRequests ----------------------------
(***************************************************************************)
(* Video-on-demand requests of one user and one media type, against the    *)
(* quota that the user's subscriptions give.                               *)
(*                                                                         *)
(* The quota is kept twice: as counters in the user's row                  *)
(* (vod_movie_limit, vod_movie_used), which the handlers check, and as the *)
(* requests that name a subscription and have quota_consumed set, which    *)
(* every recomputation of the entitlements counts.  Creation and approval  *)
(* check the quota, wait for MoviePilot, and take the quota afterwards.    *)
(*                                                                         *)
(* Subscriptions are numbers in the order in which they end; the code      *)
(* prefers the one that ends first.                                        *)
(***************************************************************************)
EXTENDS Integers, FiniteSets, FiniteSetsExt

CONSTANTS
    Request,        \* identities of requests
    Subscription,   \* an initial segment 1 .. n
    Times,          \* quota of each subscription: vod_movie_times of its plan
    Entered,        \* numbers an admin may enter for a counter
    Session,        \* handlers that can be in flight
    Overlaps        \* pairs of handlers that may be in flight together

Handler == {"create", "approve", "recount", "edit", "detect"}

ASSUME RequestsAssumption ==
    /\ IsFiniteSet(Request) /\ IsFiniteSet(Subscription)
    /\ Subscription \subseteq Nat
    /\ Times \in [Subscription -> Nat] /\ Entered \subseteq Int
    /\ Overlaps \subseteq SUBSET Handler

Accepted == {"APPROVED", "QUEUED", "DOWNLOADING", "SUCCEEDED"}
Status   == Accepted \cup {"none", "PENDING", "FAILED", "REJECTED"}

VARIABLES
    request,        \* rows of vod_requests; status "none" for no row
    limit, used,    \* the counters in the user's row
    sub,            \* none, running, lapsed (ended, still marked ACTIVE), over or gone
    autoApprove,    \* vod_settings.auto_approve
    session,        \* what each handler in flight has read
    overlapped,     \* history: a handler ran while another was in flight
    edited          \* history: plans or counters changed since the last count

vars == <<request, limit, used, sub, autoApprove, session, overlapped, edited>>

Stage == {"none", "running", "lapsed", "over", "gone"}

RequestRow == [status : Status, held : BOOLEAN, of : Subscription \cup {0}]

NoRow == [status |-> "none", held |-> FALSE, of |-> 0]
Idle  == [op |-> "idle", on |-> {}, row |-> NoRow, of |-> 0, limit |-> 0, used |-> 0,
          newLimit |-> 0, newUsed |-> 0, granted |-> {}, ended |-> {}]

-----------------------------------------------------------------------------
(* What a query finds *)

Rows      == {r \in Request : request[r].status # "none"}
Waiting   == {r \in Request : request[r].status \in {"APPROVED", "QUEUED", "DOWNLOADING"}}
Running   == {s \in Subscription : sub[s] = "running"}
Marked    == {s \in Subscription : sub[s] \in {"running", "lapsed"}}   \* status ACTIVE
Known     == {s \in Subscription : sub[s] \in {"running", "lapsed", "over"}}
HeldOf(s) == {r \in Request : request[r].held /\ request[r].of = s}
\* Faulty: a subscription is used once more when its quota is full.
WithQuotaOrFull == {s \in Running : Cardinality(HeldOf(s)) <= Times[s]}
WithQuota == {s \in Running : Cardinality(HeldOf(s)) < Times[s]}

Quota(S) == MapThenSumSet(LAMBDA s : Times[s], S)
Usage(S) == MapThenSumSet(LAMBDA s : Cardinality(HeldOf(s)), S)

CheckQuota == limit > 0 /\ used < limit

-----------------------------------------------------------------------------
(* Handlers in flight *)

Busy == {x \in Session : session[x].op # "idle"}

Begin(x, view) ==
    /\ session[x] = Idle
    /\ \A y \in Busy : {view.op, session[y].op} \in Overlaps
    /\ session' = [session EXCEPT ![x] = view]
    /\ overlapped' = (overlapped \/ Busy # {})

End(x) ==
    /\ session' = [session EXCEPT ![x] = Idle]
    /\ UNCHANGED <<autoApprove, overlapped>>

\* The unit of work sends a column only if the session changed it.
Written(loaded, new, row) == IF new = loaded THEN row ELSE new

\* MoviePilot took the request: the session counts one more use than it read.
TakeQuota(x, r, row) ==
    /\ request' = [request EXCEPT ![r] = row]
    /\ used' = session[x].used + 1

-----------------------------------------------------------------------------
(* The user *)

\* create_vod_request: the row is committed before MoviePilot is asked, which
\* happens only if requests are approved automatically.
Create(x, r) ==
    /\ r \notin Rows /\ \A y \in Session : r \notin session[y].on
    /\ Running # {} /\ CheckQuota
    /\ request' = [request EXCEPT ![r] = [NoRow EXCEPT !.status = "PENDING"]]
    /\ IF autoApprove
       THEN Begin(x, [Idle EXCEPT !.op = "create", !.on = {r}, !.used = used,
                                  !.of = Max(Running)])
       ELSE UNCHANGED <<session, overlapped>>
    /\ UNCHANGED <<limit, used, sub, autoApprove, edited>>

CreateAccepted(x) ==
    /\ session[x].op = "create"
    /\ WithQuota # {}
    /\ \E r \in session[x].on \cap Rows, st \in Accepted :
           TakeQuota(x, r, [status |-> st, held |-> TRUE, of |-> Min(WithQuota)])
    /\ End(x)
    /\ UNCHANGED <<limit, sub, edited>>

\* Faulty: the exception handler keeps the status the answer gave.
CreateUnfundedKept(x) ==
    /\ session[x].op = "create"
    /\ WithQuota = {}
    /\ \E r \in session[x].on \cap Rows :
           TakeQuota(x, r, [request[r] EXCEPT !.status = "APPROVED", !.of = session[x].of])
    /\ End(x)
    /\ UNCHANGED <<limit, sub, edited>>

\* _consume_quota finds no subscription after it has counted the use: the
\* exception handler commits the count with the failed request.
CreateUnfunded(x) ==
    /\ session[x].op = "create"
    /\ WithQuota = {}
    /\ \E r \in session[x].on \cap Rows :
           TakeQuota(x, r, [request[r] EXCEPT !.status = "FAILED", !.of = session[x].of])
    /\ End(x)
    /\ UNCHANGED <<limit, sub, edited>>

CreateRefused(x) ==
    /\ session[x].op = "create"
    /\ \E r \in session[x].on \cap Rows :
           request' = [request EXCEPT ![r].status = "FAILED"]
    /\ End(x)
    /\ UNCHANGED <<limit, used, sub, edited>>

\* delete_vod_request, and batch_delete_vod_requests by an admin
Delete(R) ==
    /\ R # {} /\ R \subseteq Rows
    /\ request' = [r \in Request |-> IF r \in R THEN NoRow ELSE request[r]]
    /\ overlapped' = (overlapped \/ Busy # {})
    /\ UNCHANGED <<limit, used, sub, autoApprove, session, edited>>

-----------------------------------------------------------------------------
(* The admin *)

\* Faulty: what was rejected can be approved.
ApproveAnything(x, r) ==
    /\ request[r].status \in {"PENDING", "FAILED", "REJECTED"}
    /\ CheckQuota /\ WithQuota # {}
    /\ Begin(x, [Idle EXCEPT !.op = "approve", !.on = {r}, !.row = request[r],
                             !.used = used, !.of = Min(WithQuota)])
    /\ UNCHANGED <<request, limit, used, sub, autoApprove, edited>>

\* approve_vod_request chooses the subscription before it asks MoviePilot.
Approve(x, r) ==
    /\ request[r].status \in {"PENDING", "FAILED"}
    /\ CheckQuota /\ WithQuota # {}
    /\ Begin(x, [Idle EXCEPT !.op = "approve", !.on = {r}, !.row = request[r],
                             !.used = used, !.of = Min(WithQuota)])
    /\ UNCHANGED <<request, limit, used, sub, autoApprove, edited>>

\* Faulty: the approval names the subscription and counts no use.
ApproveUncounted(x) ==
    /\ session[x].op = "approve"
    /\ \E r \in session[x].on \cap Rows, st \in Accepted :
           request' = [request EXCEPT ![r] = [status |-> st, held |-> TRUE, of |-> session[x].of]]
    /\ End(x)
    /\ UNCHANGED <<limit, used, sub, edited>>

ApproveAccepted(x) ==
    /\ session[x].op = "approve"
    /\ \E r \in session[x].on \cap Rows, st \in Accepted :
           TakeQuota(x, r, [status |-> st, held |-> TRUE,
                            of |-> Written(session[x].row.of, session[x].of, request[r].of)])
    /\ End(x)
    /\ UNCHANGED <<limit, sub, edited>>

ApproveRefused(x) ==
    /\ session[x].op = "approve"
    /\ \E r \in session[x].on \cap Rows :
           request' = [request EXCEPT ![r].status = Written(session[x].row.status, "FAILED", @)]
    /\ End(x)
    /\ UNCHANGED <<limit, used, sub, edited>>

\* reject_vod_request looks at neither the status nor the quota.
Reject(r) ==
    /\ r \in Rows
    /\ request' = [request EXCEPT ![r].status = "REJECTED"]
    /\ overlapped' = (overlapped \/ Busy # {})
    /\ UNCHANGED <<limit, used, sub, autoApprove, session, edited>>

UpdateSettings ==
    /\ autoApprove' = ~autoApprove
    /\ UNCHANGED <<request, limit, used, sub, session, overlapped, edited>>

-----------------------------------------------------------------------------
(* Subscriptions and jobs *)

Lapse(s) ==
    /\ s \in Running /\ s = Min(Running)
    /\ sub' = [sub EXCEPT ![s] = "lapsed"]
    /\ UNCHANGED <<request, limit, used, autoApprove, session, overlapped, edited>>

\* Every handler that grants or ends a subscription, and the expiry job, runs
\* sync_user_subscription_entitlements, which marks what has lapsed, counts
\* again and talks to Emby servers before the commit.
Recount(x, granted, ended) ==
    LET effective == (Running \ ended) \cup granted
        lapsed    == Marked \ Running
    IN  /\ granted \subseteq {s \in Subscription : sub[s] = "none"}
        /\ ended \subseteq Running
        /\ granted \cup ended \cup lapsed # {}
        /\ Begin(x, [Idle EXCEPT !.op = "recount", !.limit = limit, !.used = used,
                                 !.newLimit = Quota(effective), !.newUsed = Usage(effective),
                                 !.granted = granted, !.ended = ended \cup lapsed])
        /\ UNCHANGED <<request, limit, used, sub, autoApprove, edited>>

Recounted(x) ==
    LET v == session[x]
    IN  /\ v.op = "recount"
        /\ limit' = Written(v.limit, v.newLimit, limit)
        /\ used'  = Written(v.used, v.newUsed, used)
        /\ sub' = [s \in Subscription |-> CASE s \in v.ended   -> "over"
                                            [] s \in v.granted -> "running"
                                            [] OTHER           -> sub[s]]
        /\ edited' = FALSE
        /\ End(x)
        /\ UNCHANGED request

\* update_user and bulk_assign_subscription count nothing: they delete and
\* insert plans, or overwrite a row that there is, or leave the plans alone;
\* the limit becomes that of the new plans or what the admin enters, like the
\* use, and Emby is asked before the commit.
Edit(x, granted, ended) ==
    /\ \/ granted \cup ended = {}
       \/ /\ granted \subseteq {s \in Subscription : sub[s] = "none"}
          /\ Marked \subseteq ended /\ ended \subseteq Known
       \/ \E s \in Known : granted \cup ended = {s} /\ granted \cap ended = {}
    /\ \E l \in {limit, Quota(granted)} \cup Entered, u \in {used} \cup Entered :
           Begin(x, [Idle EXCEPT !.op = "edit", !.limit = limit, !.used = used,
                                 !.newLimit = l, !.newUsed = u,
                                 !.granted = granted, !.ended = ended])
    /\ UNCHANGED <<request, limit, used, sub, autoApprove, edited>>

\* What was overwritten with a term that has passed is over, not gone.
Edited(x) ==
    LET v == session[x]
    IN  /\ v.op = "edit"
        /\ limit' = Written(v.limit, v.newLimit, limit)
        /\ used'  = Written(v.used, v.newUsed, used)
        /\ \E left \in {"over", "gone"} :
               sub' = [s \in Subscription |-> CASE s \in v.granted -> "running"
                                               [] s \in v.ended   -> left
                                               [] OTHER           -> sub[s]]
        /\ edited' = TRUE
        /\ End(x)
        /\ UNCHANGED request

\* bulk_extend_subscription moves the end of one row of the user, whatever has
\* become of it, and marks it by the new end.
Extend(s) ==
    /\ s \in Known
    /\ \E st \in {"running", "over"} :
           /\ s \in Running => st = "running"
           /\ sub' = [sub EXCEPT ![s] = st]
    /\ edited' = TRUE
    /\ overlapped' = (overlapped \/ Busy # {})
    /\ UNCHANGED <<request, limit, used, autoApprove, session>>

\* _run_vod_sync looks for what was downloaded and commits once, for all of it.
Detect(x) ==
    /\ Waiting # {}
    /\ Begin(x, [Idle EXCEPT !.op = "detect", !.on = Waiting])
    /\ UNCHANGED <<request, limit, used, sub, autoApprove, edited>>

Detected(x) ==
    /\ session[x].op = "detect"
    /\ \E found \in SUBSET session[x].on \ {{}} :
           /\ found \subseteq Rows
           /\ request' = [r \in Request |-> IF r \in found
                              THEN [request[r] EXCEPT !.status = "SUCCEEDED"] ELSE request[r]]
    /\ End(x)
    /\ UNCHANGED <<limit, used, sub, edited>>

\* A timeout of MoviePilot or Emby, a row that was deleted in the meantime or
\* the end of the process: nothing is committed.
Abort(x) ==
    /\ x \in Busy
    /\ End(x)
    /\ UNCHANGED <<request, limit, used, sub, edited>>

-----------------------------------------------------------------------------
Init ==
    /\ request = [r \in Request |-> NoRow]
    /\ limit = 0 /\ used = 0
    /\ sub = [s \in Subscription |-> "none"]
    /\ autoApprove = FALSE
    /\ session = [x \in Session |-> Idle]
    /\ overlapped = FALSE /\ edited = FALSE

ByUser(x) ==
    \/ \E r \in Request : Create(x, r)
    \/ CreateAccepted(x) \/ CreateUnfunded(x) \/ CreateRefused(x)

ByAdmin(x) ==
    \/ \E r \in Request : Approve(x, r)
    \/ ApproveAccepted(x) \/ ApproveRefused(x)
    \/ \E granted, ended \in SUBSET Subscription : Edit(x, granted, ended)
    \/ Edited(x)

ByJob(x) ==
    \/ Recount(x, {}, {})
    \/ \E s \in Subscription : Recount(x, {s}, {}) \/ Recount(x, {}, {s})
    \/ Recounted(x) \/ Detect(x) \/ Detected(x) \/ Abort(x)

Next ==
    \/ \E x \in Session : ByUser(x) \/ ByAdmin(x) \/ ByJob(x)
    \/ \E R \in SUBSET Request : Delete(R)
    \/ \E r \in Request : Reject(r)
    \/ UpdateSettings
    \/ \E s \in Subscription : Lapse(s) \/ Extend(s)

Spec == Init /\ [][Next]_vars

-----------------------------------------------------------------------------
(* Properties *)

\* Handlers that will take quota when MoviePilot has answered
Takers == {x \in Busy : session[x].op \in {"create", "approve"}}

ApprovalsAreAlone == {{"approve"}, {"approve", "create"}} \cap Overlaps = {}

\* Columns and views are in range; quota_consumed is set only in rows.
TypeOK ==
    /\ request \in [Request -> RequestRow]
    /\ limit \in Int /\ used \in Int
    /\ sub \in [Subscription -> Stage]
    /\ autoApprove \in BOOLEAN /\ overlapped \in BOOLEAN /\ edited \in BOOLEAN
    /\ \A x \in Busy : session[x].op \in Handler /\ session[x].on \subseteq Request
    /\ \A r \in Request : request[r].held => r \in Rows

\* However handlers overlap, a request that MoviePilot was told to download
\* holds quota of some subscription (approve_vod_request, create_vod_request).
AcceptedHoldsQuota ==
    \A r \in Request : request[r].status \in Accepted =>
        request[r].held /\ request[r].of \in Subscription

\* What handlers in flight have read of requests that are still there: what a
\* job found waiting holds quota, and a subscription once named is replaced
\* only by another.
ViewsHold ==
    /\ \A r \in Request : request[r].held => request[r].of \in Subscription
    /\ \A x \in Takers : session[x].of \in Subscription
    /\ \A x \in Busy : \A r \in session[x].on \cap Rows :
           /\ session[x].op = "detect" => request[r].held
           /\ session[x].op = "approve" /\ session[x].row.of \in Subscription =>
                  request[r].of \in Subscription

\* If no handler takes quota beside an approval: requests that may be approved
\* hold none, nor do those in the hands of a handler, each has its own, the
\* subscription an approval has chosen still has quota, and the one it has read
\* is still in the row.
TakersApart ==
    ApprovalsAreAlone =>
        /\ \A r \in Request : request[r].held => request[r].status \in Accepted \cup {"REJECTED"}
        /\ \A x \in Takers : \A r \in session[x].on \cap Rows : ~ request[r].held
        /\ \A x, y \in Takers : x # y =>
               session[x].op = "create" /\ session[x].on \cap session[y].on = {}
        /\ \A x \in Takers : session[x].op = "approve" =>
               /\ Cardinality(HeldOf(session[x].of)) < Times[session[x].of]
               /\ \A r \in session[x].on \cap Rows : request[r].of = session[x].row.of

\* All of these together.
RequestsInvariant == TypeOK /\ AcceptedHoldsQuota /\ ViewsHold /\ TakersApart

\* As long as handlers do not overlap, the counter in the user's row is never
\* behind the requests that hold quota of running subscriptions, so that the
\* check of the counter never lets through what the count would refuse; except
\* between a change of plans or counters that counts nothing (update_user,
\* bulk_assign_subscription, bulk_extend_subscription) and the next count.
UsedCoversHeld == ~overlapped /\ ~edited => used >= Usage(Running)

\* A request that was rejected is never approved or completed, unless a
\* handler that had read it before writes after the rejection.
RejectionIsFinal ==
    [][\A r \in Request : request[r].status = "REJECTED" =>
          request'[r].status \in {"REJECTED", "none"} \/ overlapped']_vars

\* One use at a time and none beyond the plan's number: the handlers implement
\* the quota, with what requests hold of a subscription as what is spent.
Ledger == INSTANCE VodQuota WITH spent <- [s \in Subscription |-> Cardinality(HeldOf(s))]
QuotaIsKept == Ledger!Spec

=============================================================================
