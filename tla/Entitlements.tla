---------------------------- MODULE Entitlements ----------------------------
(***************************************************************************)
(* The accounts of one user on the Emby servers: rows of emby_accounts,    *)
(* the accounts on the servers themselves, and the handlers that make both *)
(* follow the user's subscriptions and status.                             *)
(*                                                                         *)
(* A handler computes what must change, calls one server after the other,  *)
(* and commits its rows at the end.  Any call and the commit may fail: the *)
(* rows are then rolled back, the servers are not.  Handlers run one at a  *)
(* time here, and the servers of a plan stay the same.  gap names the      *)
(* servers where one of these handlers leaves the account behind: the      *)
(* properties say that they have no other way to do so.                    *)
(***************************************************************************)
EXTENDS Integers, FiniteSets

CONSTANTS
    Server, Plan,
    Servers,        \* plan_server_assignments: the servers of each plan
    First,          \* the server that was created first
    Switchable,     \* bound: servers that admins switch on and off
    MaxFaults       \* bound on failed calls and commits

ASSUME EntitlementsAssumption ==
    /\ Servers \in [Plan -> SUBSET Server]
    /\ First \in Server /\ Switchable \subseteq Server
    /\ MaxFaults \in Nat

Account     == {"none", "ENABLED", "DISABLED"}
UserStatus  == {"ACTIVE", "BANNED", "ABNORMAL", "DELETED"}

\* An ACTIVE subscription is due when its end has passed.
Subscription == {"none", "current", "due", "EXPIRED", "CANCELED"}

VARIABLES
    status,         \* of the user
    sub,            \* the user's newest subscription to each plan
    row,            \* status of the user's row in emby_accounts for each server
    remote,         \* the user's account on each server
    active,         \* is_active of the servers
    handler,        \* the handler in progress
    gap,            \* history: servers where the account was left behind
    faults          \* history: faults so far

accessVars == <<status, sub, row, remote, active, handler, gap, faults>>

-----------------------------------------------------------------------------
(* Calls to a server *)

Call == [kind : {"keep", "ensure", "create", "set", "password", "delete", "undo"}, to : Account]

NoCall     == [kind |-> "keep",     to |-> "none"]
Ensure(to) == [kind |-> "ensure",   to |-> to]          \* with _set_emby_user_status
Create     == [kind |-> "create",   to |-> "ENABLED"]   \* of admin_users.py, without
Set(to)    == [kind |-> "set",      to |-> to]
Password   == [kind |-> "password", to |-> "none"]
Delete     == [kind |-> "delete",   to |-> "none"]
Undo       == [kind |-> "undo",     to |-> "none"]      \* Create, and Delete after it

NoCalls == [s \in Server |-> NoCall]

\* The account after a call; an unknown account can be deleted and created,
\* but not switched or given a password.
After(call, account) ==
    CASE call.kind \in {"ensure", "set", "delete", "undo"}    -> call.to
      [] call.kind = "create" /\ account = "none"             -> "ENABLED"
      [] OTHER                                                -> account

\* What is done first, and what is left to do then
Half(call) == IF call = Undo THEN Create ELSE call
Rest(call) == IF call = Undo THEN Delete ELSE NoCall

Refused(call, account) == call.kind \in {"set", "password"} /\ account = "none"

\* Calls that leave the account as the row says, whatever it was.
Settles(call) == call.kind \in {"ensure", "set", "delete", "undo"}

-----------------------------------------------------------------------------
(* The handler in progress *)

NoHandler == [calls |-> NoCalls, open |-> FALSE, called |-> {}, row |-> <<>>, sub |-> <<>>,
         status |-> "none", gap |-> {}]

Quiet == ~handler.open

With(f, S, v) == [s \in DOMAIN f |-> IF s \in S THEN v ELSE f[s]]

Begin(calls, r, u, st, g) ==
    /\ Quiet
    /\ handler' = [calls |-> calls, open |-> TRUE, called |-> {}, row |-> r, sub |-> u,
                   status |-> st, gap |-> g]
    /\ UNCHANGED <<status, sub, row, remote, active, gap, faults>>

CallServer(s) ==
    /\ handler.open /\ handler.calls[s] # NoCall
    /\ ~Refused(handler.calls[s], remote[s])
    /\ remote' = [remote EXCEPT ![s] = After(Half(handler.calls[s]), @)]
    /\ handler' = [handler EXCEPT !.calls[s] = Rest(@),
                        !.called = IF Settles(handler.calls[s]) THEN @ \cup {s} ELSE @]
    /\ UNCHANGED <<status, sub, row, active, gap, faults>>

Commit ==
    /\ handler.open /\ handler.calls = NoCalls
    /\ row' = handler.row /\ sub' = handler.sub /\ status' = handler.status
    /\ gap' = (gap \ handler.called) \cup handler.gap
    /\ handler' = NoHandler
    /\ UNCHANGED <<remote, active, faults>>

\* The handler raises and its session rolls back.
Rollback ==
    /\ handler.open
    /\ gap' = gap \cup {s \in Server : remote[s] # row[s]}
    /\ handler' = NoHandler
    /\ UNCHANGED <<status, sub, row, remote, active>>

\* A server does not know the account: 404, for the policy as well.
Refuse ==
    /\ handler.open
    /\ \E s \in Server : Refused(handler.calls[s], remote[s])
    /\ Rollback /\ UNCHANGED faults

\* A server cannot be reached, or the commit fails.
Break == faults < MaxFaults /\ faults' = faults + 1 /\ Rollback

-----------------------------------------------------------------------------
(* What subscriptions entitle to *)

Of(p) == {s \in Servers[p] : active[s]}

\* Faulty: the plan that get_active_subscription_for_user returns decides.
EntitledByOne(u) == IF \E p \in Plan : u[p] = "current"
                    THEN Of(CHOOSE p \in Plan : u[p] = "current") ELSE {}

Entitled(u) == UNION {Of(p) : p \in {q \in Plan : u[q] = "current"}}

\* ... and to what else, until the expiry job ends the plans that are due
Covered(u) == UNION {Of(p) : p \in {q \in Plan : u[q] \in {"current", "due"}}}

Orphaned(r, u) == {s \in Server : r[s] # "none"} \ Entitled(u)

Lapsed(u) == [p \in Plan |-> IF u[p] = "due" THEN "EXPIRED" ELSE u[p]]

\* Faulty: the orphans are those of the plan that ends.
ToDisableOfEnded(r, u) ==
    {s \in Orphaned(r, u) : /\ active[s] /\ r[s] = "ENABLED"
                            /\ \E p \in Plan : u[p] = "EXPIRED" /\ s \in Servers[p]}

\* Faulty: accounts that are DISABLED already are disabled again.
ToDisableAgain(r, u) == {s \in Orphaned(r, u) : active[s]}

\* disable_orphaned_emby_accounts_for_user trusts the row.
ToDisable(r, u) == {s \in Orphaned(r, u) : active[s] /\ r[s] = "ENABLED"}

Disabled(r, u) == With(r, Orphaned(r, u), "DISABLED")

ToDelete(r, u) == {s \in Orphaned(r, u) : active[s]}

Removed(r, u) == With(r, Orphaned(r, u), "none")

\* Faulty: a ban does not keep new accounts from being enabled.
EnabledAnyway == "ENABLED"

AccountStatus == IF status = "BANNED" THEN "DISABLED" ELSE "ENABLED"

\* sync_user_subscription_entitlements on top of other calls
Sync(calls, r, u) ==
    Begin(With(calls, ToDisable(r, u), Set("DISABLED")), Disabled(r, u), u, status, {})

\* ... when it deletes the accounts of a user without any plan
SyncOrDelete(r, u) ==
    IF \E p \in Plan : u[p] = "current"
    THEN Sync(NoCalls, r, u)
    ELSE Begin(With(NoCalls, ToDelete(r, u), Delete), Removed(r, u), u, status, {})

-----------------------------------------------------------------------------
(* Payments, refunds and the expiry job *)

\* A subscription ends.
Lapse(p) ==
    /\ Quiet /\ sub[p] = "current"
    /\ sub' = [sub EXCEPT ![p] = "due"]
    /\ UNCHANGED <<status, row, remote, active, handler, gap, faults>>

\* handle_paid_order, which cancels the plans it replaces
Pay(p, replaced) ==
    LET u == [Lapsed([q \in Plan |-> IF q \in replaced THEN "CANCELED" ELSE sub[q]])
                EXCEPT ![p] = "current"]
    IN  /\ p \notin replaced /\ \A q \in replaced : sub[q] # "none"
        /\ Sync(With(NoCalls, Of(p), Ensure(AccountStatus)), With(row, Of(p), AccountStatus), u)

\* expire_due_subscriptions
ExpireDue == (\E p \in Plan : sub[p] = "due") /\ Sync(NoCalls, row, Lapsed(sub))

\* cleanup_expired_subscription_data, which follows the expiry in one job
Cleanup(p) ==
    /\ sub[p] = "EXPIRED"
    /\ SyncOrDelete(row, Lapsed([sub EXCEPT ![p] = "none"]))

\* A refund deletes the subscription, or, when renewals of it remain, ends or
\* keeps it.
Refund(p, left) ==
    LET u == Lapsed([sub EXCEPT ![p] = left])
    IN  /\ sub[p] # "none"
        /\ left \in {"none", "CANCELED", "current"}
        /\ left = "current" => sub[p] \notin {"due", "EXPIRED"}
        /\ IF left = "none"
           THEN SyncOrDelete(row, u)
           ELSE Begin(With(NoCalls, ToDisable(row, u), Set("DISABLED")), Disabled(row, u), u,
                      status, IF sub[p] = "CANCELED" THEN Servers[p] ELSE {})

-----------------------------------------------------------------------------
(* Administration of users *)

\* Accounts that _ensure_emby_accounts of admin_users.py leaves as they are,
\* and not as their rows say
Mistaken(S) == {s \in S : After(Create, remote[s]) # AccountStatus}

\* Accounts on S, then reconcile_emby_accounts_for_user for subscriptions u:
\* what it deletes may have been created just before.
Reconcile(S, u, g) ==
    LET r == With(row, S, AccountStatus)
        calls == With(With(NoCalls, S, Create), ToDelete(r, u), Delete)
    IN  Begin(With(calls, S \cap ToDelete(r, u), Undo), Removed(r, u), u, status, g \cup Mistaken(S))

\* update_user with its list of subscriptions: to the plans P, over are those of
\* them with an end that has passed
Assign(P, over) ==
    /\ over \subseteq P
    /\ Reconcile(UNION {Of(p) : p \in P},
                 [p \in Plan |-> IF p \in over THEN "EXPIRED"
                                 ELSE IF p \in P THEN "current"
                                 ELSE IF P = {} \/ sub[p] \in {"current", "due"} THEN "none"
                                 ELSE sub[p]],
                 {})

\* bulk_assign_subscription, and update_user with a single subscription, write
\* plan p into one row of the user's, of any plan q, or into a new one.  A plan
\* that is due and not yet ended loses its accounts.
Overwrite(q, p, new) ==
    LET u == [sub EXCEPT ![q] = IF q = p THEN new ELSE "none",
                         ![p] = IF new = "EXPIRED" /\ q # p /\ @ \in {"current", "due"}
                                THEN @ ELSE new]
    IN  /\ sub[q] # "none" \/ (q = p /\ \A o \in Plan : sub[o] = "none")
        /\ new \in {"current", "EXPIRED"}
        /\ Reconcile(Of(p), u, Covered(u) \ Entitled(u))

\* bulk_extend_subscription leaves the accounts alone, also when the end has
\* still passed; the expiry job then no longer looks at the row.
Extend(p, new) ==
    /\ Quiet /\ sub[p] \in {"due", "EXPIRED", "CANCELED"}
    /\ new \in {"current", "EXPIRED"}
    /\ sub' = [sub EXCEPT ![p] = new]
    /\ gap' = gap \cup IF sub[p] = "due" /\ new = "current" THEN {} ELSE Servers[p]
    /\ UNCHANGED <<status, row, remote, active, handler, faults>>

Known == {s \in Server : active[s] /\ row[s] # "none"}

\* update_user_status of admin_users.py: who is ACTIVE again gets back every
\* account, also those without a plan.
SetStatus(new) ==
    LET to == IF new = "ACTIVE" THEN "ENABLED" ELSE "DISABLED"
    IN  IF new \in {"ABNORMAL", "DELETED"}
        THEN Begin(NoCalls, row, sub, new, {})
        ELSE Begin(With(NoCalls, Known, Set(to)), With(row, Known, to), sub, new,
                   IF new = "ACTIVE" THEN Orphaned(row, sub) ELSE {})

\* update_user_status of users.py does not know of accounts.
SetStatusOnly(new) ==
    /\ Quiet /\ status' = new
    /\ gap' = Server
    /\ UNCHANGED <<sub, row, remote, active, handler, faults>>

\* delete_user leaves plans and accounts; the plans end in their time.
DeleteUser ==
    /\ Quiet /\ status' = "DELETED"
    /\ UNCHANGED <<sub, row, remote, active, handler, gap, faults>>

\* anomaly_check compares rows of users with the servers.
AnomalyCheck ==
    /\ Quiet /\ status # "DELETED"
    /\ \E p \in Plan : /\ sub[p] # "none"
                       /\ \E s \in Of(p) : \/ remote[s] = "none"
                                           \/ status = "ACTIVE" /\ remote[s] # "ENABLED"
                                           \/ status = "BANNED" /\ remote[s] # "DISABLED"
    /\ status' = "ABNORMAL"
    /\ UNCHANGED <<sub, row, remote, active, handler, gap, faults>>

\* update_emby_password_for_user
SetPassword ==
    IF Known # {}
    THEN Begin(With(NoCalls, Known, Password), row, sub, status, {})
    ELSE \E p \in Plan :
            /\ sub[p] = "current"
            /\ Begin(With(NoCalls, Of(p), Ensure(AccountStatus)), With(row, Of(p), AccountStatus),
                     sub, status, {})

\* _update_emby_password_for_user, for admins, takes any plan, also an ended one.
SetPasswordByAdmin ==
    /\ Known = {}
    /\ \E p \in Plan :
            /\ sub[p] # "none"
            /\ Begin(With(NoCalls, Of(p), Create), With(row, Of(p), AccountStatus), sub, status,
                     IF sub[p] = "current" THEN Mistaken(Of(p)) ELSE Of(p))

-----------------------------------------------------------------------------
(* Administration of servers and accounts *)

\* Nothing is sent to a server when it is switched on or off.
SwitchServer(s) ==
    /\ Quiet /\ s \in Switchable
    /\ active' = [active EXCEPT ![s] = ~@]
    /\ gap' = gap \cup IF active[s] THEN {} ELSE {s}
    /\ UNCHANGED <<status, sub, row, remote, handler, faults>>

\* update_emby_account_status and delete_emby_account change the row only.
SetRow(s, v) ==
    /\ Quiet /\ row[s] \notin {"none", v}
    /\ row' = [row EXCEPT ![s] = v]
    /\ gap' = gap \cup {s}
    /\ UNCHANGED <<status, sub, remote, active, handler, faults>>

\* import_from_emby gives the user a row for an account that server s lists, and
\* a status, whatever the user's plans.
ImportFromEmby(s, v, new) ==
    /\ Quiet /\ active[s] /\ remote[s] # "none"
    /\ v \in {"ENABLED", "DISABLED"}
    /\ new \in IF v = "ENABLED" THEN {"ACTIVE"} ELSE {"ACTIVE", "BANNED", "DELETED"}
    /\ row' = [row EXCEPT ![s] = v] /\ status' = new
    /\ gap' = Server
    /\ UNCHANGED <<sub, remote, active, handler, faults>>

\* sync_emby_accounts gives users without accounts a row, with an invented id.
Backfill ==
    /\ Quiet /\ \A s \in Server : row[s] = "none"
    /\ row' = [row EXCEPT ![First] = IF status = "ACTIVE" THEN "ENABLED" ELSE "DISABLED"]
    /\ gap' = gap \cup {First}
    /\ UNCHANGED <<status, sub, remote, active, handler, faults>>

-----------------------------------------------------------------------------
NoPlan == [p \in Plan |-> "none"]

\* register gives a new user the plan of the invitation, import_users the one in
\* its file, which may be over; neither makes accounts.
Arrived == {NoPlan} \cup
           {[NoPlan EXCEPT ![p] = v] : p \in Plan, v \in {"current", "due", "EXPIRED"}}

\* The servers may have accounts of that name already.
AccessInit ==
    /\ status = "ACTIVE"
    /\ sub \in Arrived
    /\ row = [s \in Server |-> "none"] /\ remote \in [Server -> Account]
    /\ active = [s \in Server |-> TRUE]
    /\ handler = NoHandler
    /\ gap = Covered(sub) \cup {s \in Server : remote[s] # "none"} /\ faults = 0

Billing ==
    \/ ExpireDue
    \/ \E p \in Plan :
        \/ Lapse(p) \/ Cleanup(p)
        \/ \E replaced \in SUBSET Plan : Pay(p, replaced)
        \/ \E left \in Subscription : Refund(p, left)

UserAdministration ==
    \/ \E P, over \in SUBSET Plan : Assign(P, over)
    \/ \E p \in Plan, new \in Subscription : Extend(p, new) \/ \E q \in Plan : Overwrite(q, p, new)
    \/ \E new \in UserStatus :
        \/ SetStatus(new) \/ SetStatusOnly(new)
        \/ \E s \in Server, v \in Account : ImportFromEmby(s, v, new)
    \/ DeleteUser \/ AnomalyCheck \/ SetPassword \/ SetPasswordByAdmin

ServerAdministration ==
    \/ \E s \in Server : SwitchServer(s) \/ \E v \in Account : SetRow(s, v)
    \/ Backfill

Proceed == (\E s \in Server : CallServer(s)) \/ Commit \/ Refuse

AccessNext == Billing \/ UserAdministration \/ ServerAdministration \/ Proceed \/ Break

AccessSpec == AccessInit /\ [][AccessNext]_accessVars

\* Every call has a timeout, and the expiry job comes again and again.
FairSpec == AccessSpec /\ WF_accessVars(Proceed) /\ SF_accessVars(ExpireDue)

-----------------------------------------------------------------------------
(* Properties *)

InProgress == [ calls  : [Server -> Call],
                open   : {TRUE},
                called : SUBSET Server,
                row    : [Server -> Account],
                sub    : [Plan -> Subscription],
                status : UserStatus,
                gap    : SUBSET Server ]

\* Rows, accounts and the handler are in range.
AccessTypeOK ==
    /\ status \in UserStatus /\ sub \in [Plan -> Subscription]
    /\ row \in [Server -> Account] /\ remote \in [Server -> Account]
    /\ active \in [Server -> BOOLEAN] /\ gap \subseteq Server /\ faults \in 0 .. MaxFaults
    /\ handler \in InProgress \cup {NoHandler}

Settled == Quiet /\ \A p \in Plan : sub[p] # "due"

\* When the expiry job has caught up, a user has access to no server without a
\* plan for it, and a banned user to none, except where the code leaves a gap.
\* A deleted user has access until the plans end.
NoAccessWithoutPlan ==
    Settled => \A s \in Server \ gap :
        active[s] /\ remote[s] = "ENABLED" => status # "BANNED" /\ s \in Entitled(sub)

\* An active user has access to every server of every current plan, except
\* where the code leaves a gap.
PlanGivesAccess ==
    Settled /\ status = "ACTIVE" => \A s \in Entitled(sub) \ gap : remote[s] = "ENABLED"

\* Outside g, rows r of a user with subscriptions u and status st grant what the
\* plans grant: nothing without a plan or while banned, and a covered server has
\* a row, which an active user may use.
RowsFit(r, u, st, g) ==
    \A s \in Server \ g : active[s] =>
        /\ r[s] = "ENABLED" => st # "BANNED" /\ s \in Covered(u)
        /\ s \in Covered(u) => r[s] # "none" /\ (st = "ACTIVE" => r[s] = "ENABLED")

\* The gap that the handler in progress will leave when it commits.
GapAfter ==
    (gap \ (handler.called \cup {s \in Server : Settles(handler.calls[s])})) \cup handler.gap

\* The inductive invariant behind both.  Rows fit the plans, those committed and
\* those a handler is about to commit; accounts follow the rows, those that a
\* handler still has to call after its calls.  A handler that is rolled back
\* half way (emby_accounts.py) has left its servers in the gap, and only there.
AccessInvariant ==
    /\ AccessTypeOK
    /\ RowsFit(row, sub, status, gap)
    /\ Quiet => \A s \in Server \ gap : active[s] => remote[s] = row[s]
    /\ ~Quiet =>
          /\ RowsFit(handler.row, handler.sub, handler.status, GapAfter)
          /\ \A s \in Server \ GapAfter : active[s] =>
                After(handler.calls[s], remote[s]) = handler.row[s]

\* A row that says ENABLED of an account the server does not know.
Stuck == \E s \in Server : active[s] /\ row[s] = "ENABLED" /\ remote[s] = "none"

\* Again and again no subscription is past its end and ACTIVE, unless a server
\* refuses the account.
DueExpires == []<>(Stuck \/ \A p \in Plan : sub[p] # "due")

=============================================================================
