---------------------------- MODULE BillingState ----------------------------
(***************************************************************************)
(* The rows the order and subscription handlers share: what one user's     *)
(* orders, value links, subscriptions and balance look like in the         *)
(* database, the payment gateway outside it, and the queries several       *)
(* handlers make over them.                                                *)
(*                                                                         *)
(* Every order, payment, refund and purchase handler reads and writes the  *)
(* rows of the order's own user only, so one user is modelled.  The plans  *)
(* are those of one subscription group, the only ones a purchase preview   *)
(* looks at.  Ids are handed out in creation order and never reused, so    *)
(* comparing ids compares created_at.  Money is a natural number of cents, *)
(* time a number of days.                                                  *)
(***************************************************************************)
EXTENDS Integers, FiniteSets, FiniteSetsExt

CONSTANTS
    MaxOrders,      \* bound: orders the user ever places
    MaxSubs,        \* bound: subscription rows ever inserted
    MaxNow,         \* bound: the last day of a behaviour
    MaxEnd,         \* bound: the last day a subscription is sold until
    Plan,           \* the plans of the group
    NoPlan,         \* plan_id of an order whose plan an admin deleted
    Tier,           \* Plan.tier_level
    Catalogue,      \* the <<plan, cycle>> rows of plan_billing_cycles at the start
    ListPrice,      \* PlanBillingCycle.price of each <<plan, cycle>>
    CalendarDays,   \* the calendar repeats itself after so many days
    TermDays,       \* length of a term of each cycle that begins on each of them
    ShortTerm,      \* no term of the cycle is shorter (28 days for a month)
    LongTerm,       \* and none is longer (31 days)
    InitialBalance  \* the user's balance at the start

Order == 1..MaxOrders
Sub   == 1..MaxSubs
None  == 0          \* a nullable id or date column that is NULL

Cycle     == {"TRIAL", "MONTHLY", "LIFETIME"}
Consuming == {"UPGRADE", "REPLACE_TRIAL"}

OrderStatus  == {"CREATED", "PAID", "COMPLETED", "CANCELED", "TIMEOUT", "REFUNDED"}
RefundStatus == {"NONE", "PENDING", "APPROVED", "REJECTED", "PROCESSING", "REFUNDED", "FAILED"}
Settlement   == {"OPEN", "CONSUMED", "COVERED_BY_DESCENDANT_REFUND", "REFUNDED"}
SubStatus    == {"ACTIVE", "EXPIRED", "CANCELED"}
Provider     == {"NONE", "EPAY", "BALANCE", "ZERO", "ADMIN"}

ASSUME BoundsAssumption ==
    /\ MaxOrders \in Nat /\ MaxSubs \in Nat /\ MaxNow \in Nat \ {0} /\ MaxEnd \in Nat
    /\ InitialBalance \in Nat
ASSUME CatalogueAssumption ==
    /\ NoPlan \notin Plan
    /\ Catalogue \subseteq Plan \X Cycle
    /\ Tier \in [Plan -> Nat \ {0}]
    /\ ListPrice \in [Plan \X Cycle -> Nat]
ASSUME CalendarAssumption ==
    /\ CalendarDays \in Nat \ {0}
    /\ TermDays \in [Cycle -> [0..(CalendarDays - 1) -> Nat \ {0}]]
    /\ ShortTerm \in [Cycle -> Nat \ {0}]
    /\ LongTerm \in [Cycle -> Nat \ {0}]
    /\ \A c \in Cycle : \A d \in 0..(CalendarDays - 1) :
          ShortTerm[c] <= TermDays[c][d] /\ TermDays[c][d] <= LongTerm[c]

\* A month, a quarter or a year is as long as the day it begins on makes it.
CycleEnd(day, c) == day + TermDays[c][day % CalendarDays]

\* What an order of the day stores as its duration_days; a lifetime order has
\* none, whatever its end date.
DurationDays(day, c) == IF c = "LIFETIME" THEN 0 ELSE CycleEnd(day, c) - day

VARIABLES
    order,      \* the orders table, by id
    placed,     \* ids of the order rows that exist
    made,       \* orders inserted so far
    links,      \* order_value_links: <<source, target>>
    sub,        \* the subscriptions table, by id
    subs,       \* ids of the subscription rows that exist
    granted,    \* subscriptions inserted so far
    balance,    \* users.balance
    ledger,     \* sum of the deltas of the user's balance_transactions
    offered,    \* the <<plan, cycle>> rows of plan_billing_cycles
    gateway,    \* what the payment gateway knows of each order (external)
    received,   \* money the gateway has captured from the user (external)
    returned,   \* money the gateway has paid back to the user (external)
    now         \* datetime.utcnow()

vars == <<order, placed, made, links, sub, subs, granted, balance, ledger,
          offered, gateway, received, returned, now>>

money == <<balance, ledger>>
outside == <<gateway, received, returned>>

-----------------------------------------------------------------------------
OrderRow == [ kind       : {"PLAN", "RECHARGE"},
              plan       : Plan \cup {NoPlan},
              cycle      : Cycle,
              action     : {"NONE", "DIRECT_PURCHASE", "RENEW"} \cup Consuming,
              sources    : SUBSET Sub,          \* extract_source_subscription_ids
              anchor     : Sub \cup {None},     \* renewal_of_subscription_id
              days       : Nat,                 \* duration_days
              base       : Nat, credit : Nat, payable : Nat, carry : Nat,
              status     : OrderStatus,
              provider   : Provider,
              created    : 0..MaxNow,           \* the day of created_at
              paidOn     : 0..MaxNow,
              refund     : RefundStatus,
              settlement : Settlement,
              superseded : Order \cup {None},
              parent     : Order \cup {None},
              chain      : Order \cup {None},   \* order_chain_id = root_order_id
              sub        : Sub \cup {None} ]

SubRow == [ plan   : Plan \cup {NoPlan},
            cycle  : Cycle,
            status : SubStatus,
            start  : Nat,
            end    : Nat ]

Trade == [ trade  : {"none", "open", "paid", "closed"},
           acked  : BOOLEAN,    \* a callback was answered "success"
           refund : {"none", "refused", "accepted", "done"},
           known  : BOOLEAN ]   \* the order holds the out_refund_no it was accepted under

BlankOrder == [ kind |-> "RECHARGE", plan |-> NoPlan, cycle |-> "MONTHLY",
                action |-> "NONE", sources |-> {}, anchor |-> None,
                days |-> 0, base |-> 0, credit |-> 0, payable |-> 0, carry |-> 0,
                status |-> "CREATED", provider |-> "NONE", created |-> 0,
                paidOn |-> None, refund |-> "NONE", settlement |-> "OPEN",
                superseded |-> None, parent |-> None, chain |-> None,
                sub |-> None ]

BlankSub == [ plan |-> NoPlan, cycle |-> "MONTHLY", status |-> "CANCELED",
              start |-> 0, end |-> 0 ]

BlankTrade == [ trade |-> "none", acked |-> FALSE, refund |-> "none", known |-> FALSE ]

Init ==
    /\ order = [o \in Order |-> BlankOrder]
    /\ placed = {} /\ made = 0 /\ links = {}
    /\ sub = [s \in Sub |-> BlankSub]
    /\ subs = {} /\ granted = 0
    /\ balance = InitialBalance /\ ledger = 0
    /\ offered = Catalogue
    /\ gateway = [o \in Order |-> BlankTrade]
    /\ received = 0 /\ returned = 0
    /\ now = 1

-----------------------------------------------------------------------------
(* Queries.                                                                *)

Live(row)       == row.status \in {"PAID", "COMPLETED"}
Successful(row) == row.status \in {"PAID", "COMPLETED", "REFUNDED"}

\* Subscriptions that still run, or are queued, and those in effect now.
Running   == {s \in subs : sub[s].status = "ACTIVE" /\ sub[s].end > now}
Effective == {s \in Running : sub[s].start <= now}

\* The orders whose money bought or extended subscription s.
LiveOrdersOf(s) == {o \in placed : order[o].sub = s /\ Live(order[o])}

\* The rows of table t after the stale ones among ids are marked EXPIRED: the
\* first thing sync_user_subscription_entitlements does, and every handler
\* that touches a subscription calls it.
ExpireStale(t, ids) ==
    [s \in Sub |-> IF s \in ids /\ t[s].status = "ACTIVE" /\ t[s].end <= now
                   THEN [t[s] EXCEPT !.status = "EXPIRED"]
                   ELSE t[s]]

\* The members of Order that the relation R leads to from o, in one or more
\* steps: the smallest set that holds o's successors and is closed under R.
Reach(o, R) ==
    {p \in Order : \A C \in SUBSET Order :
        (\A e \in R : e[1] \in C \cup {o} => e[2] \in C) => p \in C}

=============================================================================
