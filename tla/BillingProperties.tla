-------------------------- MODULE BillingProperties --------------------------
(***************************************************************************)
(* What the orders, the subscriptions and the money of a user must satisfy *)
(* whatever handlers run and in whatever order.                            *)
(***************************************************************************)
EXTENDS Billing

\* Every column holds a value of its type, the balance is never overdrawn, and
\* the rows that exist are among those inserted (models/order.py,
\* models/subscription.py, models/user.py).
TypeOK ==
    /\ order \in [Order -> OrderRow]
    /\ made \in 0..MaxOrders /\ placed \subseteq 1..made
    /\ links \subseteq Order \X Order
    /\ sub \in [Sub -> SubRow]
    /\ granted \in 0..MaxSubs /\ subs \subseteq 1..granted
    /\ balance \in Nat /\ ledger \in Int
    /\ offered \subseteq Catalogue
    /\ gateway \in [Order -> Trade]
    /\ received \in Nat /\ returned \in Nat
    /\ now \in 1..MaxNow

-----------------------------------------------------------------------------
(* The value chain of the orders: services/order_chains.py.                *)

\* A value link joins two orders that exist, a consuming one and another that
\* it names as superseding or once did; deletion of either takes it away.
LinksJoinOrders ==
    \A e \in links : /\ e[1] \in placed /\ e[2] \in placed /\ e[1] # e[2]
                     /\ order[e[2]].action \in Consuming

\* An order that says which order superseded it has the value link to it.
SupersededIsLinked ==
    \A o \in placed :
        order[o].superseded # None => <<o, order[o].superseded>> \in links

\* Value flows forward: except for a renewal, which joins a subscription that
\* an upgrade may already have claimed, an order is consumed only by orders
\* placed after it.  So the value links, whose targets never are renewals,
\* have no cycle, and collect_related_source_orders ends with true ancestors.
ValueFlowsForward ==
    \A e \in links : order[e[1]].action # "RENEW" => e[1] < e[2]

\* Why it flows forward: a subscription that an upgrade names as a source had
\* been granted when the upgrade was placed, to an order placed before, and a
\* later fulfilment of any order but a renewal grants a new one.
SourcesAreOlder ==
    /\ \A o \in placed : order[o].sub \in 0..granted
    /\ \A b \in placed : order[b].action \in Consuming =>
          /\ order[b].sources \subseteq 1..granted
          /\ \A a \in placed :
                order[a].action # "RENEW" /\ order[a].sub \in order[b].sources => a < b

\* The inductive invariant of the value chain: ids are handed out in order, the
\* rows keep their columns, and the parts above hold together.
ChainInvariant ==
    /\ made \in 0..MaxOrders /\ placed \subseteq 1..made
    /\ granted \in 0..MaxSubs /\ subs \subseteq 1..granted
    /\ DOMAIN order = Order
    /\ \A o \in Order : DOMAIN order[o] = DOMAIN BlankOrder
    /\ LinksJoinOrders
    /\ SupersededIsLinked
    /\ SourcesAreOlder
    /\ ValueFlowsForward

\* A finished refund is final: as long as the row exists its refund_status
\* stays REFUNDED, and when it was settled by its own refund it stays settled,
\* whatever callbacks and status changes still arrive.
StaysRefunded(row, new) ==
    row.refund = "REFUNDED" =>
        /\ new.refund = "REFUNDED"
        /\ row.settlement = "REFUNDED" => new.settlement = "REFUNDED"

RefundIsFinal ==
    [][\A o \in placed \cap placed' : StaysRefunded(order[o], order'[o])]_vars

\* An order whose value an upgrade has taken over is never refunded on its own
\* afterwards, only together with the upgrade (refunds.py
\* ORDER_VALUE_ALREADY_USED: "used for a later upgrade, cannot be refunded
\* again").
ConsumedNotRefundedAgain ==
    [][\A o \in placed :
          order[o].refund # "REFUNDED" /\ (\E e \in links : e[1] = o) =>
              order'[o].settlement # "REFUNDED"]_vars

-----------------------------------------------------------------------------
(* Money.                                                                  *)

\* What a refund of order o would still pay out: nothing unless it is live
\* and its value is its own, and not the part the gateway has paid already.
Owed(o) ==
    IF Live(order[o]) /\ order[o].kind = "PLAN" /\ order[o].settlement # "CONSUMED"
    THEN RefundTotal(order[o]) - (IF gateway[o].refund = "done" THEN order[o].payable ELSE 0)
    ELSE 0

\* The user never holds, in the balance, in money paid back and in orders that
\* can be refunded, more than was put in: no sequence of purchases, renewals,
\* upgrades and refunds creates money.
Solvent ==
    balance + returned + MapThenSumSet(Owed, placed) <= InitialBalance + received

-----------------------------------------------------------------------------
(* Subscriptions and the orders that pay for them.                         *)

Term(s) == sub[s].end - sub[s].start

\* The most and the least time the live orders of subscription s can have
\* bought, as the months they were sold for turn out: a lifetime has no end
\* that anybody counts.
Longest(row)  == IF row.cycle = "LIFETIME" THEN 0 ELSE LongTerm[row.cycle]
Shortest(row) == IF row.cycle = "LIFETIME" THEN 0 ELSE ShortTerm[row.cycle]

PlanOrdersOf(s) == {o \in LiveOrdersOf(s) : order[o].kind = "PLAN"}
MostDays(s)  == MapThenSumSet(LAMBDA o : Longest(order[o]), PlanOrdersOf(s))
LeastDays(s) == MapThenSumSet(LAMBDA o : Shortest(order[o]), PlanOrdersOf(s))

\* An active subscription lasts no longer than one term of each order that is
\* still paid for, a long one at that, after any mix of renewals, upgrades and
\* refunds.  No closer: a term is granted by the calendar from the day it
\* begins on (get_cycle_end_at), and a refund leaves the others the days they
\* stored when they were created (rollback_subscription_for_order), so days
\* are won where a short month was granted and a long one stored.
TimeIsPaidFor ==
    \A s \in subs : sub[s].status = "ACTIVE" =>
        /\ LiveOrdersOf(s) # {}
        /\ sub[s].cycle # "LIFETIME" => Term(s) <= MostDays(s)

\* And no shorter than one short term of each: an order that is live and was
\* not consumed has its subscription, with its time and that of the other live
\* orders.  Refunding one of two terms takes one term away, never both and
\* never the row; days may be lost where a long month was granted and a short
\* one stored.
PaidTimeIsKept ==
    \A o \in placed :
        Live(order[o]) /\ order[o].kind = "PLAN" /\ order[o].settlement = "OPEN" =>
            /\ order[o].sub \in subs
            /\ Term(order[o].sub) >= LeastDays(order[o].sub)

-----------------------------------------------------------------------------
(* Delivery.                                                               *)

\* The gateway repeats a callback until it is answered "success".
FairSpec == Spec /\ \A o \in Order : WF_vars(Notify(o))

\* A captured payment is answered for in the end: the callback is accepted and
\* the order fulfilled, or the order had been paid from the balance or deleted
\* before, or its plan or billing cycle taken out of sale, in which cases
\* epay_notify refuses it for good (payments.py, handle_paid_order).
PaymentIsDelivered ==
    \A o \in Order : gateway[o].trade = "paid" ~>
        \/ gateway[o].acked /\ order[o].paidOn # None
        \/ o \notin placed
        \/ order[o].provider # "EPAY"
        \/ order[o].kind = "PLAN" /\ <<order[o].plan, order[o].cycle>> \notin offered

=============================================================================
