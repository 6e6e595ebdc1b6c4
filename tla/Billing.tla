------------------------------- MODULE Billing -------------------------------
(***************************************************************************)
(* The life of the orders of one user: creation, payment through the       *)
(* gateway or from the balance, fulfilment, closing, refund, deletion, and *)
(* the plan and subscription housekeeping around them.                     *)
(*                                                                         *)
(* Each action is one request handler or background job from its first     *)
(* read to its commit.  A handler that raises before it commits changes no *)
(* row, so its error paths are its guards; create_order, which commits     *)
(* three times, may stop after each.  Handlers are atomic here: what their *)
(* interleaving adds is a question of its own.                             *)
(***************************************************************************)
EXTENDS PurchasePreview

CONSTANTS
    RechargeAmounts,    \* what a user may put on the balance
    Retention,          \* SystemSettings.subscription_retention_days
    OneAtATime,         \* nothing is bought or refunded while something is pending
    Redeliver,          \* callbacks come again after one was answered "success"
    LossyGateway,       \* a refund call may fail although the gateway took it
    AdminTools          \* which of "status", "delete", "plan" admins use

ASSUME SettingsAssumption ==
    /\ RechargeAmounts \subseteq Nat \ {0}
    /\ Retention \in Nat
    /\ OneAtATime \in BOOLEAN /\ Redeliver \in BOOLEAN /\ LossyGateway \in BOOLEAN
    /\ AdminTools \subseteq {"status", "delete", "plan"}

\* Nothing is under way: no order to pay, no trade that the gateway may still
\* report, no refund the gateway still works on.
Idle == \A o \in Order :
    /\ o \in placed => order[o].status # "CREATED" /\ order[o].refund # "PROCESSING"
    /\ gateway[o].trade # "open"
    /\ gateway[o].trade = "paid" => gateway[o].acked

-----------------------------------------------------------------------------
(* Fulfilling a paid order: services/payments.py handle_paid_order.        *)

\* A renewal extends its anchor while that still runs; else it starts anew.
Extends(row) ==
    /\ row.action = "RENEW"
    /\ row.anchor \in Running
    /\ sub[row.anchor].plan = row.plan

\* The subscriptions after the sources of an upgrade are canceled: a source
\* that has not begun yet keeps no time at all, a running one ends now.
CancelSources(row) ==
    [s \in Sub |->
        IF row.action \in Consuming /\ s \in row.sources \cap subs
        THEN [sub[s] EXCEPT !.status = "CANCELED",
                            !.end = Min({@, Max({now, sub[s].start})})]
        ELSE sub[s]]

\* The end of the term that is sold, and the subscriptions with it.
TermStart(row) == IF Extends(row) THEN sub[row.anchor].end ELSE now
TermEnd(row) == CycleEnd(TermStart(row), row.cycle)

SoldRows(row) ==
    IF Extends(row)
    THEN [CancelSources(row) EXCEPT ![row.anchor].cycle = row.cycle,
                                    ![row.anchor].end = TermEnd(row)]
    ELSE [CancelSources(row) EXCEPT ![granted + 1] =
            [plan |-> row.plan, cycle |-> row.cycle, status |-> "ACTIVE",
             start |-> now, end |-> TermEnd(row)]]

Sell(row) ==
    /\ Extends(row) \/ granted < MaxSubs
    /\ TermEnd(row) <= MaxEnd
    /\ granted' = IF Extends(row) THEN granted ELSE granted + 1
    /\ subs' = IF Extends(row) THEN subs ELSE subs \cup {granted + 1}
    /\ sub' = ExpireStale(SoldRows(row), subs')

\* The orders whose value a paid upgrade takes over.
ConsumedBy(o, row) ==
    IF row.action \notin Consuming THEN {}
    ELSE {q \in placed \ {o} : /\ order[q].kind = "PLAN"
                               /\ order[q].sub \in row.sources
                               /\ Successful(order[q])}

\* The settlement_status of an order that is fulfilled.
Open(row) == IF row.settlement = "REFUNDED" THEN "REFUNDED" ELSE "OPEN"

FulfilPlan(o, row, bal, led) ==
    LET target == IF Extends(row) THEN row.anchor ELSE granted + 1
        used   == ConsumedBy(o, row)
    IN  /\ row.kind = "PLAN" /\ row.plan # NoPlan
        /\ <<row.plan, row.cycle>> \in offered
        /\ Sell(row)
        /\ order' = [q \in Order |->
             IF q = o
             THEN [row EXCEPT !.status = "COMPLETED", !.paidOn = now,
                              !.sub = target, !.settlement = Open(row)]
             ELSE IF q \in used
             THEN [order[q] EXCEPT
                     !.superseded = o,
                     !.settlement = IF @ = "REFUNDED" THEN @ ELSE "CONSUMED"]
             ELSE order[q]]
        /\ links' = links \cup (used \X {o})
        /\ balance' = bal + row.carry
        /\ ledger' = led + row.carry

\* The plan was deleted in the meantime: the order is paid, for nothing.
FulfilNothing(o, row, bal, led) ==
    /\ row.kind = "PLAN" /\ row.plan = NoPlan
    /\ order' = [order EXCEPT ![o] = [row EXCEPT !.status = "PAID", !.paidOn = now]]
    /\ balance' = bal /\ ledger' = led
    /\ UNCHANGED <<links, sub, subs, granted>>

FulfilRecharge(o, row, bal, led) ==
    /\ row.kind = "RECHARGE" /\ row.provider # "BALANCE"
    /\ order' = [order EXCEPT ![o] =
                   [row EXCEPT !.status = "COMPLETED", !.paidOn = now,
                               !.settlement = Open(row)]]
    /\ balance' = bal + row.payable
    /\ ledger' = led + row.payable
    /\ UNCHANGED <<links, sub, subs, granted>>

\* row is order[o] as the caller changed it, bal and led the money columns.
HandlePaidOrder(o, row, bal, led) ==
    /\ \/ FulfilPlan(o, row, bal, led)
       \/ FulfilNothing(o, row, bal, led)
       \/ FulfilRecharge(o, row, bal, led)
    /\ UNCHANGED <<offered, now>>

-----------------------------------------------------------------------------
(* Creating orders: api/routes/orders.py.                                  *)

\* The successful orders of the given subscriptions that may come first by
\* paid_at DESC: a NULL does, and orders of one day come in either order.
AnchorOrders(S) ==
    LET C == {q \in placed : /\ order[q].kind = "PLAN"
                             /\ order[q].sub \in S
                             /\ Successful(order[q])}
        unpaid == {q \in C : order[q].paidOn = None}
    IN  IF C = {} THEN {None}
        ELSE IF unpaid # {} THEN {Max(unpaid)}
        ELSE {q \in C : \A r \in C : order[r].paidOn <= order[q].paidOn}

ChainSources(view) ==
    IF view.action = "RENEW" THEN {view.anchor}
    ELSE IF view.action \in Consuming THEN view.sources ELSE {}

NewOrder(o, p, c, view, parent) ==
    [BlankOrder EXCEPT
       !.kind = "PLAN", !.plan = p, !.cycle = c, !.action = view.action,
       !.sources = view.sources, !.anchor = view.anchor,
       !.days = DurationDays(now, c), !.base = view.base,
       !.credit = view.credit, !.payable = view.payable, !.carry = view.carry,
       !.created = now, !.parent = parent,
       !.chain = IF parent = None THEN o ELSE order[parent].chain]

CreateOrder(p, c) ==
    LET o    == made + 1
        view == Preview(p, c)
    IN  /\ made < MaxOrders
        /\ OneAtATime => Idle
        /\ <<p, c>> \in offered
        /\ view.action # "BLOCKED"
        /\ view.action \in Consuming => CreditKnown(Running)
        /\ made' = o
        /\ placed' = placed \cup {o}
        /\ UNCHANGED outside
        /\ \E parent \in AnchorOrders(ChainSources(view)) :
             LET row  == NewOrder(o, p, c, view, parent)
                 zero == [row EXCEPT !.provider = "ZERO"]
             IN  \/ /\ order' = [order EXCEPT ![o] = row]
                    /\ UNCHANGED <<links, sub, subs, granted, money, offered, now>>
                 \/ /\ row.payable = 0      \* the process stops before fulfilling it
                    /\ order' = [order EXCEPT ![o] = zero]
                    /\ UNCHANGED <<links, sub, subs, granted, money, offered, now>>
                 \/ /\ row.payable = 0
                    /\ HandlePaidOrder(o, zero, balance, ledger)

CreateRechargeOrder(a) ==
    LET o == made + 1
    IN  /\ made < MaxOrders
        /\ OneAtATime => Idle
        /\ made' = o
        /\ placed' = placed \cup {o}
        /\ order' = [order EXCEPT ![o] =
                       [BlankOrder EXCEPT !.base = a, !.payable = a,
                                          !.created = now, !.chain = o]]
        /\ UNCHANGED <<links, sub, subs, granted, money, offered, outside, now>>

-----------------------------------------------------------------------------
(* Paying and closing orders.                                              *)

\* Orders time out after 30 minutes, and every handler of an unpaid order
\* times it out first: a later day is always too late.
Payable(o) == o \in placed /\ order[o].status = "CREATED" /\ order[o].created = now

PayLink(o) ==
    /\ Payable(o)
    /\ order' = [order EXCEPT ![o].provider = "EPAY"]
    /\ gateway' = [gateway EXCEPT ![o].trade = IF @ = "none" THEN "open" ELSE @]
    /\ UNCHANGED <<placed, made, links, sub, subs, granted, money, offered,
                   received, returned, now>>

\* Faulty: the balance is compared with the wrong amount of the payload.
AffordsCredit(o) == order[o].credit <= balance

Affords(o) == order[o].payable <= balance

PayByBalance(o) ==
    /\ Payable(o)
    /\ order[o].kind = "PLAN"
    /\ Affords(o)
    /\ HandlePaidOrder(o, [order[o] EXCEPT !.provider = "BALANCE"],
                       balance - order[o].payable, ledger - order[o].payable)
    /\ UNCHANGED <<placed, made, outside>>

\* Faulty: a callback for an order that is no longer waiting is refused.
AcceptedIfWaiting(o) == order[o].provider = "EPAY" /\ order[o].status = "CREATED"

Accepted(o) == order[o].provider = "EPAY"

\* epay_notify and epay_return: the gateway reports a captured trade.
Notify(o) ==
    /\ o \in placed
    /\ Accepted(o)
    /\ gateway[o].trade = "paid"
    /\ Redeliver \/ ~gateway[o].acked
    /\ gateway' = [gateway EXCEPT ![o].acked = TRUE]
    /\ IF Live(order[o])
       THEN UNCHANGED <<order, links, sub, subs, granted, money, offered, now>>
       ELSE HandlePaidOrder(o, order[o], balance, ledger)
    /\ UNCHANGED <<placed, made, received, returned>>

\* Orders S end unpaid.  Those with a payment link are closed at the gateway,
\* which may fail, or come too late: the order ends all the same.
EndUnpaid(S, status) ==
    /\ order' = [o \in Order |-> IF o \in S THEN [order[o] EXCEPT !.status = status]
                                 ELSE order[o]]
    /\ \E C \in SUBSET {o \in S : order[o].provider = "EPAY" /\ gateway[o].trade = "open"} :
          gateway' = [o \in Order |-> IF o \in C THEN [gateway[o] EXCEPT !.trade = "closed"]
                                      ELSE gateway[o]]
    /\ UNCHANGED <<placed, made, links, sub, subs, granted, money, offered,
                   received, returned, now>>

CloseOrder(o)  == Payable(o) /\ EndUnpaid({o}, "TIMEOUT")
CancelOrder(o) == Payable(o) /\ EndUnpaid({o}, "CANCELED")

FinalizeStale(S) ==
    /\ S # {} /\ S \subseteq placed
    /\ \A o \in S : order[o].status = "CREATED"
    /\ EndUnpaid(S, "TIMEOUT")

\* The user pays the open trade at the gateway.
GatewayPay(o) ==
    /\ gateway[o].trade = "open"
    /\ gateway' = [gateway EXCEPT ![o].trade = "paid"]
    /\ received' = received + order[o].payable
    /\ UNCHANGED <<order, placed, made, links, sub, subs, granted, money, offered,
                   returned, now>>

-----------------------------------------------------------------------------
(* Refunds: services/refunds.py, api/routes/orders.py, admin_orders.py.    *)

\* Some upgrade took the order's value over.
HasConsumingDescendants(o) ==
    \/ \E e \in links : e[1] = o
    \/ /\ order[o].sub # None
       /\ \E q \in placed \ {o} : /\ order[q].kind = "PLAN"
                                  /\ Successful(order[q])
                                  /\ order[q].action \in Consuming
                                  /\ order[o].sub \in order[q].sources

\* Faulty: only the order's own status is looked at.
RefundableByStatus(o) ==
    /\ o \in placed
    /\ order[o].kind # "RECHARGE"
    /\ Live(order[o])

\* ensure_order_refundable, and no refund of a recharge.
Refundable(o) ==
    /\ o \in placed
    /\ order[o].kind # "RECHARGE"
    /\ Live(order[o])
    /\ order[o].settlement # "CONSUMED"
    /\ order[o].refund # "REFUNDED"
    /\ ~HasConsumingDescendants(o)

Requestable(row) == row.refund \in {"NONE", "REJECTED", "FAILED"}

RequestRefund(o) ==
    /\ Refundable(o)
    /\ Requestable(order[o])
    /\ order' = [order EXCEPT ![o].refund = "PENDING"]
    /\ UNCHANGED <<placed, made, links, sub, subs, granted, money, offered, outside, now>>

RejectRefund(o) ==
    /\ o \in placed
    /\ order[o].refund = "PENDING"
    /\ order' = [order EXCEPT ![o].refund = "REJECTED"]
    /\ UNCHANGED <<placed, made, links, sub, subs, granted, money, offered, outside, now>>

CreditPart(row) == IF row.action \in Consuming THEN row.credit ELSE 0
RefundTotal(row) == row.payable + CreditPart(row)

\* The order's subscription, or, when that row is gone, the newest active one
\* of the same plan.
SubscriptionOf(o) ==
    LET same == {s \in subs : sub[s].plan = order[o].plan /\ sub[s].status = "ACTIVE"}
    IN  IF order[o].sub \in subs THEN order[o].sub
        ELSE IF same = {} THEN None
        ELSE Max(same)

\* Faulty: the refunded order counts itself, or only the orders before it count.
DaysLeftWithItself(o, s) ==
    MapThenSumSet(LAMBDA q : order[q].days,
                  {q \in LiveOrdersOf(s) : order[q].kind = "PLAN"})
DaysLeftBefore(o, s) ==
    MapThenSumSet(LAMBDA q : order[q].days,
                  {q \in LiveOrdersOf(s) : order[q].kind = "PLAN" /\ q < o})

\* What the other orders of subscription s still pay for.
DaysLeft(o, s) ==
    MapThenSumSet(LAMBDA q : order[q].days,
                  {q \in LiveOrdersOf(s) \ {o} : order[q].kind = "PLAN"})

RollbackSubscription(o) ==
    LET s    == SubscriptionOf(o)
        days == DaysLeft(o, s)
        end  == sub[s].start + days
        ids  == IF s = None \/ days > 0 THEN subs ELSE subs \ {s}
        t    == IF s # None /\ days > 0
                THEN [sub EXCEPT ![s].end = end,
                                 ![s].status = IF end <= now THEN "CANCELED" ELSE "ACTIVE"]
                ELSE [r \in Sub |-> IF r \in ids THEN sub[r] ELSE BlankSub]
    IN  /\ subs' = ids
        /\ sub' = ExpireStale(t, ids)

\* Orders whose value went, directly or through others, into order o: along
\* the value links, or, when there is none, along the subscriptions consumed.
RelatedSources(o) ==
    LET linked == Reach(o, {<<e[2], e[1]>> : e \in links}) \ {o}
        fed    == {e \in placed \X placed :
                     /\ order[e[2]].kind = "PLAN" /\ Successful(order[e[2]])
                     /\ order[e[2]].sub \in order[e[1]].sources}
    IN  IF linked # {} THEN linked
        ELSE IF order[o].action \in Consuming THEN Reach(o, fed) \ {o}
        ELSE {}

\* Faulty: those that were refunded before are settled once more.
CoveredTwice(o) == RelatedSources(o)

Covered(o) == {q \in RelatedSources(o) : order[q].refund # "REFUNDED"}

Refunded(row, settlement) ==
    [row EXCEPT !.status = "REFUNDED", !.refund = "REFUNDED", !.settlement = settlement]

\* The order is refunded, and every order it consumed is settled with it.
CompleteRefund(o) ==
    /\ RollbackSubscription(o)
    /\ order' = [q \in Order |->
         IF q = o THEN Refunded(order[q], "REFUNDED")
         ELSE IF q \in Covered(o) THEN Refunded(order[q], "COVERED_BY_DESCENDANT_REFUND")
         ELSE order[q]]
    /\ UNCHANGED <<placed, made, links, granted, offered, now>>

AdminMayRefund(o) ==
    /\ OneAtATime => Idle
    /\ Refundable(o)
    /\ order[o].refund = "PENDING" \/ Requestable(order[o])

RefundToBalance(o) ==
    /\ AdminMayRefund(o)
    /\ balance' = balance + RefundTotal(order[o])
    /\ ledger' = ledger + RefundTotal(order[o])
    /\ CompleteRefund(o)
    /\ UNCHANGED outside

\* The gateway's answer to a refund call.  It repays a trade at most once.
GatewayAccepts(o) == gateway[o].trade = "paid" /\ gateway[o].refund \in {"none", "refused"}

\* Any answer of the gateway counts as accepted, a refusal included.
ApproveOriginalRefund(o) ==
    /\ AdminMayRefund(o)
    /\ order[o].provider = "EPAY"
    /\ order' = [order EXCEPT ![o].refund = "PROCESSING"]
    /\ \/ /\ GatewayAccepts(o)
          /\ gateway' = [gateway EXCEPT ![o].refund = "accepted", ![o].known = TRUE]
       \/ gateway' = [gateway EXCEPT ![o].refund = IF @ = "none" THEN "refused" ELSE @]
    /\ UNCHANGED <<placed, made, links, sub, subs, granted, money, offered,
                   received, returned, now>>

\* The call raised after the gateway took it: FAILED is assigned and never
\* committed, so no row changes, and the number of the refund is forgotten.
RefundCallLost(o) ==
    /\ LossyGateway
    /\ AdminMayRefund(o)
    /\ order[o].provider = "EPAY"
    /\ GatewayAccepts(o)
    /\ gateway' = [gateway EXCEPT ![o].refund = "accepted"]
    /\ UNCHANGED <<order, placed, made, links, sub, subs, granted, money, offered,
                   received, returned, now>>

GatewaySettle(o) ==
    /\ gateway[o].refund = "accepted"
    /\ gateway' = [gateway EXCEPT ![o].refund = "done"]
    /\ returned' = returned + order[o].payable
    /\ UNCHANGED <<order, placed, made, links, sub, subs, granted, money, offered,
                   received, now>>

\* refund_query asks for the refund the order knows the number of, and nothing
\* happens until the gateway answers "1".
QueryOriginalRefund(o) ==
    /\ o \in placed
    /\ order[o].refund = "PROCESSING"
    /\ gateway[o].refund = "done" /\ gateway[o].known
    /\ balance' = balance + CreditPart(order[o])
    /\ ledger' = ledger + CreditPart(order[o])
    /\ CompleteRefund(o)
    /\ UNCHANGED outside

-----------------------------------------------------------------------------
(* What admins may do to orders and plans.                                 *)

\* update_order_status.
AdminComplete(o) ==
    /\ "status" \in AdminTools
    /\ o \in placed
    /\ ~Live(order[o])
    /\ HandlePaidOrder(o, [order[o] EXCEPT !.provider = IF @ = "NONE" THEN "ADMIN" ELSE @],
                       balance, ledger)
    /\ UNCHANGED <<placed, made, outside>>

AdminSetStatus(o, status) ==
    /\ "status" \in AdminTools
    /\ o \in placed
    /\ order' = [order EXCEPT ![o].status = status, ![o].paidOn = None]
    /\ UNCHANGED <<placed, made, links, sub, subs, granted, money, offered, outside, now>>

\* Faulty: the links that lead to a deleted order stay.
LinksNotFrom(S) == {e \in links : e[1] \notin S}

LinksWithout(S) == {e \in links : e[1] \notin S /\ e[2] \notin S}

\* Faulty: superseded_by_order_id keeps naming the deleted order.
OrphanOf(o, S) ==
    [order[o] EXCEPT !.parent = IF @ \in S THEN None ELSE @,
                     !.chain  = IF @ \in S THEN o ELSE @]

\* Order o after the orders S it refers to are gone.
Detached(o, S) ==
    [order[o] EXCEPT !.parent     = IF @ \in S THEN None ELSE @,
                     !.superseded = IF @ \in S THEN None ELSE @,
                     !.chain      = IF @ \in S THEN o ELSE @]

\* _delete_orders_by_ids.  The gateway is told nothing: it keeps the trade, and
\* the amount of it.
RemoveOrders(S) ==
    /\ placed' = placed \ S
    /\ links' = LinksWithout(S)
    /\ order' = [o \in Order |->
         IF o \in S THEN [BlankOrder EXCEPT !.payable = order[o].payable]
         ELSE Detached(o, S)]
    /\ UNCHANGED <<made, sub, subs, granted, money, offered, outside, now>>

DeleteOrders(S) ==
    /\ "delete" \in AdminTools
    /\ S # {} /\ S \subseteq placed
    /\ RemoveOrders(S)

\* cleanup_orders: those made before a day, or all of them.
CleanupOrders(day) ==
    LET S == {o \in placed : order[o].status \in {"TIMEOUT", "CANCELED"}
                             /\ order[o].created < day}
    IN  S # {} /\ RemoveOrders(S)

DeletePlan(p) ==
    LET gone == {s \in subs : sub[s].plan = p}
    IN  /\ "plan" \in AdminTools
        /\ \E c \in Cycle : <<p, c>> \in offered
        /\ gone \cap Effective = {}
        /\ subs' = subs \ gone
        /\ sub' = [s \in Sub |-> IF s \in gone THEN BlankSub ELSE sub[s]]
        /\ order' = [o \in Order |-> IF order[o].plan = p
                                     THEN [order[o] EXCEPT !.plan = NoPlan]
                                     ELSE order[o]]
        /\ offered' = {pc \in offered : pc[1] # p}
        /\ UNCHANGED <<placed, made, links, granted, money, outside, now>>

\* update_plan: one cycle is taken out of the list; a plan keeps one at least.
DropCycle(p, c) ==
    /\ "plan" \in AdminTools
    /\ <<p, c>> \in offered
    /\ \E d \in Cycle \ {c} : <<p, d>> \in offered
    /\ offered' = offered \ {<<p, c>>}
    /\ UNCHANGED <<order, placed, made, links, sub, subs, granted, money, outside, now>>

-----------------------------------------------------------------------------
(* Time, and the jobs that follow it.                                      *)

ExpireDue ==
    /\ \E s \in subs : sub[s].status = "ACTIVE" /\ sub[s].end <= now
    /\ sub' = ExpireStale(sub, subs)
    /\ UNCHANGED <<order, placed, made, links, subs, granted, money, offered, outside, now>>

CleanupExpired ==
    LET old == {s \in subs : sub[s].status = "EXPIRED" /\ sub[s].end + Retention <= now}
    IN  /\ old # {}
        /\ subs' = subs \ old
        /\ sub' = ExpireStale([s \in Sub |-> IF s \in old THEN BlankSub ELSE sub[s]], subs')
        /\ UNCHANGED <<order, placed, made, links, granted, money, offered, outside, now>>

Tick ==
    /\ now < MaxNow
    /\ now' = now + 1
    /\ UNCHANGED <<order, placed, made, links, sub, subs, granted, money, offered, outside>>

-----------------------------------------------------------------------------
UserStep ==
    \/ \E p \in Plan, c \in Cycle : CreateOrder(p, c)
    \/ \E a \in RechargeAmounts : CreateRechargeOrder(a)
    \/ \E o \in Order : \/ PayLink(o) \/ PayByBalance(o)
                        \/ CloseOrder(o) \/ CancelOrder(o) \/ RequestRefund(o)

GatewayStep ==
    \E o \in Order : GatewayPay(o) \/ Notify(o) \/ GatewaySettle(o)

AdminStep ==
    \/ \E o \in Order : \/ RejectRefund(o) \/ RefundToBalance(o)
                        \/ ApproveOriginalRefund(o) \/ RefundCallLost(o)
                        \/ QueryOriginalRefund(o) \/ AdminComplete(o)
    \/ \E o \in Order, status \in {"CREATED", "CANCELED", "TIMEOUT"} : AdminSetStatus(o, status)
    \/ \E S \in SUBSET Order : DeleteOrders(S)
    \/ \E day \in 1..(now + 1) : CleanupOrders(day)
    \/ \E p \in Plan : DeletePlan(p)
    \/ \E p \in Plan, c \in Cycle : DropCycle(p, c)

JobStep ==
    \/ \E S \in SUBSET Order : FinalizeStale(S)
    \/ ExpireDue \/ CleanupExpired

Next == UserStep \/ GatewayStep \/ AdminStep \/ JobStep \/ Tick

Spec == Init /\ [][Next]_vars

=============================================================================
