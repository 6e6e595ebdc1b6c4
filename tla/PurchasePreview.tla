--------------------------- MODULE PurchasePreview ---------------------------
(***************************************************************************)
(* What a purchase of a plan would do to the user's subscriptions of the   *)
(* group: buy directly, renew, upgrade, replace a trial, or be refused,    *)
(* and how much of what was paid before is credited.  The decision is      *)
(* taken once, when the order is created, and stored in its payload.       *)
(***************************************************************************)
EXTENDS BillingState

CONSTANT TrialBlocked   \* users.trial_used, set by an admin

\* group_rows is sorted by end_at, then created_at; the last one counts.
Last(S) == CHOOSE s \in S : \A t \in S :
              sub[t].end < sub[s].end \/ (sub[t].end = sub[s].end /\ t <= s)

Current == IF Effective = {} THEN None ELSE Last(Effective)
Latest  == IF Running = {} THEN None ELSE Last(Running)

TierOf(s)  == IF s = None THEN 0 ELSE Tier[sub[s].plan]
CycleOf(s) == IF s = None THEN "none" ELSE sub[s].cycle

-----------------------------------------------------------------------------
(* Credit for the unused part of a subscription.                           *)

HalfUp(a, b) == (2 * a + b) \div (2 * b)

\* Faulty: orders that were refunded count as well.
EverPaid(s) ==
    LET paid == {o \in placed : order[o].sub = s /\ Successful(order[o])}
    IN  IF paid = {} THEN ListPrice[<<sub[s].plan, sub[s].cycle>>]
        ELSE MapThenSumSet(LAMBDA o : order[o].base, paid)

\* What the subscription cost: the base price of every order still paid for
\* it, or today's list price when no order is attached to it.
OriginalAmount(s) ==
    IF LiveOrdersOf(s) = {}
    THEN ListPrice[<<sub[s].plan, sub[s].cycle>>]
    ELSE MapThenSumSet(LAMBDA o : order[o].base, LiveOrdersOf(s))

RemainingCredit(s) ==
    LET original == OriginalAmount(s)
        share == HalfUp(original * (sub[s].end - now), sub[s].end - sub[s].start)
    IN  IF sub[s].cycle = "LIFETIME" \/ share > original THEN original ELSE share

\* A subscription without orders is priced by the cycle it was sold with,
\* which fails when the plan no longer has that cycle.
CreditKnown(S) ==
    \A s \in S : LiveOrdersOf(s) = {} => <<sub[s].plan, sub[s].cycle>> \in offered

TotalCredit == MapThenSumSet(RemainingCredit, Running)

-----------------------------------------------------------------------------
(* The decision.                                                           *)

\* Cycles of the group's successful orders, refunded ones included, and of
\* every subscription row the user still has.
BoughtCycles == {order[o].cycle : o \in {p \in placed : /\ order[p].kind = "PLAN"
                                                        /\ order[p].plan # NoPlan
                                                        /\ Successful(order[p])}}
                \cup {sub[s].cycle : s \in subs}

TrialRefused(p) ==
    \/ TrialBlocked
    \/ BoughtCycles \ {"TRIAL"} # {}
    \/ /\ "TRIAL" \in BoughtCycles
       /\ ~(CycleOf(Current) = "TRIAL" /\ Tier[p] > TierOf(Current))

\* A lifetime purchase that was not refunded locks the group.
LifetimeLock ==
    \E o \in placed : /\ order[o].kind = "PLAN"
                      /\ order[o].plan # NoPlan
                      /\ order[o].cycle = "LIFETIME"
                      /\ Live(order[o])
                      /\ order[o].refund # "REFUNDED"

LifetimeTierUp(p, c) ==
    /\ c = "LIFETIME"
    /\ \E s \in {Current, Latest} \ {None} :
          sub[s].cycle = "LIFETIME" /\ Tier[p] > TierOf(s)

\* A purchase while a subscription of the group is in effect.
ActionOnCurrent(p, c) ==
    IF Tier[p] < TierOf(Current) THEN "BLOCKED"
    ELSE IF Tier[p] > TierOf(Current) THEN "UPGRADE"
    ELSE IF p # sub[Current].plan THEN "BLOCKED"
    ELSE IF CycleOf(Current) = "TRIAL"
         THEN IF c = "TRIAL" THEN "BLOCKED" ELSE "REPLACE_TRIAL"
    ELSE IF c = "LIFETIME" /\ CycleOf(Current) # "LIFETIME" THEN "UPGRADE"
    ELSE "RENEW"

\* A purchase while the group's subscriptions are only queued.
ActionOnQueued(p, c) ==
    IF Tier[p] > TierOf(Latest) THEN "UPGRADE"
    ELSE IF p # sub[Latest].plan \/ (CycleOf(Latest) = "TRIAL" /\ c = "TRIAL") THEN "BLOCKED"
    ELSE "RENEW"

PurchaseAction(p, c) ==
    IF c = "TRIAL" /\ TrialRefused(p) THEN "BLOCKED"
    ELSE IF LifetimeLock THEN IF LifetimeTierUp(p, c) THEN "UPGRADE" ELSE "BLOCKED"
    ELSE IF Current # None THEN ActionOnCurrent(p, c)
    ELSE IF Latest # None THEN ActionOnQueued(p, c)
    ELSE "DIRECT_PURCHASE"

\* The payload of the order create_order would write.  An order that consumes
\* nothing names the current subscription as its only source.
Preview(p, c) ==
    LET action  == PurchaseAction(p, c)
        current == IF Current = None THEN Latest ELSE Current
        base    == ListPrice[<<p, c>>]
        credit  == IF action \in Consuming THEN TotalCredit ELSE 0
    IN  [ action  |-> action,
          sources |-> IF action \in Consuming THEN Running ELSE {current} \ {None},
          anchor  |-> IF action = "RENEW" THEN Latest ELSE None,
          base    |-> base,
          credit  |-> credit,
          payable |-> IF base > credit THEN base - credit ELSE 0,
          carry   |-> IF credit > base THEN credit - base ELSE 0 ]

=============================================================================
