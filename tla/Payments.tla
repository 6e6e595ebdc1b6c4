------------------------------ MODULE Payments ------------------------------
(***************************************************************************)
(* The handlers that pay, close and refund the orders of one user as they  *)
(* are meant to be: one after the other, each on the rows as they are.     *)
(* PaymentSessions runs the same handlers side by side; whether it still   *)
(* implements this specification is the question.                          *)
(*                                                                         *)
(* What is kept of the rows is what two handlers can spoil for each other: *)
(* the status columns of the orders, the balance, and the end of a         *)
(* subscription that several orders renew.                                 *)
(***************************************************************************)
EXTENDS Integers, FiniteSets

CONSTANTS
    Order,          \* orders that were created
    Kind,           \* of each: "NEW" grants a subscription, "RENEW" extends the one the user has
    Amount,         \* orders.amount
    Credit,         \* credit_amount of an upgrade
    Carry,          \* carry_balance_amount of an upgrade
    InitialBalance,
    Term,           \* days of a renewal
    Adjustment      \* what an admin adds or takes with "deposit" and "withdraw"

ASSUME PaymentsAssumption ==
    /\ IsFiniteSet(Order)
    /\ Kind \in [Order -> {"NEW", "RENEW", "RECHARGE"}]
    /\ Amount \in [Order -> Nat] /\ Credit \in [Order -> Nat]
    /\ Carry \in [Order -> Nat]
    /\ InitialBalance \in Nat /\ Term \in Nat
    /\ Adjustment \in [{"deposit", "withdraw"} -> Int]

VARIABLES
    order,      \* the columns of orders that the handlers decide on
    balance,    \* users.balance
    ledger,     \* sum of the deltas in balance_transactions
    end,        \* days the user's subscription was extended by
    granted,    \* terms, subscriptions or amounts given for each order
    refunded,   \* refunds completed for each order
    gateway     \* the trades of the orders (external)

vars == <<order, balance, ledger, end, granted, refunded, gateway>>

Closing  == {"close", "expire", "cancel"}
Op == {"notify", "pay", "link", "request", "reject", "refund", "approve", "query",
       "deposit", "withdraw"} \cup Closing
Adjusting == {"deposit", "withdraw"}

Row == [ status   : {"CREATED", "COMPLETED", "CANCELED", "TIMEOUT", "REFUNDED"},
         provider : {"NONE", "EPAY", "BALANCE"},
         refund   : {"NONE", "PENDING", "REJECTED", "PROCESSING", "REFUNDED"},
         number   : {"none", "known", "wrong"} ]

Trade == [ trade  : {"none", "open", "paid", "closed"},
           acked  : BOOLEAN,
           refund : {"none", "accepted", "done"} ]

\* PAID and FAILED are never committed by these handlers: the one is left
\* before, the other lost with an exception.
Live(row)        == row.status = "COMPLETED"
Requestable(row) == row.refund \in {"NONE", "REJECTED"}

Init ==
    /\ order = [o \in Order |-> [status |-> "CREATED", provider |-> "NONE",
                              refund |-> "NONE", number |-> "none"]]
    /\ balance = InitialBalance /\ ledger = 0 /\ end = 0
    /\ granted = [o \in Order |-> 0] /\ refunded = [o \in Order |-> 0]
    /\ gateway = [o \in Order |-> [trade |-> "none", acked |-> FALSE, refund |-> "none"]]

\* What a handler of order o works with: what it reads, and what the gateway
\* answered to a refund call.
View(o) == [ row     |-> order[o],
             balance |-> balance,
             end     |-> end,
             taken   |-> FALSE,
             others  |-> Cardinality({q \in Order \ {o} : Kind[q] = "RENEW" /\ Live(order[q])}) ]

-----------------------------------------------------------------------------
(* What each handler checks before it goes on, and what it makes of a view.*)

\* Faulty: a callback for an order that was closed is taken for a repeated one.
HandledOrClosed(row) == row.status # "CREATED"

\* handle_paid_order returns at once for an order that was paid before.
Handled(row) == Live(row)

MayNotify(o, row)  == row.provider = "EPAY" /\ gateway[o].trade = "paid"
MayPay(o, row)     == row.status = "CREATED" /\ Kind[o] # "RECHARGE"
MayRequest(o, row) == Live(row) /\ Kind[o] # "RECHARGE" /\ Requestable(row)
MayRefund(o, row)  == Live(row) /\ Kind[o] # "RECHARGE" /\ (Requestable(row) \/ row.refund = "PENDING")

Allowed(op, o, row) ==
    \/ op = "notify"  /\ MayNotify(o, row) /\ ~Handled(row)
    \/ op = "pay"     /\ MayPay(o, row)
    \/ op \in Closing \cup {"link"} /\ row.status = "CREATED"
    \/ op = "request" /\ MayRequest(o, row)
    \/ op = "reject"  /\ row.refund = "PENDING"
    \/ op = "refund"  /\ MayRefund(o, row)
    \/ op = "approve" /\ MayRefund(o, row) /\ row.provider = "EPAY"
    \/ op = "query"   /\ row.refund = "PROCESSING"
    \/ op \in Adjusting

Covers(op, o, funds) ==
    /\ op = "pay" => funds >= Amount[o]
    /\ op \in Adjusting => funds + Adjustment[op] >= 0

\* The gateway knows the refund under the order's number and has paid it.
Settled(op, o, row) == op = "query" => gateway[o].refund = "done" /\ row.number = "known"

\* out_refund_no is drawn for each refund call; the gateway knows the one it took.
NewRow(op, v) == LET row == v.row IN
    CASE op = "notify"              -> [row EXCEPT !.status = "COMPLETED"]
      [] op = "pay"                 -> [row EXCEPT !.status = "COMPLETED", !.provider = "BALANCE"]
      [] op = "link"                -> [row EXCEPT !.provider = "EPAY"]
      [] op \in {"close", "expire"} -> [row EXCEPT !.status = "TIMEOUT"]
      [] op = "cancel"              -> [row EXCEPT !.status = "CANCELED"]
      [] op = "request"             -> [row EXCEPT !.refund = "PENDING"]
      [] op = "reject"              -> [row EXCEPT !.refund = "REJECTED"]
      [] op = "approve"             -> [row EXCEPT !.refund = "PROCESSING",
                                                    !.number = IF v.taken THEN "known" ELSE "wrong"]
      [] op \in {"refund", "query"} -> [row EXCEPT !.status = "REFUNDED", !.refund = "REFUNDED"]
      [] OTHER                      -> row

Delta(op, o) ==
    CASE op = "notify" -> IF Kind[o] = "RECHARGE" THEN Amount[o] ELSE Carry[o]
      [] op = "pay"    -> Carry[o] - Amount[o]
      [] op = "refund" -> Amount[o] + Credit[o]
      [] op = "query"  -> Credit[o]
      [] op \in Adjusting -> Adjustment[op]
      [] OTHER         -> 0

\* A renewal adds its term; the refund of one computes the end from the orders
\* that are left.
NewEnd(op, o, v) ==
    IF Kind[o] # "RENEW" THEN v.end
    ELSE IF op \in {"notify", "pay"} THEN v.end + Term
    ELSE IF op \in {"refund", "query"} THEN Term * v.others
    ELSE v.end

\* Faulty: a transaction writes its whole copy.
WholeRow(row, seen, new) == new

\* The columns a transaction writes are those it changed in its own copy of
\* the row; the others stay as they are in the table.
Merge(row, seen, new) ==
    [c \in {"status", "provider", "refund", "number"} |-> IF new[c] # seen[c] THEN new[c] ELSE row[c]]

\* A trade after the response: a pay link opens it, a callback is answered.
Told(op, t) == [t EXCEPT !.trade = IF op = "link" /\ @ = "none" THEN "open" ELSE @,
                         !.acked = IF op = "notify" THEN TRUE ELSE @]

\* Handler op of order o writes what it made of view v.
Write(op, o, v) ==
    /\ order' = [order EXCEPT ![o] = Merge(@, v.row, NewRow(op, v))]
    /\ balance' = IF Delta(op, o) # 0 THEN v.balance + Delta(op, o) ELSE balance
    /\ ledger' = ledger + Delta(op, o)
    /\ end' = IF NewEnd(op, o, v) # v.end THEN NewEnd(op, o, v) ELSE end
    /\ granted' = [granted EXCEPT ![o] = IF op \in {"notify", "pay"} THEN @ + 1 ELSE @]
    /\ refunded' = [refunded EXCEPT ![o] = IF op \in {"refund", "query"} THEN @ + 1 ELSE @]
    /\ gateway' = [gateway EXCEPT ![o] = Told(op, @)]

\* A callback for an order that was paid before is answered with "success".
Repeat(o) ==
    /\ MayNotify(o, order[o]) /\ Handled(order[o])
    /\ gateway' = [gateway EXCEPT ![o].acked = TRUE]
    /\ UNCHANGED <<order, balance, ledger, end, granted, refunded>>

-----------------------------------------------------------------------------
(* The gateway and the user at it.                                         *)

GatewayPay(o)    == gateway[o].trade = "open" /\ gateway' = [gateway EXCEPT ![o].trade = "paid"]
GatewayClose(o)  == gateway[o].trade = "open" /\ gateway' = [gateway EXCEPT ![o].trade = "closed"]
GatewayRefund(o) == /\ gateway[o].trade = "paid" /\ gateway[o].refund = "none"
                    /\ gateway' = [gateway EXCEPT ![o].refund = "accepted"]
GatewaySettle(o) == /\ gateway[o].refund = "accepted"
                    /\ gateway' = [gateway EXCEPT ![o].refund = "done"]

GatewayStep(o) ==
    /\ GatewayPay(o) \/ GatewayClose(o) \/ GatewayRefund(o) \/ GatewaySettle(o)
    /\ UNCHANGED <<order, balance, ledger, end, granted, refunded>>

Serve(op, o) ==
    /\ Allowed(op, o, order[o])
    /\ Covers(op, o, balance)
    /\ Settled(op, o, order[o])
    /\ \E taken \in BOOLEAN : Write(op, o, [View(o) EXCEPT !.taken = taken])

SerialNext == \E o \in Order : Repeat(o) \/ GatewayStep(o) \/ \E op \in Op : Serve(op, o)

SerialSpec == Init /\ [][SerialNext]_vars

=============================================================================
