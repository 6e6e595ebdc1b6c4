--------------------------- MODULE PaymentSessions ---------------------------
(***************************************************************************)
(* The handlers of Payments as concurrent database sessions.               *)
(*                                                                         *)
(* A handler reads rows into its session, awaits, and writes at the end.   *)
(* PostgreSQL runs READ COMMITTED: a query sees what is committed, nothing *)
(* but an UPDATE, or FOR UPDATE in adjust_balance, locks a row, and the    *)
(* session keeps using what it read first.  SQLAlchemy sends an UPDATE     *)
(* before the next query (autoflush), so a handler that changed the order  *)
(* and then queries holds the lock of the row until it commits.  Values    *)
(* are written as they were computed, never as increments.                 *)
(*                                                                         *)
(* SameOrder and OtherOrder say which handlers may overlap, so that a run  *)
(* can ask what each overlap costs.                                        *)
(***************************************************************************)
EXTENDS Payments

CONSTANTS
    Session,        \* concurrent requests
    SameOrder,      \* sets of handlers that may overlap on one order
    OtherOrder,     \* and on different orders of the user
    MaxRequests     \* bound: requests ever made

ASSUME SessionsAssumption ==
    /\ SameOrder \subseteq SUBSET Op /\ OtherOrder \subseteq SUBSET Op
    /\ MaxRequests \in Nat

VARIABLES
    session,    \* what each request has read, and how far it is
    requests    \* requests made so far

allVars == <<vars, session, requests>>

Free == [pc |-> "free"]
Busy(s) == session[s].pc # "free"

SessionInit ==
    /\ Init
    /\ session = [s \in Session |-> Free]
    /\ requests = 0

-----------------------------------------------------------------------------
(* Locks.                                                                  *)

\* Faulty: adjust_balance reads the user without FOR UPDATE.
LocksUserOnWrite(r) == r.op = "pay" /\ r.pc = "ready"

\* Sessions whose UPDATE of their order was sent and is not committed yet.  A
\* refund that was requested before changes the order only at its end.
LocksOrder(r) ==
    /\ r.pc = "ready"
    /\ r.op \in {"notify", "pay", "query"} \/ (r.op = "refund" /\ r.view.row.refund # "PENDING")

\* Sessions that hold the lock of the user's row while they go on.  The others
\* change the balance after their last read: Commit has that lock.
LocksUser(r) == r.pc = "ready" /\ r.op \in Adjusting \cup {"pay"}

OrderIsFree(s) ==
    \A t \in Session \ {s} :
        ~(Busy(t) /\ session[t].o = session[s].o /\ LocksOrder(session[t]))
UserIsFree(s) == \A t \in Session \ {s} : ~(Busy(t) /\ LocksUser(session[t]))

-----------------------------------------------------------------------------
(* A request.                                                              *)

MayOverlap(op, o, r) ==
    {op, r.op} \in (IF r.o = o /\ {op, r.op} \cap Adjusting = {} THEN SameOrder ELSE OtherOrder)

\* Handlers that have nothing to wait for between their reads and their commit.
Short == {"link", "request", "reject"}

\* The request arrives and reads the order.
Begin(s, op, o) ==
    /\ ~Busy(s)
    /\ requests < MaxRequests
    /\ op \notin Adjusting
    /\ \A t \in Session : Busy(t) => MayOverlap(op, o, session[t])
    /\ Allowed(op, o, order[o])
    /\ session' = [session EXCEPT ![s] =
         [pc |-> IF op \in Short THEN "ready" ELSE "begun", op |-> op, o |-> o, view |-> View(o)]]
    /\ requests' = requests + 1
    /\ UNCHANGED vars

\* A repeated callback reads the order, finds it handled and answers.
BeginRepeat(o) ==
    /\ requests < MaxRequests
    /\ Repeat(o)
    /\ requests' = requests + 1
    /\ UNCHANGED session

\* adjust_balance reads the user under its lock.
BeginAdjust(s, op, o) ==
    /\ ~Busy(s)
    /\ requests < MaxRequests
    /\ op \in Adjusting
    /\ \A t \in Session : Busy(t) => MayOverlap(op, o, session[t])
    /\ UserIsFree(s)
    /\ Covers(op, o, balance)
    /\ session' = [session EXCEPT ![s] =
         [pc |-> "ready", op |-> op, o |-> o, view |-> View(o)]]
    /\ requests' = requests + 1
    /\ UNCHANGED vars

\* create_pay_link reads the user and compares.
ReadFunds(s) ==
    /\ Busy(s) /\ session[s].op = "pay" /\ session[s].pc = "begun"
    /\ Covers("pay", session[s].o, balance)
    /\ session' = [session EXCEPT ![s].pc = "funded", ![s].view.balance = balance]
    /\ UNCHANGED <<vars, requests>>

\* What was changed so far is sent, which takes the locks; what is still to be
\* read is read.  The order and, for a payment, the balance are not read again.
Flush(s) ==
    LET r     == session[s]
        fresh == View(r.o)
    IN  /\ Busy(s)
        /\ \/ r.pc = "begun" /\ r.op \in {"notify", "refund", "query"}
           \/ r.pc = "funded" /\ r.op = "pay"
        /\ LocksOrder([r EXCEPT !.pc = "ready"]) => OrderIsFree(s)
        /\ LocksUser([r EXCEPT !.pc = "ready"]) => UserIsFree(s)
        /\ Settled(r.op, r.o, r.view.row)
        /\ session' = [session EXCEPT
             ![s].pc = "ready",
             ![s].view = [fresh EXCEPT !.row = r.view.row,
                                       !.balance = IF r.op = "pay" THEN r.view.balance ELSE @]]
        /\ UNCHANGED <<vars, requests>>

\* try_close_remote_order: the gateway closes the trade, or does not.
AskClose(s) ==
    /\ Busy(s) /\ session[s].pc = "begun" /\ session[s].op \in Closing
    /\ \/ session[s].view.row.provider = "EPAY" /\ GatewayClose(session[s].o)
       \/ UNCHANGED gateway
    /\ session' = [session EXCEPT ![s].pc = "ready"]
    /\ UNCHANGED <<order, balance, ledger, end, granted, refunded, requests>>

\* approve_original_refund: the gateway takes the refund, or refuses.  The
\* number of the call is new, whatever number the order holds.
AskRefund(s) ==
    /\ Busy(s) /\ session[s].pc = "begun" /\ session[s].op = "approve"
    /\ \E taken \in BOOLEAN :
         /\ IF taken THEN GatewayRefund(session[s].o) ELSE UNCHANGED gateway
         /\ session' = [session EXCEPT ![s].pc = "ready", ![s].view.taken = taken,
                                       ![s].view.row.number = "none"]
    /\ UNCHANGED <<order, balance, ledger, end, granted, refunded, requests>>

Commit(s) ==
    /\ Busy(s) /\ session[s].pc = "ready"
    /\ session[s].op \notin Adjusting => OrderIsFree(s)
    /\ Delta(session[s].op, session[s].o) # 0 => UserIsFree(s)
    /\ Write(session[s].op, session[s].o, session[s].view)
    /\ session' = [session EXCEPT ![s] = Free]
    /\ UNCHANGED requests

\* An exception, a deadlock that PostgreSQL breaks, or the end of the process.
Abort(s) ==
    /\ Busy(s)
    /\ session' = [session EXCEPT ![s] = Free]
    /\ UNCHANGED <<vars, requests>>

SessionStep(s) ==
    \/ \E o \in Order, op \in Op : Begin(s, op, o) \/ BeginAdjust(s, op, o)
    \/ ReadFunds(s) \/ Flush(s) \/ AskClose(s) \/ AskRefund(s)
    \/ Commit(s) \/ Abort(s)

Outside(o) ==
    /\ GatewayPay(o) \/ GatewaySettle(o)
    /\ UNCHANGED <<order, balance, ledger, end, granted, refunded, session, requests>>

SessionNext ==
    \/ \E s \in Session : SessionStep(s)
    \/ \E o \in Order : BeginRepeat(o) \/ Outside(o)

Spec == SessionInit /\ [][SessionNext]_allVars

-----------------------------------------------------------------------------
(* Overlaps: the pairs of handlers that spoil nothing for each other.      *)

EveryPair == {{x, y} : x, y \in Op}

\* Handlers of one order that must not overlap: those that end its wait for
\* money, those that end a refund.
PaymentConflicts ==
    {{x, y} : x \in {"notify", "pay"}, y \in {"notify", "pay"} \cup Closing}
    \cup {{"link", y} : y \in {"pay"} \cup Closing}
    \cup {{"cancel", y} : y \in {"close", "expire"}}
RefundConflicts ==
    {{x, y} : x \in {"refund", "approve"}, y \in {"request", "reject", "refund", "approve"}}
    \cup {{"query"}}

\* Handlers of one user that must not: those that write what they share.
\* Nothing in the code keeps any of them apart.
Writing == {"notify", "pay", "refund", "query"}

BalanceConflicts == {{x, y} : x \in Writing, y \in Writing \cup Adjusting}

Harmless       == EveryPair \ (PaymentConflicts \cup RefundConflicts)
HarmlessAcross == EveryPair \ BalanceConflicts

-----------------------------------------------------------------------------
(* Properties.                                                             *)

Request == [ pc   : {"begun", "funded", "ready"},
             op   : Op,
             o    : Order,
             view : [ row : Row, balance : Nat, end : Nat, others : Nat, taken : BOOLEAN ] ]

\* Every column holds a value of its type; handlers that overlap never take
\* the balance below zero, whatever else they do to it.
TypeOK ==
    /\ order \in [Order -> Row]
    /\ balance \in Nat /\ ledger \in Int /\ end \in Nat
    /\ granted \in [Order -> Nat] /\ refunded \in [Order -> Nat]
    /\ gateway \in [Order -> Trade]
    /\ session \in [Session -> Request \cup {Free}]
    /\ requests \in 0..MaxRequests

\* A request that will take from the balance has seen that it covers it.
FundsAreCovered ==
    \A s \in Session :
        Busy(s) /\ session[s].pc # "begun" =>
            Covers(session[s].op, session[s].o, session[s].view.balance)

\* The handlers that may overlap behave as if they ran one after the other, in
\* the order of their commits: no lost update of the balance or of the end of a
\* subscription, no order fulfilled or refunded twice, no status overwritten.
Serializable == SerialSpec

\* Whatever overlaps: a callback that was answered with "success", so that the
\* gateway never sends it again, belongs to an order that was fulfilled
\* (routes/payments.py, epay_notify).
AckedIsGranted == \A o \in Order : gateway[o].acked => granted[o] > 0

\* The inductive invariant behind it: an order that counts as handled was
\* fulfilled, at least once.
DeliveryInvariant ==
    /\ TypeOK
    /\ FundsAreCovered
    /\ \A o \in Order : Live(order[o]) => granted[o] > 0
    /\ AckedIsGranted

-----------------------------------------------------------------------------
(* Why the harmless overlaps are harmless.                                 *)

HarmlessOnly == SameOrder \subseteq Harmless /\ OtherOrder \subseteq HarmlessAcross

\* Requests that run side by side are those that may.
OnlyAllowedOverlap ==
    \A s, t \in Session : s # t /\ Busy(s) /\ Busy(t) =>
        MayOverlap(session[s].op, session[s].o, session[t])

\* A single request at a time is about to write what the orders of a user share.
OneWriter ==
    \A s, t \in Session :
        /\ Busy(s) /\ session[s].op \in Writing \cup Adjusting
        /\ Busy(t) /\ session[t].op \in Writing \cup Adjusting
        => s = t

\* A refund that the gateway works on belongs to a paid order.
ProcessingIsLive == \A o \in Order : order[o].refund = "PROCESSING" => Live(order[o])

\* What request r decided on still holds of the row, or its write is already
\* there; and what r changed in its copy it will find changed.
RowHolds(r) ==
    LET row  == order[r.o]
        seen == r.view.row
    IN  /\ r.op = "notify" => MayNotify(r.o, row) /\ ~Live(row) /\ ~Live(seen)
        /\ r.op = "pay" => /\ MayPay(r.o, row) /\ MayPay(r.o, seen)
                           /\ seen.provider = row.provider
        /\ r.op = "link" => /\ seen.provider = "EPAY" => row.provider = "EPAY"
                            /\ \/ row.status = "CREATED"
                               \/ row.provider = "EPAY" /\ gateway[r.o].trade # "none"
        /\ r.op \in Closing =>
               seen.status = "CREATED" /\ row.status \in {"CREATED", NewRow(r.op, r.view).status}
        /\ r.op = "request" => MayRefund(r.o, row) /\ seen.refund # "PENDING"
        /\ r.op = "reject" => seen.refund = "PENDING" /\ row.refund \in {"PENDING", "REJECTED"}
        /\ r.op \in {"refund", "approve"} => MayRefund(r.o, row) /\ MayRefund(r.o, seen)
        /\ r.op = "approve" => /\ row.provider = "EPAY"
                               /\ r.pc = "ready" => seen.number = "none"
        /\ r.op = "query" => /\ Live(row) /\ row.refund = "PROCESSING"
                             /\ Live(seen) /\ seen.refund = "PROCESSING"
                             /\ seen.number = row.number
                             /\ r.pc = "ready" => Settled("query", r.o, seen)

\* What request r read of the balance and of the subscription is still there.
SharedHolds(r) ==
    /\ r.op \in Adjusting => r.pc = "ready"
    /\ r.op \in Writing \cup Adjusting /\ (r.pc = "ready" \/ r.pc = "funded") =>
           r.view.balance = balance
    /\ r.op \in Writing /\ r.pc = "ready" =>
           r.view.end = end /\ r.view.others = View(r.o).others

\* The inductive invariant behind Serializable.  What a request read before it
\* awaited is still true when it commits, or another request already did the
\* same: between its checks and its commit nobody moves the row to where the
\* handler would have refused it, or the balance and the end it adds to
\* (the reads and writes of routes/orders.py, services/refunds.py).
SessionsInvariant ==
    /\ DeliveryInvariant
    /\ OnlyAllowedOverlap
    /\ OneWriter
    /\ ProcessingIsLive
    /\ \A s \in Session : Busy(s) => RowHolds(session[s]) /\ SharedHolds(session[s])

=============================================================================
