------------------------ MODULE PaymentSessionsProofs ------------------------
(***************************************************************************)
(* What holds of the concurrent handlers for every finite set of orders,   *)
(* every number of sessions and every choice of overlaps.                  *)
(***************************************************************************)
EXTENDS PaymentSessions, FiniteSetTheorems, TLAPS

USE DEF Free

-----------------------------------------------------------------------------
(* Types of what a handler reads and computes.                             *)

LEMMA ViewType ==
    ASSUME TypeOK, NEW o \in Order
    PROVE  View(o) \in [ row : Row, balance : Nat, end : Nat, others : Nat, taken : BOOLEAN ]
<1> DEFINE S == {q \in Order \ {o} : Kind[q] = "RENEW" /\ Live(order[q])}
<1>1. IsFiniteSet(S)
  BY FS_Subset, PaymentsAssumption DEF PaymentsAssumption
<1>2. Cardinality(S) \in Nat
  BY <1>1, FS_CardinalityType
<1>3. order[o] \in Row /\ balance \in Nat /\ end \in Nat
  BY DEF TypeOK
<1>4. QED
  BY <1>2, <1>3 DEF View

LEMMA NewRowType ==
    ASSUME NEW op \in Op, NEW v, v.row \in Row
    PROVE  /\ NewRow(op, v) \in Row
           /\ NewRow(op, v).status = "COMPLETED" =>
                  v.row.status = "COMPLETED" \/ op \in {"notify", "pay"}
<1>1. CASE op = "notify" BY <1>1 DEF NewRow, Row
<1>2. CASE op = "pay" BY <1>2 DEF NewRow, Row
<1>3. CASE op = "link" BY <1>3 DEF NewRow, Row
<1>4. CASE op \in {"close", "expire"} BY <1>4 DEF NewRow, Row
<1>5. CASE op = "cancel" BY <1>5 DEF NewRow, Row
<1>6. CASE op = "request" BY <1>6 DEF NewRow, Row
<1>7. CASE op = "reject" BY <1>7 DEF NewRow, Row
<1>8. CASE op = "approve" BY <1>8 DEF NewRow, Row
<1>9. CASE op \in {"refund", "query"} BY <1>9 DEF NewRow, Row
<1>10. CASE op \in {"deposit", "withdraw"} BY <1>10 DEF NewRow, Row
<1>11. QED
  BY <1>1, <1>2, <1>3, <1>4, <1>5, <1>6, <1>7, <1>8, <1>9, <1>10 DEF Op, Closing

LEMMA MergeType ==
    ASSUME NEW row \in Row, NEW seen \in Row, NEW new \in Row
    PROVE  /\ Merge(row, seen, new) \in Row
           /\ Merge(row, seen, new).status =
                  IF new.status # seen.status THEN new.status ELSE row.status
BY DEF Merge, Row

\* What a handler adds to the balance is an integer, and never more than there
\* is to take.
LEMMA DeltaType ==
    ASSUME NEW op \in Op, NEW o \in Order
    PROVE  /\ Delta(op, o) \in Int
           /\ op \notin Adjusting \cup {"pay"} => Delta(op, o) >= 0
           /\ \A funds \in Nat :
                 op \in Adjusting \cup {"pay"} /\ Covers(op, o, funds) => funds + Delta(op, o) >= 0
<1> USE PaymentsAssumption DEF PaymentsAssumption
<1>0. Amount[o] \in Nat /\ Carry[o] \in Nat /\ Credit[o] \in Nat
  OBVIOUS
<1>1. CASE op = "notify" BY <1>0, <1>1 DEF Delta, Adjusting
<1>2. CASE op = "pay" BY <1>0, <1>2 DEF Delta, Adjusting, Covers
<1>3. CASE op = "refund" BY <1>0, <1>3 DEF Delta, Adjusting
<1>4. CASE op = "query" BY <1>0, <1>4 DEF Delta, Adjusting
<1>5. CASE op = "deposit" BY <1>5 DEF Delta, Adjusting, Covers
<1>6. CASE op = "withdraw" BY <1>6 DEF Delta, Adjusting, Covers
<1>7. CASE op \in {"link", "request", "reject", "approve"} \cup Closing
  BY <1>7 DEF Delta, Adjusting, Closing
<1>8. QED
  BY <1>1, <1>2, <1>3, <1>4, <1>5, <1>6, <1>7 DEF Op

LEMMA EndType ==
    ASSUME NEW op, NEW o \in Order, NEW v, v.end \in Nat, v.others \in Nat
    PROVE  NewEnd(op, o, v) \in Nat
BY PaymentsAssumption DEF NewEnd, PaymentsAssumption

-----------------------------------------------------------------------------
(* An answered callback belongs to a fulfilled order.                      *)

LEMMA InitDelivers == SessionInit => DeliveryInvariant
BY PaymentsAssumption, SessionsAssumption
   DEF PaymentsAssumption, SessionsAssumption, SessionInit, Init, DeliveryInvariant, TypeOK, FundsAreCovered,
       AckedIsGranted, Live, Row, Trade, Busy

\* The rows after the write of any handler, from whatever it read.
LEMMA WriteDelivers ==
    ASSUME DeliveryInvariant, NEW op \in Op, NEW o \in Order,
           NEW v \in [ row : Row, balance : Nat, end : Nat, others : Nat, taken : BOOLEAN ],
           Covers(op, o, v.balance), Write(op, o, v)
    PROVE  /\ order' \in [Order -> Row]
           /\ balance' \in Nat /\ ledger' \in Int /\ end' \in Nat
           /\ granted' \in [Order -> Nat] /\ refunded' \in [Order -> Nat]
           /\ gateway' \in [Order -> Trade]
           /\ \A q \in Order : Live(order'[q]) => granted'[q] > 0
           /\ AckedIsGranted'
<1> USE DEF DeliveryInvariant, TypeOK
<1> DEFINE new == NewRow(op, v)
           row == Merge(order[o], v.row, new)
<1>1. new \in Row /\ (new.status = "COMPLETED" => v.row.status = "COMPLETED" \/ op \in {"notify", "pay"})
  BY NewRowType
<1>2. row \in Row /\ row.status = IF new.status # v.row.status THEN new.status ELSE order[o].status
  BY <1>1, MergeType
<1>3. order' = [order EXCEPT ![o] = row]
  BY DEF Write
<1>4. order' \in [Order -> Row]
  BY <1>2, <1>3
<1>5. balance' \in Nat /\ ledger' \in Int
  <2>1. Delta(op, o) \in Int /\ v.balance + Delta(op, o) >= 0
    BY DeltaType
  <2>2. v.balance + Delta(op, o) \in Nat
    BY <2>1
  <2>3. /\ balance' = IF Delta(op, o) # 0 THEN v.balance + Delta(op, o) ELSE balance
        /\ ledger' = ledger + Delta(op, o)
    BY DEF Write
  <2>4. QED
    BY <2>1, <2>2, <2>3
<1>6. end' \in Nat
  <2>1. NewEnd(op, o, v) \in Nat
    BY EndType
  <2>2. end' = IF NewEnd(op, o, v) # v.end THEN NewEnd(op, o, v) ELSE end
    BY DEF Write
  <2>3. QED
    BY <2>1, <2>2
<1>7. /\ granted' \in [Order -> Nat]
      /\ \A q \in Order : granted'[q] >= granted[q]
      /\ op \in {"notify", "pay"} => granted'[o] > 0
  <2>1. granted' = [granted EXCEPT ![o] = IF op \in {"notify", "pay"} THEN @ + 1 ELSE @]
    BY DEF Write
  <2>2. QED
    BY <2>1
<1>8. refunded' \in [Order -> Nat]
  <2>1. refunded' = [refunded EXCEPT ![o] = IF op \in {"refund", "query"} THEN @ + 1 ELSE @]
    BY DEF Write
  <2>2. QED
    BY <2>1
<1>9. /\ gateway' \in [Order -> Trade]
      /\ \A q \in Order : gateway'[q].acked => gateway[q].acked \/ (q = o /\ op = "notify")
  <2>1. gateway' = [gateway EXCEPT ![o] = Told(op, gateway[o])]
    BY DEF Write
  <2>2. gateway[o] \in Trade
    OBVIOUS
  <2>3. /\ Told(op, gateway[o]) \in Trade
        /\ Told(op, gateway[o]).acked => gateway[o].acked \/ op = "notify"
    <3>1. CASE op = "notify"
      BY <2>2, <3>1 DEF Told, Trade
    <3>2. CASE op # "notify"
      BY <2>2, <3>2 DEF Told, Trade
    <3>3. QED
      BY <3>1, <3>2
  <2>4. QED
    BY <2>1, <2>3
<1>10. ASSUME NEW q \in Order, Live(order'[q])
       PROVE  granted'[q] > 0
  <2>1. CASE Live(order[q])
    BY <1>7, <2>1
  <2>2. CASE ~Live(order[q])
    BY <1>1, <1>2, <1>3, <1>7, <1>10, <2>2 DEF Live
  <2>3. QED
    BY <2>1, <2>2
<1>11. AckedIsGranted'
  BY <1>7, <1>9 DEF AckedIsGranted
<1>12. QED
  BY <1>4, <1>5, <1>6, <1>7, <1>8, <1>9, <1>10, <1>11

\* The invariant says nothing else of the rows than what WriteDelivers keeps.
LEMMA SessionsDeliver ==
    ASSUME /\ order' \in [Order -> Row]
           /\ balance' \in Nat /\ ledger' \in Int /\ end' \in Nat
           /\ granted' \in [Order -> Nat] /\ refunded' \in [Order -> Nat]
           /\ gateway' \in [Order -> Trade]
           /\ \A q \in Order : Live(order'[q]) => granted'[q] > 0
           /\ AckedIsGranted',
           session' \in [Session -> Request \cup {Free}],
           requests' \in 0..MaxRequests,
           FundsAreCovered'
    PROVE  DeliveryInvariant'
BY DEF DeliveryInvariant, TypeOK, Live

\* A step of the gateway alone.
LEMMA GatewayDelivers ==
    ASSUME DeliveryInvariant, NEW o \in Order,
           UNCHANGED <<order, balance, ledger, end, granted, refunded>>,
           \/ GatewayPay(o) \/ GatewayClose(o) \/ GatewayRefund(o) \/ GatewaySettle(o)
           \/ UNCHANGED gateway
    PROVE  /\ order' \in [Order -> Row]
           /\ balance' \in Nat /\ ledger' \in Int /\ end' \in Nat
           /\ granted' \in [Order -> Nat] /\ refunded' \in [Order -> Nat]
           /\ gateway' \in [Order -> Trade]
           /\ \A q \in Order : Live(order'[q]) => granted'[q] > 0
           /\ AckedIsGranted'
<1>1. /\ gateway' \in [Order -> Trade]
      /\ \A q \in Order : gateway'[q].acked = gateway[q].acked
  <2> USE DEF DeliveryInvariant, TypeOK, Trade
  <2>1. CASE GatewayPay(o) BY <2>1 DEF GatewayPay
  <2>2. CASE GatewayClose(o) BY <2>2 DEF GatewayClose
  <2>3. CASE GatewayRefund(o) BY <2>3 DEF GatewayRefund
  <2>4. CASE GatewaySettle(o) BY <2>4 DEF GatewaySettle
  <2>5. CASE UNCHANGED gateway BY <2>5
  <2>6. QED BY <2>1, <2>2, <2>3, <2>4, <2>5
<1>2. QED
  BY <1>1 DEF DeliveryInvariant, TypeOK, AckedIsGranted, Live

-----------------------------------------------------------------------------
(* The steps of a session.                                                 *)

\* A step that changes no row, and session s to r.
LEMMA SessionChanged ==
    ASSUME DeliveryInvariant, UNCHANGED vars, NEW s \in Session,
           NEW r \in Request \cup {Free},
           session' = [session EXCEPT ![s] = r],
           r.pc \notin {"free", "begun"} => Covers(r.op, r.o, r.view.balance),
           requests' \in 0..MaxRequests
    PROVE  DeliveryInvariant'
<1>1. session' \in [Session -> Request \cup {Free}]
  BY DEF DeliveryInvariant, TypeOK
<1>2. \A t \in Session : session'[t] = IF t = s THEN r ELSE session[t]
  BY DEF DeliveryInvariant, TypeOK
<1>3. FundsAreCovered'
  BY <1>2 DEF DeliveryInvariant, FundsAreCovered, Busy, Covers
<1>4. QED
  BY <1>1, <1>3 DEF DeliveryInvariant, TypeOK, AckedIsGranted, Live, vars

LEMMA BeginDelivers ==
    ASSUME DeliveryInvariant, NEW s \in Session, NEW o \in Order, NEW op \in Op,
           Begin(s, op, o) \/ BeginAdjust(s, op, o)
    PROVE  DeliveryInvariant'
<1>1. View(o) \in [ row : Row, balance : Nat, end : Nat, others : Nat, taken : BOOLEAN ]
  BY ViewType DEF DeliveryInvariant
<1>2. requests' \in 0..MaxRequests
  BY SessionsAssumption DEF SessionsAssumption, DeliveryInvariant, TypeOK, Begin, BeginAdjust
<1>3. CASE Begin(s, op, o)
  <2> DEFINE r == [pc |-> IF op \in Short THEN "ready" ELSE "begun",
                   op |-> op, o |-> o, view |-> View(o)]
  <2>1. r \in Request
    BY <1>1 DEF Request
  <2>2. r.pc # "begun" => Covers(r.op, r.o, r.view.balance)
    BY DEF Short, Covers, Adjusting
  <2>3. session' = [session EXCEPT ![s] = r] /\ UNCHANGED vars
    BY <1>3 DEF Begin
  <2>4. QED
    BY <1>2, <2>1, <2>2, <2>3, SessionChanged
<1>4. CASE BeginAdjust(s, op, o)
  <2> DEFINE r == [pc |-> "ready", op |-> op, o |-> o, view |-> View(o)]
  <2>1. r \in Request
    BY <1>1 DEF Request
  <2>2. Covers(r.op, r.o, r.view.balance)
    BY <1>4 DEF BeginAdjust, View
  <2>3. session' = [session EXCEPT ![s] = r] /\ UNCHANGED vars
    BY <1>4 DEF BeginAdjust
  <2>4. QED
    BY <1>2, <2>1, <2>2, <2>3, SessionChanged
<1>5. QED
  BY <1>3, <1>4

LEMMA ReadFundsDelivers ==
    ASSUME DeliveryInvariant, NEW s \in Session, ReadFunds(s)
    PROVE  DeliveryInvariant'
<1> DEFINE r == [session[s] EXCEPT !.pc = "funded", !.view.balance = balance]
<1>1. session[s] \in Request /\ balance \in Nat
  BY DEF ReadFunds, Busy, DeliveryInvariant, TypeOK
<1>2. /\ r \in Request /\ r.op = session[s].op /\ r.o = session[s].o
      /\ r.view.balance = balance
  BY <1>1 DEF Request
<1>3. Covers(r.op, r.o, r.view.balance)
  BY <1>2 DEF ReadFunds
<1>4. session' = [session EXCEPT ![s] = r] /\ UNCHANGED <<vars, requests>>
  BY <1>1 DEF ReadFunds, DeliveryInvariant, TypeOK
<1>5. requests' \in 0..MaxRequests
  BY <1>4 DEF DeliveryInvariant, TypeOK
<1>6. QED
  BY <1>2, <1>3, <1>4, <1>5, SessionChanged

LEMMA FlushDelivers ==
    ASSUME DeliveryInvariant, NEW s \in Session, Flush(s)
    PROVE  DeliveryInvariant'
<1> DEFINE q == session[s]
           v == [View(q.o) EXCEPT !.row = q.view.row,
                                  !.balance = IF q.op = "pay" THEN q.view.balance ELSE @]
           r == [q EXCEPT !.pc = "ready", !.view = v]
<1>1. q \in Request
  BY DEF Flush, Busy, DeliveryInvariant, TypeOK
<1>2. View(q.o) \in [ row : Row, balance : Nat, end : Nat, others : Nat, taken : BOOLEAN ]
  BY <1>1, ViewType DEF Request, DeliveryInvariant
<1>3. v \in [ row : Row, balance : Nat, end : Nat, others : Nat, taken : BOOLEAN ]
  BY <1>1, <1>2 DEF Request
<1>4. /\ r \in Request /\ r.op = q.op /\ r.o = q.o /\ r.view = v
  <2> HIDE DEF v
  <2>1. QED
    BY <1>1, <1>3 DEF Request
<1>5. v.balance = IF q.op = "pay" THEN q.view.balance ELSE View(q.o).balance
  BY <1>2
<1>6. Covers(q.op, q.o, v.balance)
  <2>1. CASE q.pc = "funded" /\ q.op = "pay"
    <3>1. Covers(q.op, q.o, q.view.balance)
      BY <2>1 DEF Flush, DeliveryInvariant, FundsAreCovered
    <3>2. QED
      BY <1>5, <2>1, <3>1
  <2>2. CASE q.pc = "begun" /\ q.op \in {"notify", "refund", "query"}
    BY <2>2 DEF Covers, Adjusting
  <2>3. QED
    BY <2>1, <2>2 DEF Flush
<1>7. session' = [session EXCEPT ![s] = r] /\ UNCHANGED <<vars, requests>>
  BY DEF Flush, DeliveryInvariant, TypeOK
<1>8. requests' \in 0..MaxRequests
  BY <1>7 DEF DeliveryInvariant, TypeOK
<1>9. QED
  BY <1>4, <1>6, <1>7, <1>8, SessionChanged

LEMMA AbortDelivers ==
    ASSUME DeliveryInvariant, NEW s \in Session, Abort(s)
    PROVE  DeliveryInvariant'
BY SessionChanged DEF Abort, DeliveryInvariant, TypeOK

\* Session s asks the gateway, and goes on to r.
LEMMA AskedDelivers ==
    ASSUME DeliveryInvariant, NEW s \in Session, NEW o \in Order, NEW r \in Request,
           r.op \notin Adjusting \cup {"pay"},
           session' = [session EXCEPT ![s] = r],
           UNCHANGED <<order, balance, ledger, end, granted, refunded, requests>>,
           GatewayClose(o) \/ GatewayRefund(o) \/ UNCHANGED gateway
    PROVE  DeliveryInvariant'
<1>1. session' \in [Session -> Request \cup {Free}] /\ requests' \in 0..MaxRequests
  BY DEF DeliveryInvariant, TypeOK
<1>2. \A t \in Session : session'[t] = IF t = s THEN r ELSE session[t]
  BY DEF DeliveryInvariant, TypeOK
<1>3. Covers(r.op, r.o, r.view.balance)
  BY DEF Covers
<1>4. FundsAreCovered'
  BY <1>2, <1>3 DEF DeliveryInvariant, FundsAreCovered, Busy, Covers
<1>5. QED
  BY <1>1, <1>4, GatewayDelivers, SessionsDeliver

LEMMA AskCloseDelivers ==
    ASSUME DeliveryInvariant, NEW s \in Session, AskClose(s)
    PROVE  DeliveryInvariant'
<1> DEFINE r == [session[s] EXCEPT !.pc = "ready"]
<1>1. session[s] \in Request
  BY DEF AskClose, Busy, DeliveryInvariant, TypeOK
<1>2. r \in Request /\ r.op = session[s].op /\ session[s].o \in Order
  BY <1>1 DEF Request
<1>3. r.op \notin Adjusting \cup {"pay"}
  BY <1>2 DEF AskClose, Closing, Adjusting
<1>4. session' = [session EXCEPT ![s] = r]
  BY DEF AskClose, DeliveryInvariant, TypeOK
<1>5. /\ UNCHANGED <<order, balance, ledger, end, granted, refunded, requests>>
      /\ GatewayClose(session[s].o) \/ UNCHANGED gateway
  BY DEF AskClose
<1>6. QED
  BY <1>2, <1>3, <1>4, <1>5, AskedDelivers

LEMMA AskRefundDelivers ==
    ASSUME DeliveryInvariant, NEW s \in Session, AskRefund(s)
    PROVE  DeliveryInvariant'
<1>1. session[s] \in Request
  BY DEF AskRefund, Busy, DeliveryInvariant, TypeOK
<1>2. PICK taken \in BOOLEAN :
        /\ IF taken THEN GatewayRefund(session[s].o) ELSE UNCHANGED gateway
        /\ session' = [session EXCEPT ![s].pc = "ready", ![s].view.taken = taken,
                                      ![s].view.row.number = "none"]
  BY DEF AskRefund
<1> DEFINE row == [session[s].view.row EXCEPT !.number = "none"]
           r   == [session[s] EXCEPT !.pc = "ready",
                       !.view = [session[s].view EXCEPT !.taken = taken, !.row = row]]
<1>3. row \in Row
  BY <1>1 DEF Request, Row
<1>4. r \in Request /\ r.op = session[s].op /\ session[s].o \in Order
  <2> HIDE DEF row
  <2>1. QED
    BY <1>1, <1>3 DEF Request
<1>5. r.op \notin Adjusting \cup {"pay"}
  BY <1>4 DEF AskRefund, Adjusting
<1>6. session' = [session EXCEPT ![s] = r]
  BY <1>1, <1>2 DEF DeliveryInvariant, TypeOK, Request
<1>7. QED
  BY <1>2, <1>4, <1>5, <1>6, AskedDelivers DEF AskRefund

LEMMA CommitDelivers ==
    ASSUME DeliveryInvariant, NEW s \in Session, Commit(s)
    PROVE  DeliveryInvariant'
<1>1. session[s] \in Request
  BY DEF Commit, Busy, DeliveryInvariant, TypeOK
<1>2. /\ session[s].op \in Op /\ session[s].o \in Order
      /\ session[s].view \in [ row : Row, balance : Nat, end : Nat, others : Nat, taken : BOOLEAN ]
  BY <1>1 DEF Request
<1>3. Covers(session[s].op, session[s].o, session[s].view.balance)
  BY DEF Commit, DeliveryInvariant, FundsAreCovered
<1>4. session' = [session EXCEPT ![s] = Free] /\ requests' = requests
  BY DEF Commit
<1>5. session' \in [Session -> Request \cup {Free}] /\ requests' \in 0..MaxRequests
  BY <1>4 DEF DeliveryInvariant, TypeOK
<1>6. \A t \in Session : session'[t] = IF t = s THEN Free ELSE session[t]
  BY <1>4 DEF DeliveryInvariant, TypeOK
<1>7. FundsAreCovered'
  BY <1>6 DEF DeliveryInvariant, FundsAreCovered, Busy, Covers
<1>8. Write(session[s].op, session[s].o, session[s].view)
  BY DEF Commit
<1>9. QED
  BY <1>2, <1>3, <1>5, <1>7, <1>8, WriteDelivers, SessionsDeliver

\* A repeated callback is answered only when its order counts as handled.
LEMMA BeginRepeatDelivers ==
    ASSUME DeliveryInvariant, NEW o \in Order, BeginRepeat(o)
    PROVE  DeliveryInvariant'
<1> USE DEF DeliveryInvariant, TypeOK
<1>1. /\ UNCHANGED <<order, balance, ledger, end, granted, refunded, session>>
      /\ requests' = requests + 1 /\ requests < MaxRequests
      /\ gateway' = [gateway EXCEPT ![o].acked = TRUE]
      /\ Live(order[o])
  BY DEF BeginRepeat, Repeat, Handled
<1>2. gateway' \in [Order -> Trade]
  BY <1>1 DEF Trade
<1>3. \A q \in Order : gateway'[q].acked => gateway[q].acked \/ q = o
  BY <1>1
<1>4. AckedIsGranted'
  BY <1>1, <1>3 DEF AckedIsGranted
<1>5. requests' \in 0..MaxRequests
  BY <1>1, SessionsAssumption DEF SessionsAssumption
<1>6. FundsAreCovered'
  BY <1>1 DEF FundsAreCovered, Busy, Covers
<1>7. QED
  BY <1>1, <1>2, <1>4, <1>5, <1>6 DEF Live

LEMMA OutsideDelivers ==
    ASSUME DeliveryInvariant, NEW o \in Order, Outside(o)
    PROVE  DeliveryInvariant'
<1>1. FundsAreCovered'
  BY DEF Outside, DeliveryInvariant, FundsAreCovered, Busy, Covers
<1>2. session' \in [Session -> Request \cup {Free}] /\ requests' \in 0..MaxRequests
  BY DEF Outside, DeliveryInvariant, TypeOK
<1>3. QED
  BY <1>1, <1>2, GatewayDelivers, SessionsDeliver DEF Outside

LEMMA StepDelivers ==
    ASSUME DeliveryInvariant, [SessionNext]_allVars
    PROVE  DeliveryInvariant'
<1>1. ASSUME NEW s \in Session, SessionStep(s)
      PROVE  DeliveryInvariant'
  <2>1. ASSUME NEW o \in Order, NEW op \in Op, Begin(s, op, o) \/ BeginAdjust(s, op, o)
        PROVE  DeliveryInvariant'
    BY <2>1, BeginDelivers
  <2>2. CASE ReadFunds(s) BY <2>2, ReadFundsDelivers
  <2>3. CASE Flush(s) BY <2>3, FlushDelivers
  <2>4. CASE AskClose(s) BY <2>4, AskCloseDelivers
  <2>5. CASE AskRefund(s) BY <2>5, AskRefundDelivers
  <2>6. CASE Commit(s) BY <2>6, CommitDelivers
  <2>7. CASE Abort(s) BY <2>7, AbortDelivers
  <2>8. QED
    BY <1>1, <2>1, <2>2, <2>3, <2>4, <2>5, <2>6, <2>7 DEF SessionStep
<1>2. ASSUME NEW o \in Order, BeginRepeat(o) \/ Outside(o)
      PROVE  DeliveryInvariant'
  BY <1>2, BeginRepeatDelivers, OutsideDelivers
<1>3. CASE UNCHANGED allVars
  BY <1>3 DEF allVars, vars, DeliveryInvariant, TypeOK, FundsAreCovered, Busy, Covers,
              AckedIsGranted, Live
<1>4. QED
  BY <1>1, <1>2, <1>3 DEF SessionNext

-----------------------------------------------------------------------------
(* Overlapping requests keep out of each other's way.                      *)

\* Handlers of one order of which one would spoil the other.
Clash(p, q) ==
    \/ p \in {"notify", "pay"} /\ q \in {"notify", "pay"} \cup Closing
    \/ p = "link" /\ q \in {"pay"} \cup Closing
    \/ p = "cancel" /\ q \in {"close", "expire"}
    \/ p \in {"refund", "approve"} /\ q \in {"request", "reject", "refund", "approve"}
    \/ p = "query" /\ q = "query"

LEMMA ClashIsConflict ==
    ASSUME NEW p, NEW q, Clash(p, q)
    PROVE  {p, q} \in PaymentConflicts \cup RefundConflicts
<1>1. CASE p \in {"notify", "pay"} /\ q \in {"notify", "pay"} \cup Closing
  BY <1>1 DEF PaymentConflicts
<1>2. CASE p = "link" /\ q \in {"pay"} \cup Closing
  BY <1>2 DEF PaymentConflicts
<1>3. CASE p = "cancel" /\ q \in {"close", "expire"}
  BY <1>3 DEF PaymentConflicts
<1>4. CASE p \in {"refund", "approve"} /\ q \in {"request", "reject", "refund", "approve"}
  BY <1>4 DEF RefundConflicts
<1>5. CASE p = "query" /\ q = "query"
  BY <1>5 DEF RefundConflicts
<1>6. QED
  BY <1>1, <1>2, <1>3, <1>4, <1>5 DEF Clash

LEMMA WritersConflict ==
    ASSUME NEW p \in Writing, NEW q \in Writing \cup Adjusting
    PROVE  {p, q} \in BalanceConflicts
BY DEF BalanceConflicts

\* What may overlap on one order does not clash, and handlers of one user that
\* may overlap do not both write what they share.
LEMMA OverlapsAreApart ==
    ASSUME HarmlessOnly, NEW p, NEW o, NEW r, MayOverlap(p, o, r)
    PROVE  /\ r.o = o /\ p \notin Adjusting /\ r.op \notin Adjusting =>
                  ~Clash(p, r.op) /\ ~Clash(r.op, p)
           /\ r.o # o \/ p \in Adjusting \/ r.op \in Adjusting =>
                  /\ ~(p \in Writing /\ r.op \in Writing \cup Adjusting)
                  /\ ~(r.op \in Writing /\ p \in Writing \cup Adjusting)
<1>1. {p, r.op} = {r.op, p}
  OBVIOUS
<1>2. ASSUME r.o = o, p \notin Adjusting, r.op \notin Adjusting
      PROVE  ~Clash(p, r.op) /\ ~Clash(r.op, p)
  <2>1. {p, r.op} \cap Adjusting = {}
    BY <1>2
  <2>2. {p, r.op} \in SameOrder
    BY <1>2, <2>1 DEF MayOverlap
  <2>3. {p, r.op} \notin PaymentConflicts \cup RefundConflicts
    BY <2>2 DEF HarmlessOnly, Harmless
  <2>4. QED
    BY <1>1, <2>3, ClashIsConflict
<1>3. ASSUME r.o # o \/ p \in Adjusting \/ r.op \in Adjusting
      PROVE  /\ ~(p \in Writing /\ r.op \in Writing \cup Adjusting)
             /\ ~(r.op \in Writing /\ p \in Writing \cup Adjusting)
  <2>1. ~(r.o = o /\ {p, r.op} \cap Adjusting = {})
    BY <1>3
  <2>2. {p, r.op} \in OtherOrder
    BY <2>1 DEF MayOverlap
  <2>3. {p, r.op} \notin BalanceConflicts
    BY <2>2 DEF HarmlessOnly, HarmlessAcross
  <2>4. ASSUME p \in Writing, r.op \in Writing \cup Adjusting PROVE FALSE
    BY <2>3, <2>4, WritersConflict
  <2>5. ASSUME r.op \in Writing, p \in Writing \cup Adjusting PROVE FALSE
    BY <1>1, <2>3, <2>5, WritersConflict
  <2>6. QED
    BY <2>4, <2>5
<1>4. QED
  BY <1>2, <1>3

-----------------------------------------------------------------------------
(* What a commit writes.                                                   *)

\* Column by column, what a handler makes of a row.
LEMMA NewRowColumns ==
    ASSUME NEW op \in Op, NEW v, v.row \in Row
    PROVE  /\ NewRow(op, v).status =
                  IF op \in {"notify", "pay"} THEN "COMPLETED"
                  ELSE IF op \in {"close", "expire"} THEN "TIMEOUT"
                  ELSE IF op = "cancel" THEN "CANCELED"
                  ELSE IF op \in {"refund", "query"} THEN "REFUNDED"
                  ELSE v.row.status
           /\ NewRow(op, v).provider =
                  IF op = "pay" THEN "BALANCE"
                  ELSE IF op = "link" THEN "EPAY"
                  ELSE v.row.provider
           /\ NewRow(op, v).refund =
                  IF op = "request" THEN "PENDING"
                  ELSE IF op = "reject" THEN "REJECTED"
                  ELSE IF op = "approve" THEN "PROCESSING"
                  ELSE IF op \in {"refund", "query"} THEN "REFUNDED"
                  ELSE v.row.refund
           /\ NewRow(op, v).number =
                  IF op = "approve" THEN (IF v.taken THEN "known" ELSE "wrong")
                  ELSE v.row.number
<1>1. CASE op = "notify" BY <1>1 DEF NewRow, Row
<1>2. CASE op = "pay" BY <1>2 DEF NewRow, Row
<1>3. CASE op = "link" BY <1>3 DEF NewRow, Row
<1>4. CASE op \in {"close", "expire"} BY <1>4 DEF NewRow, Row
<1>5. CASE op = "cancel" BY <1>5 DEF NewRow, Row
<1>6. CASE op = "request" BY <1>6 DEF NewRow, Row
<1>7. CASE op = "reject" BY <1>7 DEF NewRow, Row
<1>8. CASE op = "approve" BY <1>8 DEF NewRow, Row
<1>9. CASE op \in {"refund", "query"} BY <1>9 DEF NewRow, Row
<1>10. CASE op \in {"deposit", "withdraw"} BY <1>10 DEF NewRow, Row
<1>11. QED
  BY <1>1, <1>2, <1>3, <1>4, <1>5, <1>6, <1>7, <1>8, <1>9, <1>10 DEF Op, Closing

\* The columns a transaction did not change it leaves as they are, so the row
\* becomes what the handler makes of the row in the table.
LEMMA MergedRow ==
    ASSUME TypeOK, NEW r \in Request, RowHolds(r), r.pc = "ready"
    PROVE  Merge(order[r.o], r.view.row, NewRow(r.op, r.view))
               = NewRow(r.op, [r.view EXCEPT !.row = order[r.o]])
<1> DEFINE row  == order[r.o]
           seen == r.view.row
           new  == NewRow(r.op, r.view)
           made == NewRow(r.op, [r.view EXCEPT !.row = row])
<1>1. row \in Row /\ seen \in Row /\ r.op \in Op /\ r.o \in Order
  BY DEF TypeOK, Request
<1>2. [r.view EXCEPT !.row = row].row = row /\ [r.view EXCEPT !.row = row].taken = r.view.taken
  BY DEF Request
<1>3. made \in Row /\ new \in Row
  BY <1>1, <1>2, NewRowType
<1>4. /\ made.status   = IF new.status # seen.status THEN new.status ELSE row.status
      /\ made.provider = IF new.provider # seen.provider THEN new.provider ELSE row.provider
      /\ made.refund   = IF new.refund # seen.refund THEN new.refund ELSE row.refund
      /\ made.number   = IF new.number # seen.number THEN new.number ELSE row.number
  <2>1. /\ r.op = "notify" => seen.status # "COMPLETED"
        /\ r.op = "pay" => seen.status # "COMPLETED" /\ seen.provider = row.provider
        /\ r.op = "link" /\ seen.provider = "EPAY" => row.provider = "EPAY"
        /\ r.op \in Closing => seen.status = "CREATED"
        /\ r.op = "request" => seen.refund # "PENDING"
        /\ r.op = "reject" => seen.refund = "PENDING"
        /\ r.op \in {"refund", "approve"} =>
               seen.status = "COMPLETED" /\ seen.refund \notin {"PROCESSING", "REFUNDED"}
        /\ r.op = "approve" => seen.number = "none"
        /\ r.op = "query" => seen.status = "COMPLETED" /\ seen.refund = "PROCESSING"
    BY DEF RowHolds, Live, MayPay, MayRefund, Requestable
  <2>2. r.view.row = seen
    OBVIOUS
  <2> HIDE DEF row, seen
  <2> DEFINE u == [r.view EXCEPT !.row = row]
  <2>3. made = NewRow(r.op, u) /\ u.row = row /\ u.taken = r.view.taken
    BY <1>2
  <2> HIDE DEF u, made, new
  <2>4. new = NewRow(r.op, r.view)
    BY DEF new
  <2>5. made.status   = IF new.status # seen.status THEN new.status ELSE row.status
    BY <1>1, <2>1, <2>2, <2>3, <2>4, NewRowColumns DEF Closing
  <2>6. made.provider = IF new.provider # seen.provider THEN new.provider ELSE row.provider
    BY <1>1, <2>1, <2>2, <2>3, <2>4, NewRowColumns
  <2>7. made.refund   = IF new.refund # seen.refund THEN new.refund ELSE row.refund
    BY <1>1, <2>1, <2>2, <2>3, <2>4, NewRowColumns
  <2>8. made.number   = IF new.number # seen.number THEN new.number ELSE row.number
    BY <1>1, <2>1, <2>2, <2>3, <2>4, NewRowColumns
  <2>9. QED
    BY <2>5, <2>6, <2>7, <2>8
<1>5. Merge(row, seen, new) \in Row
  BY <1>1, <1>3, MergeType
<1>6. /\ Merge(row, seen, new).status   = made.status
      /\ Merge(row, seen, new).provider = made.provider
      /\ Merge(row, seen, new).refund   = made.refund
      /\ Merge(row, seen, new).number   = made.number
  <2> HIDE DEF row, seen, new, made
  <2>1. QED
    BY <1>4 DEF Merge
<1>7. Merge(row, seen, new) = made
  <2> HIDE DEF row, seen, new, made
  <2>1. QED
    BY <1>3, <1>5, <1>6 DEF Row
<1>8. QED
  BY <1>7

LEMMA MergeOfOne ==
    ASSUME NEW row \in Row, NEW new \in Row
    PROVE  Merge(row, row, new) = new
BY DEF Merge, Row

-----------------------------------------------------------------------------
(* What a request relies on, while others go on.                           *)

LEMMA OverlapIsMutual ==
    ASSUME NEW p, NEW r
    PROVE  MayOverlap(p.op, p.o, r) <=> MayOverlap(r.op, r.o, p)
<1>1. {p.op, r.op} = {r.op, p.op}
  OBVIOUS
<1>2. QED
  BY <1>1 DEF MayOverlap

\* The order of the request stays, and its trade only moves on.
LEMMA RowStillHolds ==
    ASSUME NEW r \in Request, RowHolds(r),
           order'[r.o] = order[r.o],
           gateway[r.o].trade = "paid" => gateway'[r.o].trade = "paid",
           gateway[r.o].trade # "none" => gateway'[r.o].trade # "none",
           gateway[r.o].refund = "done" => gateway'[r.o].refund = "done"
    PROVE  RowHolds(r)'
BY DEF RowHolds, MayNotify, MayPay, MayRefund, Live, Requestable, Settled

LEMMA SharedStillHolds ==
    ASSUME NEW r \in Request, SharedHolds(r), balance' = balance, end' = end,
           \A o \in Order : Live(order[o])' <=> Live(order[o])
    PROVE  SharedHolds(r)'
<1>1. {q \in Order \ {r.o} : Kind[q] = "RENEW" /\ Live(order'[q])}
          = {q \in Order \ {r.o} : Kind[q] = "RENEW" /\ Live(order[q])}
  BY DEF Live
<1>2. View(r.o).others' = View(r.o).others
  BY <1>1 DEF View, Live
<1>3. QED
  BY <1>2 DEF SharedHolds

\* Whatever the gateway does to a trade, it never takes it back.
LEMMA TradesMoveOn ==
    ASSUME TypeOK, NEW o \in Order,
           \/ GatewayPay(o) \/ GatewayClose(o) \/ GatewayRefund(o) \/ GatewaySettle(o)
           \/ UNCHANGED gateway
           \/ gateway' = [gateway EXCEPT ![o].acked = TRUE]
    PROVE  \A q \in Order :
              /\ gateway[q].trade = "paid" => gateway'[q].trade = "paid"
              /\ gateway[q].trade # "none" => gateway'[q].trade # "none"
              /\ gateway[q].refund = "done" => gateway'[q].refund = "done"
<1> USE DEF TypeOK, Trade
<1>1. CASE GatewayPay(o) BY <1>1 DEF GatewayPay
<1>2. CASE GatewayClose(o) BY <1>2 DEF GatewayClose
<1>3. CASE GatewayRefund(o) BY <1>3 DEF GatewayRefund
<1>4. CASE GatewaySettle(o) BY <1>4 DEF GatewaySettle
<1>5. CASE UNCHANGED gateway BY <1>5
<1>6. CASE gateway' = [gateway EXCEPT ![o].acked = TRUE] BY <1>6
<1>7. QED
  BY <1>1, <1>2, <1>3, <1>4, <1>5, <1>6

LEMMA ToldTradesMoveOn ==
    ASSUME TypeOK, NEW o \in Order, NEW op \in Op,
           gateway' = [gateway EXCEPT ![o] = Told(op, @)]
    PROVE  \A q \in Order :
              /\ gateway[q].trade = "paid" => gateway'[q].trade = "paid"
              /\ gateway[q].trade # "none" => gateway'[q].trade # "none"
              /\ gateway[q].refund = "done" => gateway'[q].refund = "done"
BY DEF TypeOK, Trade, Told

\* The invariant, from what a step does to one request and leaves to the others.
LEMMA SessionsHold ==
    ASSUME SessionsInvariant, DeliveryInvariant', ProcessingIsLive',
           NEW s \in Session, NEW r \in Request \cup {Free},
           session' = [session EXCEPT ![s] = r],
           \A t \in Session \ {s}, q \in Request : Busy(t) /\ q = session[t] =>
              /\ RowHolds(q)' /\ SharedHolds(q)'
              /\ r # Free => /\ MayOverlap(r.op, r.o, q)
                             /\ ~(/\ r.op \in Writing \cup Adjusting
                                  /\ q.op \in Writing \cup Adjusting),
           r # Free => r.pc # "free" /\ RowHolds(r)' /\ SharedHolds(r)'
    PROVE  SessionsInvariant'
<1> USE DEF SessionsInvariant
<1>1. /\ \A t \in Session : session[t] \in Request \cup {Free}
      /\ \A t \in Session : session'[t] = IF t = s THEN r ELSE session[t]
      /\ \A t \in Session : session[t] # Free <=> Busy(t)
  BY DEF DeliveryInvariant, TypeOK, Busy, Request
<1>2. \A t \in Session : Busy(t)' <=> IF t = s THEN r # Free ELSE Busy(t)
  BY <1>1 DEF Busy
<1>3. ASSUME NEW t \in Session, t # s, Busy(t)
      PROVE  /\ session'[t] = session[t] /\ session[t] \in Request
             /\ RowHolds(session[t])' /\ SharedHolds(session[t])'
             /\ r # Free => /\ MayOverlap(r.op, r.o, session[t])
                            /\ MayOverlap(session[t].op, session[t].o, r)
                            /\ ~(/\ r.op \in Writing \cup Adjusting
                                 /\ session[t].op \in Writing \cup Adjusting)
  <2>1. PICK q : q = session[t]
    OBVIOUS
  <2>2. q \in Request /\ session'[t] = q
    BY <1>1, <1>3, <2>1
  <2>3. RowHolds(q)' /\ SharedHolds(q)'
    BY <1>3, <2>1, <2>2
  <2>4. RowHolds(session[t])' /\ SharedHolds(session[t])'
    BY <2>2, <2>3
  <2>5. r # Free => /\ MayOverlap(r.op, r.o, q)
                    /\ ~(/\ r.op \in Writing \cup Adjusting
                         /\ q.op \in Writing \cup Adjusting)
    BY <1>3, <2>1, <2>2
  <2>6. QED
    BY <2>1, <2>2, <2>4, <2>5, OverlapIsMutual
<1>4. OnlyAllowedOverlap'
  <2>1. ASSUME NEW t \in Session, NEW u \in Session, t # u, Busy(t)', Busy(u)'
        PROVE  MayOverlap(session'[t].op, session'[t].o, session'[u])
    <3>1. CASE t = s
      BY <1>1, <1>2, <1>3, <2>1, <3>1
    <3>2. CASE u = s
      BY <1>1, <1>2, <1>3, <2>1, <3>2
    <3>3. CASE t # s /\ u # s
      BY <1>1, <1>2, <2>1, <3>3 DEF OnlyAllowedOverlap
    <3>4. QED
      BY <3>1, <3>2, <3>3
  <2>2. QED
    BY <2>1 DEF OnlyAllowedOverlap, MayOverlap
<1>5. OneWriter'
  <2>1. ASSUME NEW t \in Session, NEW u \in Session, t # u, Busy(t)', Busy(u)',
               session'[t].op \in Writing \cup Adjusting, session'[u].op \in Writing \cup Adjusting
        PROVE  FALSE
    <3>1. CASE t = s
      BY <1>1, <1>2, <1>3, <2>1, <3>1
    <3>2. CASE u = s
      BY <1>1, <1>2, <1>3, <2>1, <3>2
    <3>3. CASE t # s /\ u # s
      BY <1>1, <1>2, <2>1, <3>3 DEF OneWriter
    <3>4. QED
      BY <3>1, <3>2, <3>3
  <2>2. QED
    BY <2>1 DEF OneWriter
<1>6. ASSUME NEW t \in Session, Busy(t)'
      PROVE  RowHolds(session[t])' /\ SharedHolds(session[t])'
  <2>1. CASE t = s
    <3>1. session'[t] = r /\ r # Free
      BY <1>1, <1>2, <1>6, <2>1
    <3>2. QED
      BY <3>1
  <2>2. CASE t # s
    BY <1>2, <1>3, <1>6, <2>2
  <2>3. QED
    BY <2>1, <2>2
<1>7. QED
  BY <1>4, <1>5, <1>6

-----------------------------------------------------------------------------
(* The steps before the commit.                                            *)

LEMMA InitHolds == SessionInit => SessionsInvariant
<1> SUFFICES ASSUME SessionInit PROVE SessionsInvariant
  OBVIOUS
<1>1. DeliveryInvariant
  BY InitDelivers
<1>2. \A s \in Session : ~Busy(s)
  BY DEF SessionInit, Busy
<1>3. ProcessingIsLive
  BY DEF SessionInit, Init, ProcessingIsLive
<1>4. QED
  BY <1>1, <1>2, <1>3 DEF SessionsInvariant, OnlyAllowedOverlap, OneWriter

\* A request goes on as r: it was busy before, and stays what it was.
LEMMA SessionGoesOn ==
    ASSUME SessionsInvariant, DeliveryInvariant',
           NEW s \in Session, Busy(s), NEW r \in Request,
           r.op = session[s].op, r.o = session[s].o,
           session' = [session EXCEPT ![s] = r],
           UNCHANGED <<order, balance, end>>,
           \A q \in Order :
              /\ gateway[q].trade = "paid" => gateway'[q].trade = "paid"
              /\ gateway[q].trade # "none" => gateway'[q].trade # "none"
              /\ gateway[q].refund = "done" => gateway'[q].refund = "done",
           RowHolds(r), SharedHolds(r)
    PROVE  SessionsInvariant'
<1>1. \A q \in Request : RowHolds(q) /\ SharedHolds(q) => RowHolds(q)' /\ SharedHolds(q)'
  <2>1. ASSUME NEW q \in Request, RowHolds(q), SharedHolds(q)
        PROVE  RowHolds(q)' /\ SharedHolds(q)'
    <3>1. q.o \in Order
      BY DEF Request
    <3>2. RowHolds(q)'
      BY <2>1, <3>1, RowStillHolds
    <3>3. SharedHolds(q)'
      BY <2>1, SharedStillHolds DEF Live
    <3>4. QED
      BY <3>2, <3>3
  <2>2. QED
    BY <2>1
<1>2. r # Free /\ r.pc # "free"
  BY DEF Request
<1>3. ProcessingIsLive'
  BY DEF SessionsInvariant, ProcessingIsLive, Live
<1>4. ASSUME NEW t \in Session \ {s}, Busy(t), NEW q \in Request, q = session[t]
      PROVE  /\ RowHolds(q)' /\ SharedHolds(q)'
             /\ MayOverlap(r.op, r.o, q)
             /\ ~(r.op \in Writing \cup Adjusting /\ q.op \in Writing \cup Adjusting)
  <2>1. RowHolds(q) /\ SharedHolds(q)
    BY <1>4 DEF SessionsInvariant
  <2>2. MayOverlap(r.op, r.o, q)
    BY <1>4 DEF SessionsInvariant, OnlyAllowedOverlap
  <2>3. ~(r.op \in Writing \cup Adjusting /\ q.op \in Writing \cup Adjusting)
    BY <1>4 DEF SessionsInvariant, OneWriter
  <2>4. QED
    BY <1>1, <2>1, <2>2, <2>3
<1>5. \A t \in Session \ {s}, q \in Request : Busy(t) /\ q = session[t] =>
         /\ RowHolds(q)' /\ SharedHolds(q)'
         /\ MayOverlap(r.op, r.o, q)
         /\ ~(r.op \in Writing \cup Adjusting /\ q.op \in Writing \cup Adjusting)
  BY <1>4
<1>6. RowHolds(r)' /\ SharedHolds(r)'
  BY <1>1
<1>7. QED
  BY <1>2, <1>3, <1>5, <1>6, SessionsHold

\* Handlers of one order that do not clash are not both about to write what
\* the orders of the user share: the row cannot suit both.
LEMMA OneWriterOfAnOrder ==
    ASSUME NEW p \in Request, NEW q \in Request, p.o = q.o, RowHolds(p), RowHolds(q),
           p.op \in Writing, q.op \in Writing, ~Clash(p.op, q.op), ~Clash(q.op, p.op)
    PROVE  FALSE
BY DEF RowHolds, Writing, Clash, Live, MayPay, MayRefund, Requestable

LEMMA BeginHolds ==
    ASSUME HarmlessOnly, SessionsInvariant, DeliveryInvariant',
           NEW s \in Session, NEW o \in Order, NEW op \in Op,
           Begin(s, op, o) \/ BeginAdjust(s, op, o)
    PROVE  SessionsInvariant'
<1>1. PICK r : r = [pc |-> IF op \in Short \cup Adjusting THEN "ready" ELSE "begun",
                    op |-> op, o |-> o, view |-> View(o)]
  OBVIOUS
<1>2. View(o) \in [ row : Row, balance : Nat, end : Nat, others : Nat, taken : BOOLEAN ]
  BY ViewType DEF SessionsInvariant, DeliveryInvariant
<1>3. r \in Request /\ r # Free /\ r.pc # "free"
  BY <1>1, <1>2 DEF Request
<1>4. session' = [session EXCEPT ![s] = r] /\ UNCHANGED vars /\ ~Busy(s)
  BY <1>1 DEF Begin, BeginAdjust, Short, Adjusting
<1>5. \A t \in Session : Busy(t) => MayOverlap(op, o, session[t])
  BY DEF Begin, BeginAdjust
<1>6. r.op = op /\ r.o = o /\ r.view = View(o) /\ r.view.row = order[o] /\ r.view.balance = balance
  BY <1>1 DEF View
<1>7. Allowed(op, o, order[o])
  BY DEF Begin, BeginAdjust, Allowed
<1>8. RowHolds(r)
  <2>1. order[o].refund = "PROCESSING" => Live(order[o])
    BY DEF SessionsInvariant, ProcessingIsLive
  <2>2. r.pc = "ready" => op \in Short \cup Adjusting
    BY <1>1
  <2>3. QED
    BY <1>6, <1>7, <2>1, <2>2
       DEF RowHolds, Allowed, Handled, MayPay, MayRequest, MayRefund, Requestable, Short, Closing,
           Adjusting, Live
<1>9. SharedHolds(r)
  <2>1. r.pc = (IF op \in Short \cup Adjusting THEN "ready" ELSE "begun")
    BY <1>1
  <2>2. QED
    BY <1>6, <2>1 DEF SharedHolds, Writing, Short, Adjusting
<1>10. \A q \in Request : RowHolds(q) /\ SharedHolds(q) => RowHolds(q)' /\ SharedHolds(q)'
  <2>1. ASSUME NEW q \in Request, RowHolds(q), SharedHolds(q)
        PROVE  RowHolds(q)' /\ SharedHolds(q)'
    <3>1. RowHolds(q)'
      BY <1>4, <2>1, RowStillHolds DEF vars
    <3>2. SharedHolds(q)'
      BY <1>4, <2>1, SharedStillHolds DEF vars, Live
    <3>3. QED
      BY <3>1, <3>2
  <2>2. QED
    BY <2>1
<1>11. ProcessingIsLive'
  BY <1>4 DEF SessionsInvariant, ProcessingIsLive, Live, vars
<1>12. ASSUME NEW t \in Session \ {s}, Busy(t), NEW q \in Request, q = session[t]
       PROVE  /\ RowHolds(q)' /\ SharedHolds(q)'
              /\ MayOverlap(r.op, r.o, q)
              /\ ~(r.op \in Writing \cup Adjusting /\ q.op \in Writing \cup Adjusting)
  <2>1. RowHolds(q) /\ SharedHolds(q)
    BY <1>12 DEF SessionsInvariant
  <2>2. MayOverlap(op, o, q)
    BY <1>5, <1>12
  <2>3. ASSUME op \in Writing \cup Adjusting, q.op \in Writing \cup Adjusting
        PROVE  FALSE
    <3>1. CASE q.o = o /\ op \notin Adjusting /\ q.op \notin Adjusting
      <4>1. ~Clash(op, q.op) /\ ~Clash(q.op, op)
        BY <2>2, <3>1, OverlapsAreApart
      <4>2. op \in Writing /\ q.op \in Writing
        BY <2>3, <3>1
      <4>3. QED
        BY <1>3, <1>6, <1>8, <2>1, <3>1, <4>1, <4>2, OneWriterOfAnOrder
    <3>2. CASE q.o # o \/ op \in Adjusting \/ q.op \in Adjusting
      <4>1. ~(op \in Writing /\ q.op \in Writing \cup Adjusting)
        BY <2>2, <3>2, OverlapsAreApart
      <4>2. ~(q.op \in Writing /\ op \in Writing \cup Adjusting)
        BY <2>2, <3>2, OverlapsAreApart
      <4>3. op \in Adjusting /\ q.op \in Adjusting
        BY <2>3, <4>1, <4>2
      <4>4. UserIsFree(s)
        BY <4>3 DEF Begin, BeginAdjust
      <4>5. q.pc = "ready"
        BY <2>1, <4>3 DEF SharedHolds
      <4>6. QED
        BY <1>12, <4>3, <4>4, <4>5 DEF UserIsFree, LocksUser
    <3>3. QED
      BY <3>1, <3>2
  <2>4. QED
    BY <1>6, <1>10, <2>1, <2>2, <2>3
<1>13. \A t \in Session \ {s}, q \in Request : Busy(t) /\ q = session[t] =>
          /\ RowHolds(q)' /\ SharedHolds(q)'
          /\ MayOverlap(r.op, r.o, q)
          /\ ~(r.op \in Writing \cup Adjusting /\ q.op \in Writing \cup Adjusting)
  BY <1>12
<1>14. RowHolds(r)' /\ SharedHolds(r)'
  BY <1>3, <1>8, <1>9, <1>10
<1>15. QED
  BY <1>3, <1>4, <1>11, <1>13, <1>14, SessionsHold

LEMMA ReadFundsHolds ==
    ASSUME SessionsInvariant, DeliveryInvariant', NEW s \in Session, ReadFunds(s)
    PROVE  SessionsInvariant'
<1>1. TypeOK /\ Busy(s) /\ session[s] \in Request /\ balance \in Nat
  BY DEF ReadFunds, Busy, SessionsInvariant, DeliveryInvariant, TypeOK
<1>2. PICK q : q = session[s]
  OBVIOUS
<1>3. PICK r : r = [q EXCEPT !.pc = "funded", !.view.balance = balance]
  OBVIOUS
<1>4. /\ r \in Request /\ r.op = "pay" /\ q.op = "pay" /\ r.o = q.o /\ r.pc = "funded"
      /\ r.view.row = q.view.row /\ r.view.balance = balance
  BY <1>1, <1>2, <1>3 DEF Request, ReadFunds
<1>5. session' = [session EXCEPT ![s] = r] /\ UNCHANGED vars
  BY <1>1, <1>2, <1>3 DEF ReadFunds, TypeOK
<1>6. RowHolds(q)
  BY <1>1, <1>2 DEF SessionsInvariant
<1>7. RowHolds(r)
  BY <1>4, <1>6 DEF RowHolds, Closing
<1>8. SharedHolds(r)
  BY <1>4 DEF SharedHolds, Adjusting
<1>9. QED
  BY <1>1, <1>2, <1>4, <1>5, <1>7, <1>8, SessionGoesOn DEF vars

LEMMA FlushHolds ==
    ASSUME SessionsInvariant, DeliveryInvariant', NEW s \in Session, Flush(s)
    PROVE  SessionsInvariant'
<1>1. TypeOK /\ Busy(s) /\ session[s] \in Request
  BY DEF Flush, Busy, SessionsInvariant, DeliveryInvariant, TypeOK
<1>2. PICK q : q = session[s]
  OBVIOUS
<1>3. View(q.o) \in [ row : Row, balance : Nat, end : Nat, others : Nat, taken : BOOLEAN ]
  BY <1>1, <1>2, ViewType DEF Request
<1>4. PICK v : v = [View(q.o) EXCEPT !.row = q.view.row,
                                     !.balance = IF q.op = "pay" THEN q.view.balance ELSE @]
  OBVIOUS
<1>5. /\ v \in [ row : Row, balance : Nat, end : Nat, others : Nat, taken : BOOLEAN ]
      /\ v.row = q.view.row /\ v.end = end /\ v.others = View(q.o).others
      /\ v.balance = IF q.op = "pay" THEN q.view.balance ELSE balance
  <2>1. q.view.row \in Row /\ q.view.balance \in Nat
    BY <1>1, <1>2 DEF Request
  <2>2. View(q.o).end = end /\ View(q.o).balance = balance
    BY DEF View
  <2>3. QED
    BY <1>3, <1>4, <2>1, <2>2
<1>6. PICK r : r = [q EXCEPT !.pc = "ready", !.view = v]
  OBVIOUS
<1>7. /\ r \in Request /\ r.op = q.op /\ r.o = q.o /\ r.pc = "ready" /\ r.view = v
  BY <1>1, <1>2, <1>5, <1>6 DEF Request
<1>8. /\ session' = [session EXCEPT ![s] = r] /\ UNCHANGED vars
      /\ q.op \in Writing /\ (q.op = "pay" => q.pc = "funded")
      /\ Settled(q.op, q.o, q.view.row)
  BY <1>1, <1>2, <1>4, <1>6 DEF Flush, TypeOK, Writing
<1>9. RowHolds(q) /\ SharedHolds(q)
  BY <1>1, <1>2 DEF SessionsInvariant
<1>10. RowHolds(r)
  BY <1>5, <1>7, <1>8, <1>9 DEF RowHolds, Closing, Writing
<1>11. SharedHolds(r)
  BY <1>5, <1>7, <1>8, <1>9 DEF SharedHolds, Adjusting, Writing
<1>12. QED
  BY <1>1, <1>2, <1>7, <1>8, <1>10, <1>11, SessionGoesOn DEF vars

LEMMA AskCloseHolds ==
    ASSUME SessionsInvariant, DeliveryInvariant', NEW s \in Session, AskClose(s)
    PROVE  SessionsInvariant'
<1>1. TypeOK /\ Busy(s) /\ session[s] \in Request
  BY DEF AskClose, Busy, SessionsInvariant, DeliveryInvariant, TypeOK
<1>2. PICK q : q = session[s]
  OBVIOUS
<1>3. PICK r : r = [q EXCEPT !.pc = "ready"]
  OBVIOUS
<1>4. /\ r \in Request /\ r.op = q.op /\ r.o = q.o /\ r.pc = "ready" /\ r.view = q.view
      /\ q.o \in Order
  BY <1>1, <1>2, <1>3 DEF Request
<1>5. /\ session' = [session EXCEPT ![s] = r] /\ q.op \in Closing
      /\ UNCHANGED <<order, balance, end>>
      /\ GatewayClose(q.o) \/ UNCHANGED gateway
  BY <1>1, <1>2, <1>3 DEF AskClose, TypeOK
<1>6. \A x \in Order :
         /\ gateway[x].trade = "paid" => gateway'[x].trade = "paid"
         /\ gateway[x].trade # "none" => gateway'[x].trade # "none"
         /\ gateway[x].refund = "done" => gateway'[x].refund = "done"
  BY <1>1, <1>4, <1>5, TradesMoveOn
<1>7. RowHolds(q)
  BY <1>1, <1>2 DEF SessionsInvariant
<1>8. RowHolds(r)
  BY <1>4, <1>5, <1>7 DEF RowHolds, Closing
<1>9. SharedHolds(r)
  BY <1>4, <1>5 DEF SharedHolds, Adjusting, Writing, Closing
<1>10. QED
  BY <1>1, <1>2, <1>4, <1>5, <1>6, <1>8, <1>9, SessionGoesOn

LEMMA AskRefundHolds ==
    ASSUME SessionsInvariant, DeliveryInvariant', NEW s \in Session, AskRefund(s)
    PROVE  SessionsInvariant'
<1>1. TypeOK /\ Busy(s) /\ session[s] \in Request
  BY DEF AskRefund, Busy, SessionsInvariant, DeliveryInvariant, TypeOK
<1>2. PICK q : q = session[s]
  OBVIOUS
<1>3. PICK taken \in BOOLEAN :
        /\ IF taken THEN GatewayRefund(q.o) ELSE UNCHANGED gateway
        /\ session' = [session EXCEPT ![s].pc = "ready", ![s].view.taken = taken,
                                      ![s].view.row.number = "none"]
  BY <1>2 DEF AskRefund
<1>4. PICK row : row = [q.view.row EXCEPT !.number = "none"]
  OBVIOUS
<1>5. PICK r : r = [q EXCEPT !.pc = "ready",
                       !.view = [q.view EXCEPT !.taken = taken, !.row = row]]
  OBVIOUS
<1>6. /\ row \in Row /\ row.status = q.view.row.status
      /\ row.refund = q.view.row.refund /\ row.number = "none"
  BY <1>1, <1>2, <1>4 DEF Request, Row
<1>7. /\ r \in Request /\ r.op = q.op /\ r.o = q.o /\ r.pc = "ready" /\ r.view.row = row
      /\ q.o \in Order
  BY <1>1, <1>2, <1>3, <1>5, <1>6 DEF Request
<1>8. /\ session' = [session EXCEPT ![s] = r] /\ q.op = "approve"
      /\ UNCHANGED <<order, balance, end>>
      /\ GatewayRefund(q.o) \/ UNCHANGED gateway
  <2>1. session' = [session EXCEPT ![s] =
                      [session[s] EXCEPT !.pc = "ready",
                         !.view = [session[s].view EXCEPT !.taken = taken,
                                     !.row = [session[s].view.row EXCEPT !.number = "none"]]]]
    BY <1>1, <1>3 DEF TypeOK, Request
  <2>2. r = [session[s] EXCEPT !.pc = "ready",
               !.view = [session[s].view EXCEPT !.taken = taken,
                           !.row = [session[s].view.row EXCEPT !.number = "none"]]]
    BY <1>2, <1>4, <1>5
  <2>3. session' = [session EXCEPT ![s] = r]
    BY <2>1, <2>2
  <2>4. QED
    BY <1>2, <1>3, <2>3 DEF AskRefund
<1>9. \A x \in Order :
         /\ gateway[x].trade = "paid" => gateway'[x].trade = "paid"
         /\ gateway[x].trade # "none" => gateway'[x].trade # "none"
         /\ gateway[x].refund = "done" => gateway'[x].refund = "done"
  BY <1>1, <1>7, <1>8, TradesMoveOn
<1>10. RowHolds(q)
  BY <1>1, <1>2 DEF SessionsInvariant
<1>11. RowHolds(r)
  BY <1>6, <1>7, <1>8, <1>10 DEF RowHolds, Closing, MayRefund, Requestable, Live
<1>12. SharedHolds(r)
  BY <1>7, <1>8 DEF SharedHolds, Adjusting, Writing
<1>13. QED
  BY <1>1, <1>2, <1>7, <1>8, <1>9, <1>11, <1>12, SessionGoesOn

\* A step that changes no session, and of the rows only what the gateway knows.
LEMMA GatewayHolds ==
    ASSUME SessionsInvariant, DeliveryInvariant',
           UNCHANGED <<order, balance, end, session>>,
           \A q \in Order :
              /\ gateway[q].trade = "paid" => gateway'[q].trade = "paid"
              /\ gateway[q].trade # "none" => gateway'[q].trade # "none"
              /\ gateway[q].refund = "done" => gateway'[q].refund = "done"
    PROVE  SessionsInvariant'
<1>1. ASSUME NEW s \in Session, Busy(s)
      PROVE  SessionsInvariant'
  <2>1. PICK r : r = session[s]
    OBVIOUS
  <2>2. r \in Request
    BY <1>1, <2>1 DEF SessionsInvariant, DeliveryInvariant, TypeOK, Busy
  <2>3. RowHolds(r) /\ SharedHolds(r)
    BY <1>1, <2>1 DEF SessionsInvariant
  <2>4. session' = [session EXCEPT ![s] = r]
    BY <2>1 DEF SessionsInvariant, DeliveryInvariant, TypeOK
  <2>5. QED
    BY <1>1, <2>1, <2>2, <2>3, <2>4, SessionGoesOn
<1>2. CASE \A s \in Session : ~Busy(s)
  BY <1>2 DEF SessionsInvariant, OnlyAllowedOverlap, OneWriter, ProcessingIsLive, Live, Busy
<1>3. QED
  BY <1>1, <1>2

LEMMA AbortHolds ==
    ASSUME SessionsInvariant, DeliveryInvariant', NEW s \in Session, Abort(s)
    PROVE  SessionsInvariant'
<1>1. session' = [session EXCEPT ![s] = Free] /\ UNCHANGED vars
  BY DEF Abort
<1>2. ProcessingIsLive'
  BY <1>1 DEF SessionsInvariant, ProcessingIsLive, Live, vars
<1>3. ASSUME NEW t \in Session \ {s}, NEW q \in Request, Busy(t), q = session[t]
      PROVE  RowHolds(q)' /\ SharedHolds(q)'
  <2>1. RowHolds(q) /\ SharedHolds(q)
    BY <1>3 DEF SessionsInvariant
  <2>2. RowHolds(q)'
    BY <1>1, <2>1, RowStillHolds DEF vars
  <2>3. SharedHolds(q)'
    BY <1>1, <2>1, SharedStillHolds DEF vars, Live
  <2>4. QED
    BY <2>2, <2>3
<1>4. Free \in Request \cup {Free}
  OBVIOUS
<1>5. \A t \in Session \ {s}, q \in Request : Busy(t) /\ q = session[t] =>
         RowHolds(q)' /\ SharedHolds(q)'
  BY <1>3
<1>6. PICK r : r = Free
  OBVIOUS
<1>7. QED
  BY <1>1, <1>2, <1>4, <1>5, <1>6, SessionsHold

-----------------------------------------------------------------------------
(* The commit.                                                             *)

\* The row as handler r leaves it.
Made(r) == NewRow(r.op, [r.view EXCEPT !.row = order[r.o]])

LEMMA MadeColumns ==
    ASSUME TypeOK, NEW r \in Request
    PROVE  /\ Made(r) \in Row
           /\ Made(r).status =
                  IF r.op \in {"notify", "pay"} THEN "COMPLETED"
                  ELSE IF r.op \in {"close", "expire"} THEN "TIMEOUT"
                  ELSE IF r.op = "cancel" THEN "CANCELED"
                  ELSE IF r.op \in {"refund", "query"} THEN "REFUNDED"
                  ELSE order[r.o].status
           /\ Made(r).provider =
                  IF r.op = "pay" THEN "BALANCE"
                  ELSE IF r.op = "link" THEN "EPAY"
                  ELSE order[r.o].provider
           /\ Made(r).refund =
                  IF r.op = "request" THEN "PENDING"
                  ELSE IF r.op = "reject" THEN "REJECTED"
                  ELSE IF r.op = "approve" THEN "PROCESSING"
                  ELSE IF r.op \in {"refund", "query"} THEN "REFUNDED"
                  ELSE order[r.o].refund
           /\ Made(r).number =
                  IF r.op = "approve" THEN (IF r.view.taken THEN "known" ELSE "wrong")
                  ELSE order[r.o].number
<1>1. PICK u : u = [r.view EXCEPT !.row = order[r.o]]
  OBVIOUS
<1>2. u.row = order[r.o] /\ u.taken = r.view.taken /\ u.row \in Row /\ r.op \in Op
  BY <1>1 DEF TypeOK, Request
<1>3. Made(r) = NewRow(r.op, u)
  BY <1>1 DEF Made
<1>4. NewRow(r.op, u) \in Row
  BY <1>2, NewRowType
<1>5. QED
  BY <1>2, <1>3, <1>4, NewRowColumns

LEMMA CommitEffect ==
    ASSUME SessionsInvariant, NEW s \in Session, Commit(s), NEW r, r = session[s]
    PROVE  /\ TypeOK /\ Busy(s) /\ r \in Request /\ r.o \in Order /\ r.op \in Op /\ r.pc = "ready"
           /\ RowHolds(r) /\ SharedHolds(r)
           /\ session' = [session EXCEPT ![s] = Free]
           /\ order' = [order EXCEPT ![r.o] = Made(r)]
           /\ gateway' = [gateway EXCEPT ![r.o] = Told(r.op, @)]
           /\ r.op \notin Writing \cup Adjusting => balance' = balance
           /\ r.op \notin Writing => end' = end
<1>1. /\ TypeOK /\ Busy(s) /\ r \in Request /\ r.o \in Order /\ r.op \in Op /\ r.pc = "ready"
      /\ session' = [session EXCEPT ![s] = Free]
      /\ Write(r.op, r.o, r.view)
  BY DEF Commit, Busy, SessionsInvariant, DeliveryInvariant, TypeOK, Request
<1>2. RowHolds(r) /\ SharedHolds(r)
  BY <1>1 DEF SessionsInvariant
<1>3. Merge(order[r.o], r.view.row, NewRow(r.op, r.view)) = Made(r)
  BY <1>1, <1>2, MergedRow DEF Made
<1>4. order' = [order EXCEPT ![r.o] = Made(r)]
  BY <1>1, <1>3 DEF Write
<1>5. gateway' = [gateway EXCEPT ![r.o] = Told(r.op, @)]
  BY <1>1 DEF Write
<1>6. r.op \notin Writing \cup Adjusting => balance' = balance
  <2>1. r.op \notin Writing \cup Adjusting => Delta(r.op, r.o) = 0
    BY DEF Delta, Writing, Adjusting
  <2>2. QED
    BY <1>1, <2>1 DEF Write
<1>7. r.op \notin Writing => end' = end
  <2>1. r.op \notin Writing => NewEnd(r.op, r.o, r.view) = r.view.end
    BY DEF NewEnd, Writing
  <2>2. QED
    BY <1>1, <2>1 DEF Write
<1>8. QED
  BY <1>1, <1>2, <1>4, <1>5, <1>6, <1>7

\* What request q relies on survives the commit of request r.
LEMMA RowHoldsAfterCommit ==
    ASSUME HarmlessOnly, TypeOK, NEW r \in Request, NEW q \in Request,
           RowHolds(r), RowHolds(q), r.pc = "ready", MayOverlap(r.op, r.o, q),
           order' = [order EXCEPT ![r.o] = Made(r)],
           gateway' = [gateway EXCEPT ![r.o] = Told(r.op, @)]
    PROVE  RowHolds(q)'
<1>1. r.o \in Order /\ q.o \in Order /\ r.op \in Op /\ q.op \in Op
  BY DEF Request
<1>2. \A x \in Order :
         /\ gateway[x].trade = "paid" => gateway'[x].trade = "paid"
         /\ gateway[x].trade # "none" => gateway'[x].trade # "none"
         /\ gateway[x].refund = "done" => gateway'[x].refund = "done"
  BY <1>1, ToldTradesMoveOn
<1>3. CASE q.o # r.o
  <2>1. order'[q.o] = order[q.o]
    BY <1>1, <1>3 DEF TypeOK
  <2>2. QED
    BY <1>1, <1>2, <2>1, RowStillHolds
<1>4. CASE q.o = r.o /\ (r.op \in Adjusting \/ q.op \in Adjusting)
  <2>1. CASE r.op \in Adjusting
    <3>1. Made(r) = order[r.o]
      <4>1. PICK row : row = order[r.o]
        OBVIOUS
      <4>2. PICK new : new = Made(r)
        OBVIOUS
      <4>3. new \in Row /\ row \in Row
        BY <1>1, <4>1, <4>2, MadeColumns DEF TypeOK
      <4>4. /\ new.status = row.status /\ new.provider = row.provider
            /\ new.refund = row.refund /\ new.number = row.number
        BY <2>1, <4>1, <4>2, MadeColumns DEF Adjusting
      <4>5. QED
        BY <4>1, <4>2, <4>3, <4>4 DEF Row
    <3>2. order'[q.o] = order[q.o]
      BY <1>1, <1>4, <3>1 DEF TypeOK
    <3>3. QED
      BY <1>1, <1>2, <3>2, RowStillHolds
  <2>2. CASE q.op \in Adjusting
    BY <2>2 DEF RowHolds, Adjusting, Closing
  <2>3. QED
    BY <1>4, <2>1, <2>2
<1>5. CASE q.o = r.o /\ r.op \notin Adjusting /\ q.op \notin Adjusting
  <2>1. ~Clash(r.op, q.op) /\ ~Clash(q.op, r.op)
    BY <1>5, OverlapsAreApart
  <2>2. order'[q.o] = Made(r)
    BY <1>1, <1>5 DEF TypeOK
  <2>3. PICK row : row = order[q.o]
    OBVIOUS
  <2>4. PICK new : new = Made(r)
    OBVIOUS
  <2>5. /\ new.status =
               IF r.op \in {"notify", "pay"} THEN "COMPLETED"
               ELSE IF r.op \in {"close", "expire"} THEN "TIMEOUT"
               ELSE IF r.op = "cancel" THEN "CANCELED"
               ELSE IF r.op \in {"refund", "query"} THEN "REFUNDED"
               ELSE row.status
        /\ new.provider =
               IF r.op = "pay" THEN "BALANCE"
               ELSE IF r.op = "link" THEN "EPAY"
               ELSE row.provider
        /\ new.refund =
               IF r.op = "request" THEN "PENDING"
               ELSE IF r.op = "reject" THEN "REJECTED"
               ELSE IF r.op = "approve" THEN "PROCESSING"
               ELSE IF r.op \in {"refund", "query"} THEN "REFUNDED"
               ELSE row.refund
        /\ r.op # "approve" => new.number = row.number
    BY <1>5, <2>3, <2>4, MadeColumns
  <2>6. order[q.o] = row /\ order[r.o] = row /\ order'[q.o] = new
    BY <1>5, <2>2, <2>3, <2>4
  <2>7. /\ r.op = "notify" => row.provider = "EPAY" /\ gateway[q.o].trade = "paid" /\ ~Live(row)
        /\ r.op = "pay" => row.status = "CREATED"
        /\ r.op = "link" => row.status = "CREATED" \/ row.provider = "EPAY"
        /\ r.op \in Closing => row.status \in {"CREATED", NewRow(r.op, r.view).status}
        /\ r.op = "request" => Live(row) /\ row.refund \in {"NONE", "REJECTED", "PENDING"}
        /\ r.op = "reject" => row.refund \in {"PENDING", "REJECTED"}
        /\ r.op \in {"refund", "approve"} =>
               Live(row) /\ row.refund \in {"NONE", "REJECTED", "PENDING"}
        /\ r.op = "query" => Live(row) /\ row.refund = "PROCESSING"
    BY <1>5, <2>6 DEF RowHolds, MayNotify, MayPay, MayRefund, Requestable
  <2>8. r.op \in Closing =>
            NewRow(r.op, r.view).status = IF r.op = "cancel" THEN "CANCELED" ELSE "TIMEOUT"
    BY <1>1, NewRowColumns DEF Closing, Request
  <2>9. q.op \in Closing =>
            NewRow(q.op, q.view).status = IF q.op = "cancel" THEN "CANCELED" ELSE "TIMEOUT"
    BY <1>1, NewRowColumns DEF Closing, Request
  <2>10. gateway[q.o].trade # "none" \/ r.op = "link" => gateway'[q.o].trade # "none"
    BY <1>1, <1>2, <1>5 DEF Told, TypeOK, Trade
  <2>11. q.op = "notify" => /\ new.provider = "EPAY" /\ gateway'[q.o].trade = "paid"
                            /\ ~Live(new) /\ ~Live(q.view.row)
    <3>1. q.op = "notify" => /\ row.provider = "EPAY" /\ gateway[q.o].trade = "paid"
                             /\ ~Live(row) /\ ~Live(q.view.row)
      BY <2>6 DEF RowHolds, MayNotify
    <3>2. q.op = "notify" => gateway'[q.o].trade = "paid"
      BY <1>1, <1>2, <3>1
    <3>3. q.op = "notify" => new.provider = "EPAY" /\ ~Live(new)
      BY <1>1, <1>5, <2>1, <2>5, <2>7, <3>1 DEF Clash, Closing, Live, Op
    <3>4. QED
      BY <3>1, <3>2, <3>3
  <2>12. q.op = "pay" => /\ MayPay(q.o, new) /\ MayPay(q.o, q.view.row)
                         /\ q.view.row.provider = new.provider
    <3>1. q.op = "pay" => /\ MayPay(q.o, row) /\ MayPay(q.o, q.view.row)
                          /\ q.view.row.provider = row.provider
      BY <2>6 DEF RowHolds
    <3>2. QED
      BY <1>1, <1>5, <2>1, <2>5, <2>7, <3>1 DEF Clash, Closing, Live, MayPay, Op
  <2>13. q.op = "link" =>
            /\ q.view.row.provider = "EPAY" => new.provider = "EPAY"
            /\ \/ new.status = "CREATED"
               \/ new.provider = "EPAY" /\ gateway'[q.o].trade # "none"
    <3>1. q.op = "link" =>
            /\ q.view.row.provider = "EPAY" => row.provider = "EPAY"
            /\ \/ row.status = "CREATED"
               \/ row.provider = "EPAY" /\ gateway[q.o].trade # "none"
      BY <2>6 DEF RowHolds
    <3>2. r.op \notin {"pay"} \cup Closing \/ q.op # "link"
      BY <2>1 DEF Clash
    <3>3. q.op = "link" => new.provider = row.provider \/ new.provider = "EPAY"
      BY <2>5, <3>2
    <3>4. q.op = "link" =>
            \/ new.status = row.status
            \/ (gateway[q.o].trade # "none" /\ row.provider = "EPAY")
      <4>1. CASE r.op = "notify"
        BY <2>7, <4>1
      <4>2. CASE r.op \in {"refund", "query"}
        BY <2>7, <3>1, <4>2 DEF Live
      <4>3. CASE r.op \notin {"notify", "pay", "refund", "query"} \cup Closing
        BY <2>5, <4>3 DEF Closing
      <4>4. QED
        BY <3>2, <4>1, <4>2, <4>3
    <3>5. QED
      BY <2>10, <3>1, <3>3, <3>4
  <2>14. q.op \in Closing =>
            q.view.row.status = "CREATED" /\ new.status \in {"CREATED", NewRow(q.op, q.view).status}
    <3>1. q.op \in Closing =>
            q.view.row.status = "CREATED" /\ row.status \in {"CREATED", NewRow(q.op, q.view).status}
      BY <2>6 DEF RowHolds
    <3>2. q.op \in Closing /\ r.op \in Closing => (q.op = "cancel" <=> r.op = "cancel")
      BY <2>1 DEF Clash, Closing
    <3>3. q.op \in Closing => r.op \notin {"notify", "pay", "link"}
      BY <2>1 DEF Clash
    <3>4. q.op \in Closing => r.op \notin {"refund", "query"}
      BY <2>7, <2>9, <3>1 DEF Live
    <3>5. QED
      BY <1>1, <2>5, <2>9, <3>1, <3>2, <3>3, <3>4 DEF Closing
  <2>15. q.op = "request" => MayRefund(q.o, new) /\ q.view.row.refund # "PENDING"
    <3>1. q.op = "request" => MayRefund(q.o, row) /\ q.view.row.refund # "PENDING"
      BY <2>6 DEF RowHolds
    <3>2. q.op = "request" => r.op \notin {"refund", "approve"}
      BY <2>1 DEF Clash
    <3>3. QED
      BY <2>5, <2>7, <2>8, <3>1, <3>2 DEF MayRefund, Requestable, Live, Closing
  <2>16. q.op = "reject" => q.view.row.refund = "PENDING" /\ new.refund \in {"PENDING", "REJECTED"}
    <3>1. q.op = "reject" => q.view.row.refund = "PENDING" /\ row.refund \in {"PENDING", "REJECTED"}
      BY <2>6 DEF RowHolds
    <3>2. q.op = "reject" => r.op \notin {"refund", "approve"}
      BY <2>1 DEF Clash
    <3>3. QED
      BY <2>5, <2>7, <3>1, <3>2
  <2>17. q.op \in {"refund", "approve"} => MayRefund(q.o, new) /\ MayRefund(q.o, q.view.row)
    <3>1. q.op \in {"refund", "approve"} => MayRefund(q.o, row) /\ MayRefund(q.o, q.view.row)
      BY <2>6 DEF RowHolds
    <3>2. q.op \in {"refund", "approve"} => r.op \notin {"refund", "approve", "request", "reject"}
      BY <2>1 DEF Clash
    <3>3. QED
      BY <2>5, <2>7, <2>8, <3>1, <3>2 DEF MayRefund, Requestable, Live, Closing
  <2>18. q.op = "approve" =>
            new.provider = "EPAY" /\ (q.pc = "ready" => q.view.row.number = "none")
    <3>1. q.op = "approve" => /\ row.provider = "EPAY" /\ (q.pc = "ready" => q.view.row.number = "none")
                              /\ Live(row)
      BY <2>6 DEF RowHolds, MayRefund
    <3>2. QED
      BY <2>5, <2>7, <3>1 DEF Live
  <2>19. q.op = "query" =>
            /\ Live(new) /\ new.refund = "PROCESSING"
            /\ Live(q.view.row) /\ q.view.row.refund = "PROCESSING"
            /\ q.view.row.number = new.number
            /\ q.pc = "ready" => gateway'[q.o].refund = "done" /\ q.view.row.number = "known"
    <3>1. q.op = "query" =>
            /\ Live(row) /\ row.refund = "PROCESSING"
            /\ Live(q.view.row) /\ q.view.row.refund = "PROCESSING"
            /\ q.view.row.number = row.number
            /\ q.pc = "ready" => gateway[q.o].refund = "done" /\ q.view.row.number = "known"
      BY <2>6 DEF RowHolds, Settled
    <3>2. q.op = "query" => r.op \notin {"refund", "approve", "request", "reject", "query"}
      BY <2>1, <2>7, <3>1 DEF Clash
    <3>3. QED
      BY <1>1, <1>2, <2>5, <2>7, <2>8, <3>1, <3>2 DEF Live, Closing
  <2>20. QED
    BY <2>6, <2>11, <2>12, <2>13, <2>14, <2>15, <2>16, <2>17, <2>18, <2>19
       DEF RowHolds, MayNotify, MayPay, MayRefund, Requestable, Live, Settled
<1>6. QED
  BY <1>3, <1>4, <1>5

LEMMA CommitHolds ==
    ASSUME HarmlessOnly, SessionsInvariant, DeliveryInvariant', NEW s \in Session, Commit(s)
    PROVE  SessionsInvariant'
<1>1. PICK r : r = session[s]
  OBVIOUS
<1>2. /\ TypeOK /\ Busy(s) /\ r \in Request /\ r.o \in Order /\ r.op \in Op /\ r.pc = "ready"
      /\ RowHolds(r) /\ SharedHolds(r)
      /\ session' = [session EXCEPT ![s] = Free]
      /\ order' = [order EXCEPT ![r.o] = Made(r)]
      /\ gateway' = [gateway EXCEPT ![r.o] = Told(r.op, @)]
      /\ r.op \notin Writing \cup Adjusting => balance' = balance
      /\ r.op \notin Writing => end' = end
  BY <1>1, CommitEffect
<1>3. /\ r.op = "notify" => ~Live(order[r.o])
      /\ r.op = "link" => order[r.o].status = "CREATED" \/ order[r.o].provider = "EPAY"
      /\ r.op \in Closing => order[r.o].status \in {"CREATED", Made(r).status}
      /\ r.op \in {"refund", "approve", "query"} => Live(order[r.o])
      /\ r.op = "approve" => Live(order[r.o])
  <2>1. r.op \in Closing => NewRow(r.op, r.view).status = Made(r).status
    BY <1>2, NewRowColumns, MadeColumns DEF Closing, Request
  <2>2. QED
    BY <1>2, <2>1 DEF RowHolds, MayNotify, MayRefund
<1>4. ProcessingIsLive'
  <2>1. Made(r).refund = "PROCESSING" => Live(Made(r))
    <3>1. order[r.o].refund = "PROCESSING" => Live(order[r.o])
      BY <1>2 DEF SessionsInvariant, ProcessingIsLive
    <3>2. r.op = "pay" => order[r.o].status = "CREATED"
      BY <1>2 DEF RowHolds, MayPay
    <3>3. QED
      BY <1>2, <1>3, <3>1, <3>2, MadeColumns DEF Live, Closing
  <2>2. \A x \in Order : order'[x] = IF x = r.o THEN Made(r) ELSE order[x]
    BY <1>2 DEF TypeOK
  <2>3. \A x \in Order : order[x].refund = "PROCESSING" => Live(order[x])
    BY DEF SessionsInvariant, ProcessingIsLive
  <2>4. \A x \in Order : order'[x].refund = "PROCESSING" => Live(order'[x])
    BY <2>1, <2>2, <2>3 DEF Live
  <2>5. QED
    BY <2>4 DEF ProcessingIsLive, Live
<1>5. ASSUME NEW t \in Session \ {s}, NEW q \in Request, Busy(t), q = session[t]
      PROVE  RowHolds(q)' /\ SharedHolds(q)'
  <2>1. RowHolds(q) /\ SharedHolds(q)
    BY <1>5 DEF SessionsInvariant
  <2>2. MayOverlap(r.op, r.o, q)
    BY <1>1, <1>2, <1>5 DEF SessionsInvariant, OnlyAllowedOverlap
  <2>3. RowHolds(q)'
    BY <1>2, <2>1, <2>2, RowHoldsAfterCommit
  <2>4. SharedHolds(q)'
    <3>1. CASE q.op \in Writing \cup Adjusting
      <4>1. r.op \notin Writing \cup Adjusting
        BY <1>1, <1>2, <1>5, <3>1 DEF SessionsInvariant, OneWriter
      <4>2. balance' = balance /\ end' = end
        BY <1>2, <4>1
      <4>3. Live(Made(r)) <=> Live(order[r.o])
        BY <1>2, <1>3, <4>1, MadeColumns DEF Live, Writing, Closing
      <4>4. \A x \in Order : order'[x] = IF x = r.o THEN Made(r) ELSE order[x]
        BY <1>2 DEF TypeOK
      <4>5. \A x \in Order : Live(order[x])' <=> Live(order[x])
        BY <4>3, <4>4 DEF Live
      <4>6. QED
        BY <2>1, <4>2, <4>5, SharedStillHolds
    <3>2. CASE q.op \notin Writing \cup Adjusting
      BY <3>2 DEF SharedHolds
    <3>3. QED
      BY <3>1, <3>2
  <2>5. QED
    BY <2>3, <2>4
<1>6. \A t \in Session \ {s}, q \in Request : Busy(t) /\ q = session[t] =>
         RowHolds(q)' /\ SharedHolds(q)'
  BY <1>5
<1>7. PICK f : f = Free
  OBVIOUS
<1>8. f \in Request \cup {Free}
  BY <1>7
<1>9. QED
  BY <1>2, <1>4, <1>6, <1>7, <1>8, SessionsHold

LEMMA StepHolds ==
    ASSUME HarmlessOnly, SessionsInvariant, [SessionNext]_allVars
    PROVE  SessionsInvariant'
<1>1. DeliveryInvariant'
  BY StepDelivers DEF SessionsInvariant
<1>2. TypeOK
  BY DEF SessionsInvariant, DeliveryInvariant
<1>3. ASSUME NEW s \in Session, SessionStep(s)
      PROVE  SessionsInvariant'
  <2>1. ASSUME NEW o \in Order, NEW op \in Op, Begin(s, op, o) \/ BeginAdjust(s, op, o)
        PROVE  SessionsInvariant'
    BY <1>1, <2>1, BeginHolds
  <2>2. CASE ReadFunds(s) BY <1>1, <2>2, ReadFundsHolds
  <2>3. CASE Flush(s) BY <1>1, <2>3, FlushHolds
  <2>4. CASE AskClose(s) BY <1>1, <2>4, AskCloseHolds
  <2>5. CASE AskRefund(s) BY <1>1, <2>5, AskRefundHolds
  <2>6. CASE Commit(s) BY <1>1, <2>6, CommitHolds
  <2>7. CASE Abort(s) BY <1>1, <2>7, AbortHolds
  <2>8. QED
    BY <1>3, <2>1, <2>2, <2>3, <2>4, <2>5, <2>6, <2>7 DEF SessionStep
<1>4. ASSUME NEW o \in Order, BeginRepeat(o) \/ Outside(o)
      PROVE  SessionsInvariant'
  <2>1. /\ UNCHANGED <<order, balance, end, session>>
        /\ \/ GatewayPay(o) \/ GatewaySettle(o)
           \/ gateway' = [gateway EXCEPT ![o].acked = TRUE]
    BY <1>4 DEF BeginRepeat, Repeat, Outside
  <2>2. \A q \in Order :
           /\ gateway[q].trade = "paid" => gateway'[q].trade = "paid"
           /\ gateway[q].trade # "none" => gateway'[q].trade # "none"
           /\ gateway[q].refund = "done" => gateway'[q].refund = "done"
    BY <1>2, <2>1, TradesMoveOn
  <2>3. QED
    BY <1>1, <2>1, <2>2, GatewayHolds
<1>5. CASE UNCHANGED allVars
  BY <1>1, <1>5, GatewayHolds DEF allVars, vars
<1>6. QED
  BY <1>3, <1>4, <1>5 DEF SessionNext

-----------------------------------------------------------------------------
(* Every step is a step of Payments, or none.                              *)

\* The commit of a handler that another one made needless: it leaves the row
\* as it is.
LEMMA NeedlessCommit ==
    ASSUME SessionsInvariant, NEW s \in Session, Commit(s), NEW r, r = session[s],
           \/ r.op = "link" /\ order[r.o].status # "CREATED"
           \/ r.op \in Closing /\ order[r.o].status # "CREATED"
           \/ r.op = "request" /\ order[r.o].refund = "PENDING"
           \/ r.op = "reject" /\ order[r.o].refund = "REJECTED"
    PROVE  UNCHANGED vars
<1>1. /\ TypeOK /\ r \in Request /\ r.o \in Order /\ r.op \in Op /\ r.pc = "ready"
      /\ RowHolds(r)
      /\ order' = [order EXCEPT ![r.o] = Made(r)]
      /\ gateway' = [gateway EXCEPT ![r.o] = Told(r.op, @)]
      /\ r.op \notin Writing \cup Adjusting => balance' = balance
      /\ r.op \notin Writing => end' = end
  BY CommitEffect
<1>2. r.op \notin Writing \cup Adjusting
  BY DEF Writing, Adjusting, Closing
<1>3. PICK row : row = order[r.o]
  OBVIOUS
<1>4. PICK new : new = Made(r)
  OBVIOUS
<1>5. new \in Row /\ row \in Row
  BY <1>1, <1>3, <1>4, MadeColumns DEF TypeOK
<1>6. /\ r.op = "link" => row.provider = "EPAY" /\ gateway[r.o].trade # "none"
      /\ r.op \in Closing => row.status = NewRow(r.op, r.view).status
  BY <1>1, <1>3 DEF RowHolds, Closing
<1>7. r.op \in Closing =>
          NewRow(r.op, r.view).status = IF r.op = "cancel" THEN "CANCELED" ELSE "TIMEOUT"
  BY <1>1, NewRowColumns DEF Closing, Request
<1>8. /\ new.status = row.status /\ new.provider = row.provider
      /\ new.refund = row.refund /\ new.number = row.number
  BY <1>1, <1>3, <1>4, <1>6, <1>7, MadeColumns DEF Closing
<1>9. new = row
  BY <1>5, <1>8 DEF Row
<1>10. order' = order
  BY <1>1, <1>3, <1>4, <1>9 DEF TypeOK
<1>11. gateway' = gateway
  <2>1. PICK t : t = gateway[r.o]
    OBVIOUS
  <2>2. t \in Trade
    BY <1>1, <2>1 DEF TypeOK
  <2>3. Told(r.op, t) = t
    BY <1>2, <1>6, <2>1, <2>2 DEF Told, Trade, Writing
  <2>4. QED
    BY <1>1, <2>1, <2>3 DEF TypeOK
<1>12. Write(r.op, r.o, r.view)
  BY DEF Commit
<1>13. ledger' = ledger
  <2>1. Delta(r.op, r.o) = 0
    BY <1>2 DEF Delta, Writing, Adjusting
  <2>2. QED
    BY <1>1, <1>12, <2>1 DEF Write, TypeOK
<1>14. granted' = granted /\ refunded' = refunded
  BY <1>1, <1>2, <1>12 DEF Write, TypeOK, Writing
<1>15. QED
  BY <1>1, <1>2, <1>10, <1>11, <1>13, <1>14 DEF vars

\* Any other commit is the handler as it is meant to be, on the rows as they are.
LEMMA DueCommit ==
    ASSUME SessionsInvariant, NEW s \in Session, Commit(s), NEW r, r = session[s],
           r.op \in Closing \cup {"link"} => order[r.o].status = "CREATED",
           r.op = "request" => order[r.o].refund # "PENDING",
           r.op = "reject" => order[r.o].refund # "REJECTED"
    PROVE  Serve(r.op, r.o)
<1>1. /\ TypeOK /\ Busy(s) /\ r \in Request /\ r.o \in Order /\ r.op \in Op /\ r.pc = "ready"
      /\ RowHolds(r) /\ SharedHolds(r)
      /\ order' = [order EXCEPT ![r.o] = Made(r)]
  BY CommitEffect
<1>2. Allowed(r.op, r.o, order[r.o])
  <2>1. CASE r.op = "notify" BY <1>1, <2>1 DEF RowHolds, Allowed, Handled
  <2>2. CASE r.op = "pay" BY <1>1, <2>2 DEF RowHolds, Allowed
  <2>3. CASE r.op \in Closing \cup {"link"} BY <2>3 DEF Allowed
  <2>4. CASE r.op = "request"
    BY <1>1, <2>4 DEF RowHolds, Allowed, MayRefund, MayRequest
  <2>5. CASE r.op = "reject" BY <1>1, <2>5 DEF RowHolds, Allowed
  <2>6. CASE r.op \in {"refund", "approve"} BY <1>1, <2>6 DEF RowHolds, Allowed
  <2>7. CASE r.op = "query" BY <1>1, <2>7 DEF RowHolds, Allowed
  <2>8. CASE r.op \in Adjusting BY <2>8 DEF Allowed
  <2>9. QED
    BY <1>1, <2>1, <2>2, <2>3, <2>4, <2>5, <2>6, <2>7, <2>8 DEF Op, Adjusting
<1>3. r.op \in Writing \cup Adjusting => r.view.balance = balance
  BY <1>1 DEF SharedHolds
<1>4. Covers(r.op, r.o, balance)
  <2>1. Covers(r.op, r.o, r.view.balance)
    BY <1>1 DEF SessionsInvariant, DeliveryInvariant, FundsAreCovered
  <2>2. QED
    BY <1>3, <2>1 DEF Covers, Writing
<1>5. Settled(r.op, r.o, order[r.o])
  BY <1>1 DEF RowHolds, Settled
<1>6. View(r.o) \in [ row : Row, balance : Nat, end : Nat, others : Nat, taken : BOOLEAN ]
  BY <1>1, ViewType
<1>7. PICK w : w = [View(r.o) EXCEPT !.taken = r.view.taken]
  OBVIOUS
<1>8. /\ w.row = order[r.o] /\ w.balance = balance /\ w.end = end
      /\ w.others = View(r.o).others /\ w.taken = r.view.taken /\ w.row \in Row
  <2>1. View(r.o).row = order[r.o] /\ View(r.o).balance = balance /\ View(r.o).end = end
    BY DEF View
  <2>2. QED
    BY <1>1, <1>6, <1>7, <2>1 DEF TypeOK
<1>9. Write(r.op, r.o, r.view)
  BY DEF Commit
<1>10. order' = [order EXCEPT ![r.o] = Merge(@, w.row, NewRow(r.op, w))]
  <2>1. PICK new : new = NewRow(r.op, w)
    OBVIOUS
  <2>2. PICK made : made = Made(r)
    OBVIOUS
  <2>3. new \in Row /\ made \in Row
    BY <1>1, <1>8, <2>1, <2>2, NewRowType, MadeColumns
  <2>4. /\ new.status = made.status /\ new.provider = made.provider
        /\ new.refund = made.refund /\ new.number = made.number
    <3>1. PICK row : row = order[r.o]
      OBVIOUS
    <3>2. w.row = row /\ w.taken = r.view.taken
      BY <1>8, <3>1
    <3>3. QED
      BY <1>1, <1>8, <2>1, <2>2, <3>1, <3>2, NewRowColumns, MadeColumns
  <2>5. new = made
    BY <2>3, <2>4 DEF Row
  <2>6. Merge(order[r.o], w.row, NewRow(r.op, w)) = made
    BY <1>8, <2>1, <2>3, <2>5, MergeOfOne
  <2>7. QED
    BY <1>1, <2>2, <2>6
<1>11. balance' = IF Delta(r.op, r.o) # 0 THEN w.balance + Delta(r.op, r.o) ELSE balance
  <2>1. Delta(r.op, r.o) # 0 => r.op \in Writing \cup Adjusting
    BY DEF Delta, Writing, Adjusting
  <2>2. Delta(r.op, r.o) # 0 => r.view.balance = w.balance
    BY <1>3, <1>8, <2>1
  <2>3. balance' = IF Delta(r.op, r.o) # 0 THEN r.view.balance + Delta(r.op, r.o) ELSE balance
    BY <1>9 DEF Write
  <2>4. QED
    BY <2>2, <2>3
<1>12. end' = IF NewEnd(r.op, r.o, w) # w.end THEN NewEnd(r.op, r.o, w) ELSE end
  <2>1. end' = IF NewEnd(r.op, r.o, r.view) # r.view.end THEN NewEnd(r.op, r.o, r.view) ELSE end
    BY <1>9 DEF Write
  <2>2. CASE r.op \in Writing
    <3>1. r.view.end = w.end /\ r.view.others = w.others
      BY <1>1, <1>8, <2>2 DEF SharedHolds
    <3>2. NewEnd(r.op, r.o, r.view) = NewEnd(r.op, r.o, w)
      BY <3>1 DEF NewEnd
    <3>3. QED
      BY <2>1, <3>1, <3>2
  <2>3. CASE r.op \notin Writing
    BY <2>1, <2>3 DEF NewEnd, Writing
  <2>4. QED
    BY <2>2, <2>3
<1>13. Write(r.op, r.o, w)
  BY <1>9, <1>10, <1>11, <1>12 DEF Write
<1>14. r.view.taken \in BOOLEAN
  BY <1>1 DEF Request
<1>15. QED
  BY <1>2, <1>4, <1>5, <1>7, <1>13, <1>14 DEF Serve

LEMMA StepIsSerial ==
    ASSUME SessionsInvariant, [SessionNext]_allVars
    PROVE  [SerialNext]_vars
<1>1. \A s \in Session : Busy(s) => session[s].o \in Order /\ session[s].op \in Op
  BY DEF SessionsInvariant, DeliveryInvariant, TypeOK, Busy, Request
<1>2. ASSUME NEW s \in Session, SessionStep(s)
      PROVE  SerialNext \/ UNCHANGED vars
  <2>1. ASSUME NEW o \in Order, NEW op \in Op, Begin(s, op, o) \/ BeginAdjust(s, op, o)
        PROVE  UNCHANGED vars
    BY <2>1 DEF Begin, BeginAdjust
  <2>2. CASE ReadFunds(s) \/ Flush(s) \/ Abort(s)
    BY <2>2 DEF ReadFunds, Flush, Abort
  <2>3. CASE AskClose(s)
    BY <1>1, <2>3 DEF AskClose, GatewayStep, SerialNext, vars
  <2>4. CASE AskRefund(s)
    BY <1>1, <2>4 DEF AskRefund, GatewayStep, SerialNext, vars
  <2>5. CASE Commit(s)
    <3>1. PICK r : r = session[s]
      OBVIOUS
    <3>2. r.o \in Order /\ r.op \in Op
      BY <1>1, <2>5, <3>1 DEF Commit
    <3>3. Serve(r.op, r.o) => SerialNext
      BY <3>2 DEF SerialNext
    <3>4. QED
      BY <2>5, <3>1, <3>3, NeedlessCommit, DueCommit
  <2>6. QED
    BY <1>2, <2>1, <2>2, <2>3, <2>4, <2>5 DEF SessionStep
<1>3. ASSUME NEW o \in Order, BeginRepeat(o) \/ Outside(o)
      PROVE  SerialNext
  BY <1>3 DEF BeginRepeat, Outside, GatewayStep, SerialNext
<1>4. CASE UNCHANGED allVars
  BY <1>4 DEF allVars
<1>5. QED
  BY <1>2, <1>3, <1>4 DEF SessionNext

-----------------------------------------------------------------------------
(* The theorems.                                                           *)

\* Whatever handlers overlap, in any number: the columns keep their types, the
\* balance stays a natural number, and every handled order was fulfilled.
THEOREM DeliveryInvariantHolds == Spec => []DeliveryInvariant
<1>1. SessionInit => DeliveryInvariant
  BY InitDelivers
<1>2. DeliveryInvariant /\ [SessionNext]_allVars => DeliveryInvariant'
  BY StepDelivers
<1>3. QED
  BY <1>1, <1>2, PTL DEF Spec

\* Whatever handlers overlap: a callback answered with "success", which the
\* gateway never repeats, belongs to an order that was fulfilled.
THEOREM AcknowledgedIsGranted == Spec => []AckedIsGranted
<1>1. DeliveryInvariant => AckedIsGranted
  BY DEF DeliveryInvariant
<1>2. QED
  BY <1>1, DeliveryInvariantHolds, PTL

\* The overlaps of Harmless and HarmlessAcross keep their invariant: what a
\* request read and decided on is still true when it commits.
THEOREM SessionsStayConsistent ==
    ASSUME HarmlessOnly PROVE Spec => []SessionsInvariant
<1>1. SessionInit => SessionsInvariant
  BY InitHolds
<1>2. SessionsInvariant /\ [SessionNext]_allVars => SessionsInvariant'
  BY StepHolds
<1>3. QED
  BY <1>1, <1>2, PTL DEF Spec

\* Handlers that overlap only as Harmless and HarmlessAcross allow, in any
\* number, on any orders: every behaviour is one of Payments, where they run
\* one after the other.  No update of the balance or of a subscription's end is
\* lost, no order is fulfilled or refunded twice, no status is overwritten.
THEOREM OverlapsAreHarmless ==
    ASSUME HarmlessOnly PROVE Spec => Serializable
<1>1. SessionInit => Init
  BY DEF SessionInit
<1>2. SessionsInvariant /\ [SessionNext]_allVars => [SerialNext]_vars
  BY StepIsSerial
<1>3. QED
  BY <1>1, <1>2, SessionsStayConsistent, PTL DEF Spec, Serializable, SerialSpec

=============================================================================
