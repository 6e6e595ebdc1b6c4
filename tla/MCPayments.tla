----------------------------- MODULE MCPayments -----------------------------
(***************************************************************************)
(* Small instances of PaymentSessions for TLC.                             *)
(***************************************************************************)
EXTENDS PaymentSessions, TLC

CONSTANTS a, b

TwoOrders == {a, b}

RenewAndNew == a :> "RENEW" @@ b :> "NEW"

One  == [o \in Order |-> 1]
Zero == [o \in Order |-> 0]
CreditOfNew == [o \in Order |-> IF Kind[o] = "NEW" THEN 1 ELSE 0]
Adjust == "deposit" :> 5 @@ "withdraw" :> -5

=============================================================================
