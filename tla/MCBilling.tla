------------------------------ MODULE MCBilling ------------------------------
(***************************************************************************)
(* Small instances of the billing model for TLC: a basic and a premium     *)
(* plan, days of a short month, prices in whole units.                     *)
(***************************************************************************)
EXTENDS BillingProperties, TLC

CONSTANTS Basic, Premium

TwoPlans  == {Basic, Premium}
TierLevel == Basic :> 1 @@ Premium :> 2

\* A short month of two days and a long one of three, in turn: the third day
\* of the long one has no counterpart in the short one, whose last day it
\* becomes.
Calendar  == 5
Month(d)  == IF d \in {2, 3} THEN 3 ELSE 2
Terms     == [c \in Cycle |-> [d \in 0..(Calendar - 1) |->
                CASE c = "TRIAL" -> 1 [] c = "MONTHLY" -> Month(d) [] c = "LIFETIME" -> 20]]
Short     == [c \in Cycle |-> CASE c = "TRIAL" -> 1 [] c = "MONTHLY" -> 2 [] c = "LIFETIME" -> 20]
Long      == [c \in Cycle |-> CASE c = "TRIAL" -> 1 [] c = "MONTHLY" -> 3 [] c = "LIFETIME" -> 20]

\* Each step up costs more than everything it could be credited with.
RisingPrice == [pc \in TwoPlans \X Cycle |->
    CASE pc[2] = "TRIAL"                         -> 0
      [] pc[1] = Basic /\ pc[2] = "MONTHLY"      -> 2
      [] pc[1] = Premium /\ pc[2] = "MONTHLY"    -> 7
      [] pc[1] = Basic /\ pc[2] = "LIFETIME"     -> 20
      [] pc[1] = Premium /\ pc[2] = "LIFETIME"   -> 40]

\* From a trial to a lifetime; the monthly plans alone; the basic plan alone.
Trials  == {<<Basic, "TRIAL">>, <<Basic, "MONTHLY">>, <<Premium, "LIFETIME">>}
Monthly == {<<Basic, "MONTHLY">>, <<Premium, "MONTHLY">>}
Entry   == {<<Basic, "TRIAL">>, <<Basic, "MONTHLY">>}
=============================================================================
