------------------------------ MODULE VodQuota ------------------------------
(***************************************************************************)
(* What a plan promises of video on demand: a subscription allows a fixed  *)
(* number of requests of a kind.  A request that is accepted spends one    *)
(* of them, and only deleted requests give any back.                       *)
(***************************************************************************)
EXTENDS Naturals

CONSTANTS Subscription, Times   \* how often each may be used

VARIABLE spent

Init == spent = [s \in Subscription |-> 0]

Spend(s) ==
    /\ spent[s] < Times[s]
    /\ spent' = [spent EXCEPT ![s] = @ + 1]

GiveBack ==
    /\ spent' \in [Subscription -> Nat]
    /\ \A s \in Subscription : spent'[s] <= spent[s]

Next == GiveBack \/ \E s \in Subscription : Spend(s)

Spec == Init /\ [][Next]_spent

=============================================================================
