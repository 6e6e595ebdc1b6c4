------------------------------- MODULE MCVod -------------------------------
(* Instances of VodRequests. *)
EXTENDS VodRequests, TLC

TwoSubscriptions == 1 .. 2
OneEach  == <<1, 1>>
Entries  == {0}

\* Everything but an approval beside another handler that takes quota, two
\* counts at a time, and an admin who edits plans and counters beside anybody.
ApprovalsAlone ==
    {{a, b} : a, b \in Handler \ {"edit"}}
        \ {{"approve"}, {"approve", "create"}, {"recount"}}

\* Either handlers overlap or plans and counters are edited; what is gone
\* differs from what is over for the latter only.
OneDisturbance == overlapped =>
    /\ ~edited /\ \A x \in Session : session[x].op # "edit"
    /\ \A s \in Subscription : sub[s] # "gone"

Symmetry == Permutations(Request) \cup Permutations(Session)

=============================================================================
