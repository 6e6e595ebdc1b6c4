--------------------------- MODULE MCEntitlements ---------------------------
(* Instances of Entitlements: two plans, one server in both. *)
EXTENDS Entitlements, TLC

CONSTANTS s1, s2, p1, p2

PlanServers == (p1 :> {s1}) @@ (p2 :> {s1, s2})

=============================================================================
