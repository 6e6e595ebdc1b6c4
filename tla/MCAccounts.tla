----------------------------- MODULE MCAccounts -----------------------------
(* Instances of Accounts: one address is invited. *)
EXTENDS Accounts, TLC

CONSTANT e1

InviteeOf == [i \in Invitation |-> e1]

Symmetry == Permutations(User) \cup Permutations(Name) \cup Permutations(Session)

=============================================================================
