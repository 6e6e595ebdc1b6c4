----------------------------- MODULE MCBindings -----------------------------
(* Instances of Bindings: two users contend for accounts. *)
EXTENDS Bindings, TLC

Symmetry == Permutations(User) \cup Permutations(Google) \cup Permutations(Telegram)
                \cup Permutations(Row) \cup Permutations(Session)

=============================================================================
