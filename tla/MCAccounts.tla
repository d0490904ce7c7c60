----------------------------- MODULE MCAccounts -----------------------------
(* Instances of Accounts for TLC. *)
EXTENDS Accounts, TLC

Symmetry == Permutations(User \ Social) \union Permutations(Request)
                \union Permutations(Invitation)
                \union Permutations(Provider)
=============================================================================
