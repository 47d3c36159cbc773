------------------------------- MODULE MCAccounts -------------------------------
(* Constants of the Accounts runs.                                         *)
EXTENDS Accounts, TLC

Symmetry == Permutations(Handlers) \cup Permutations(Subjects)
                \cup Permutations(UserIds)
=============================================================================
