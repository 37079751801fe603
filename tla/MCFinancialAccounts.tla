------------------------ MODULE MCFinancialAccounts ------------------------
(* A small instance of FinancialAccounts for TLC. *)
EXTENDS FinancialAccounts, TLC

CONSTANTS c1, c2, w1

MCCalls       == {c1, c2}
MCWithdrawals == {w1}

Symmetry == Permutations(MCCalls)
=============================================================================
