----------------------------- MODULE MCSessions -----------------------------
(* A small instance of Sessions for TLC. *)
EXTENDS Sessions, TLC

CONSTANTS c1, c2, l1, l2

MCCalls       == {c1, c2}
MCResetTokens == {l1, l2}

\* Sessions, and what each call knows: a token and a victim.
MCTokens == 1 .. (MaxSessions + Cardinality(Calls) - 1 + 2 * Cardinality(Calls))

Symmetry == Permutations(MCCalls) \cup Permutations(MCResetTokens)
=============================================================================
