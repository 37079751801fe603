--------------------------- MODULE MCTransactions ---------------------------
(* A small instance of Transactions for TLC: money for one withdrawal, ids and *)
(* a key for two, two admins, two transactions at a time.                      *)
EXTENDS Transactions, TLC

CONSTANTS alice, s1, w1, w2, admin1, admin2, k1, t1, t2

MCCreators    == {alice}
MCSupports    == {s1}
MCWithdrawals == {w1, w2}
MCAdmins      == {admin1, admin2}
MCKeys        == {k1}
MCAmounts     == {1}
MCCreatorOf   == s1 :> alice
MCNet         == s1 :> 1
MCFee         == s1 :> 1
MCCallers     == {t1, t2}
=============================================================================
