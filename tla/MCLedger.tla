------------------------------ MODULE MCLedger ------------------------------
(* A small instance of Ledger with the reconciliation job for TLC: two       *)
(* creators, three supports, two withdrawals, two admins, amounts such that  *)
(* one captured support is too little for the larger withdrawal and two are  *)
(* enough for it, and two runs of the job that check bob's wallet.           *)
EXTENDS Reconciliation, TLC

CONSTANTS alice, bob, s1, s2, s3, w1, w2, admin1, admin2, k1, job1, job2

MCCreators    == {alice, bob}
MCSupports    == {s1, s2, s3}
MCWithdrawals == {w1, w2}
MCAdmins      == {admin1, admin2}
MCKeys        == {k1}
MCAmounts     == {0, 1, 2}
MCCreatorOf   == (s1 :> alice) @@ (s2 :> alice) @@ (s3 :> bob)
MCNet         == (s1 :> 1) @@ (s2 :> 1) @@ (s3 :> 1)
MCFee         == (s1 :> 1) @@ (s2 :> 1) @@ (s3 :> 0)
MCJobs        == {job1, job2}
MCChecked     == {bob}

Symmetry == Permutations(MCWithdrawals) \cup Permutations(MCAdmins)
              \cup Permutations(MCJobs)
=============================================================================
