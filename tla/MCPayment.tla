----------------------------- MODULE MCPayment -----------------------------
(* Small instances of Payment for TLC.  The ledger's withdrawals are left    *)
(* out by giving it none.                                                    *)
EXTENDS Payment, TLC

CONSTANTS alice, s1, s2, p1, p2, r1, o1, fan1, fan2

MCCreators    == {alice}
MCSupports    == {s1, s2}
OneSupport    == {s1}
MCCreatorOf   == [s \in Supports |-> alice]
MCNet         == [s \in Supports |-> IF s = s1 THEN 1 ELSE 2]
MCFee         == [s \in Supports |-> IF s = s1 THEN 1 ELSE 0]
MCCalls       == {p1, p2}
MCRewards     == {r1}
MCOptions     == {o1}

\* Both supports buy the same reward; no votes.
BothReward    == [s \in Supports |-> r1]
NoVotes       == [s \in Supports |-> NoOption]

\* One copy and two fans, or copies for two and a fan who pays twice.
OneCopy       == r1 :> 1
TwoCopies     == r1 :> 2
TwoFans       == [s \in Supports |-> IF s = s1 THEN fan1 ELSE fan2]
OneFan        == [s \in Supports |-> fan1]

\* No reward; one support casts a vote.
NoRewards     == [s \in Supports |-> NoReward]
OneVote       == [s \in Supports |-> IF s = s1 THEN o1 ELSE NoOption]

\* The routes in an order in which the webhook is reached, and as declared.
WebhookFirst  == <<"webhook", ":slug">>
AsDeclared    == <<":slug", "webhook">>

CallSymmetry == Permutations(MCCalls)
=============================================================================
