-------------------------- MODULE PaymentContract --------------------------
(***************************************************************************)
(* What a supporter and a creator are promised, without calls, queries or  *)
(* a provider's protocol: money that was captured in full is credited to   *)
(* the creator at most once, together with what the supporter bought, and  *)
(* only credited money is released.                                        *)
(***************************************************************************)
EXTENDS Integers, FiniteSets

CONSTANTS Creators, Supports, CreatorOf, Net, Rewards, RewardOf, MaxQuantity

VARIABLES
  captured,  \* supports whose full amount the provider holds
  credited,  \* supports the creator was credited for
  entitled,  \* supports whose supporter owns the reward
  released,  \* supports whose net amount may be withdrawn
  earned     \* what each creator was credited in total

contractVars == <<captured, credited, entitled, released, earned>>

ContractInit ==
  /\ captured = {}
  /\ credited = {}
  /\ entitled = {}
  /\ released = {}
  /\ earned   = [c \in Creators |-> 0]

Capture(s) ==
  /\ s \notin captured
  /\ captured' = captured \cup {s}
  /\ UNCHANGED <<credited, entitled, released, earned>>

Owners(r) == {s \in entitled : RewardOf[s] = r}

\* A reward is bought together with the credit, while supply lasts.
Credit(s) ==
  LET r == RewardOf[s] IN
  /\ s \in captured \ credited
  /\ credited' = credited \cup {s}
  /\ earned'   = [earned EXCEPT ![CreatorOf[s]] = @ + Net[s]]
  /\ IF r \in Rewards
       THEN /\ Cardinality(Owners(r)) < MaxQuantity[r]
            /\ entitled' = entitled \cup {s}
       ELSE UNCHANGED entitled
  /\ UNCHANGED <<captured, released>>

Release(s) ==
  /\ s \in credited \ released
  /\ released' = released \cup {s}
  /\ UNCHANGED <<captured, credited, entitled, earned>>

ContractNext == \E s \in Supports : Capture(s) \/ Credit(s) \/ Release(s)

ContractSpec == ContractInit /\ [][ContractNext]_contractVars
=============================================================================
