--------------------------- MODULE LedgerContract ---------------------------
(***************************************************************************)
(* What the ledger promises a creator, whatever tables it keeps: the money *)
(* of a captured payment is held for the creator, once; it is released to  *)
(* the creator once, when it is held; and a withdrawal is answered once,   *)
(* by paying at most what was released and not paid yet, or by a refusal,  *)
(* which moves no money.  Nothing is said of wallets, reservations,        *)
(* postings or admins.                                                     *)
(***************************************************************************)
EXTENDS Integers

CONSTANTS
  Creators,
  Supports,
  Withdrawals,
  CreatorOf,
  Net

VARIABLES
  held,      \* each creator's money that is not settled yet
  owed,      \* each creator's money that was released and not paid
  credited,  \* supports whose money came in
  released,  \* supports whose money was released
  payouts,   \* what was paid: for which withdrawal, to whom, how much
  refused    \* withdrawals that were refused

vars == <<held, owed, credited, released, payouts, refused>>

Unanswered(w) == w \notin refused /\ \A p \in payouts : p.for # w

ContractInit ==
  /\ held     = [c \in Creators |-> 0]
  /\ owed     = [c \in Creators |-> 0]
  /\ credited = {}
  /\ released = {}
  /\ payouts  = {}
  /\ refused  = {}

Credit(s) ==
  /\ s \notin credited
  /\ credited' = credited \cup {s}
  /\ held'     = [held EXCEPT ![CreatorOf[s]] = @ + Net[s]]
  /\ UNCHANGED <<owed, released, payouts, refused>>

Release(s) ==
  /\ s \in credited \ released
  /\ Net[s] <= held[CreatorOf[s]]
  /\ released' = released \cup {s}
  /\ held'     = [held EXCEPT ![CreatorOf[s]] = @ - Net[s]]
  /\ owed'     = [owed EXCEPT ![CreatorOf[s]] = @ + Net[s]]
  /\ UNCHANGED <<credited, payouts, refused>>

PayOut(w, c) ==
  /\ Unanswered(w)
  /\ \E amt \in 0 .. owed[c] :
       /\ payouts' = payouts \cup {[for |-> w, to |-> c, amount |-> amt]}
       /\ owed'    = [owed EXCEPT ![c] = @ - amt]
  /\ UNCHANGED <<held, credited, released, refused>>

Refuse(w) ==
  /\ Unanswered(w)
  /\ refused' = refused \cup {w}
  /\ UNCHANGED <<held, owed, credited, released, payouts>>

ContractNext ==
  \/ \E s \in Supports : Credit(s) \/ Release(s)
  \/ \E w \in Withdrawals : Refuse(w) \/ \E c \in Creators : PayOut(w, c)

ContractSpec == ContractInit /\ [][ContractNext]_vars
=============================================================================
