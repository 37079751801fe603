-------------------------- MODULE FinancialAccounts --------------------------
(***************************************************************************)
(* The payout accounts of one creator (financial-account.service.ts), and  *)
(* of the withdrawals as much as concerns them: to which account each one  *)
(* goes and whether it is still open.  The checks of create, update and    *)
(* remove are queries of their own before the transaction that writes, and *)
(* the transactions run at the default isolation level; so a call is a     *)
(* process with one step per query, and calls overlap.  What a transaction *)
(* writes shows when it commits.                                           *)
(***************************************************************************)
EXTENDS Naturals, FiniteSets, FiniteSetsExt

CONSTANTS
  Calls,        \* calls of the creator that can be under way at a time
  Withdrawals,
  MaxAccounts,  \* MAX_ACCOUNTS
  MaxCreated,   \* bound on the number of accounts ever created
  NoAccount     \* null

ASSUME AccountsAssumption ==
  /\ {MaxAccounts, MaxCreated} \subseteq Nat
  /\ NoAccount \notin Nat

VARIABLES
  created,    \* the accounts that exist are 1 .. created, oldest first
  active,     \* those with isActive
  default,    \* user.defaultFinancialAccountId
  withdrawal, \* status and account of each withdrawal
  call,       \* where each call is, and what it has read
  raced,      \* history: the default was chosen while a call was about to
              \* remove that account, or had done so
  late        \* history: open withdrawals granted while their account was
              \* about to be removed, or had been

vars == <<created, active, default, withdrawal, call, raced, late>>

Idle == [pc |-> "idle", account |-> NoAccount, default |-> NoAccount,
         next |-> NoAccount]

Init ==
  /\ created    = 0
  /\ active     = {}
  /\ default    = NoAccount
  /\ withdrawal = [w \in Withdrawals |-> [status |-> "NONE", account |-> NoAccount]]
  /\ call       = [c \in Calls |-> Idle]
  /\ raced      = FALSE
  /\ late       = {}

Goto(c, pc) == call' = [call EXCEPT ![c].pc = pc]
Answer(c)   == call' = [call EXCEPT ![c] = Idle]

\* Each call starts by finding an account that is active (findActiveOrThrow, or
\* requestWithdrawal's own query).
Find(c, pc) ==
  /\ call[c].pc = "idle"
  /\ \E a \in active :
       call' = [call EXCEPT ![c] = [Idle EXCEPT !.pc = pc, !.account = a]]
  /\ UNCHANGED <<created, active, default, withdrawal, raced, late>>

\* Calls that will remove account a without looking at withdrawals again.
Removing(a) ==
  {c \in Calls : /\ call[c].account = a
                 /\ call[c].pc \in {"default", "next", "commit"}}

\* Calls that will remove it and leave the default alone.
RemovingOnly(a) ==
  {c \in Calls : /\ call[c].account = a
                 /\ call[c].pc = "commit"
                 /\ call[c].default # a}

SetDefault(a) ==
  /\ default' = a
  /\ raced'   = (a \in (1 .. created) \ active \/ RemovingOnly(a) # {})

-----------------------------------------------------------------------------
(* create *)

ReadUser(c) ==
  /\ call[c].pc = "idle"
  /\ call' = [call EXCEPT ![c] = [Idle EXCEPT !.pc = "count",
                                              !.default = default]]
  /\ UNCHANGED <<created, active, default, withdrawal, raced, late>>

\* Faulty variant: off by one.
CountAccounts_Lax(c) ==
  /\ call[c].pc = "count"
  /\ IF Cardinality(active) > MaxAccounts THEN Answer(c) ELSE Goto(c, "create")
  /\ UNCHANGED <<created, active, default, withdrawal, raced, late>>

CountAccounts(c) ==
  /\ call[c].pc = "count"
  /\ IF Cardinality(active) >= MaxAccounts THEN Answer(c) ELSE Goto(c, "create")
  /\ UNCHANGED <<created, active, default, withdrawal, raced, late>>

\* The new account becomes the default if the caller says so, or says nothing
\* and there was none.
CreateAccount(c) ==
  /\ call[c].pc = "create"
  /\ created < MaxCreated
  /\ created' = created + 1
  /\ active'  = active \cup {created + 1}
  /\ \E isDefault \in {"yes", "no", "unset"} :
       IF \/ isDefault = "yes"
          \/ isDefault = "unset" /\ call[c].default = NoAccount
         THEN SetDefault(created + 1)
         ELSE UNCHANGED <<default, raced>>
  /\ Answer(c)
  /\ UNCHANGED <<withdrawal, late>>

-----------------------------------------------------------------------------
(* update, as far as it concerns the default *)

UpdateAccount(c) ==
  /\ call[c].pc = "update"
  /\ UNCHANGED <<created, active, withdrawal, late>>
  /\ SetDefault(call[c].account)
  /\ Answer(c)

-----------------------------------------------------------------------------
(* remove *)

\* Faulty variant: a withdrawal in processing is not counted.
Counted_Pending(w) == withdrawal[w].status = "PENDING"

\* The filter of the count.
Counted(w) == withdrawal[w].status \in {"PENDING", "PROCESSING"}

CountPending(c) ==
  /\ call[c].pc = "pending"
  /\ IF \E w \in Withdrawals : /\ Counted(w)
                            /\ withdrawal[w].account = call[c].account
       THEN Answer(c) ELSE Goto(c, "default")
  /\ UNCHANGED <<created, active, default, withdrawal, raced, late>>

\* The transaction reads the default; if it is another account, there is nothing
\* else to do than to deactivate this one.
ReadDefault(c) ==
  /\ call[c].pc = "default"
  /\ call' = [call EXCEPT ![c].default = default,
                          ![c].pc = IF default = call[c].account THEN "next"
                                                                 ELSE "commit"]
  /\ UNCHANGED <<created, active, default, withdrawal, raced, late>>

\* Faulty variant: the default is left to the creator to choose.
NextDefault_Stays(a) == a

\* The oldest of the other active accounts.
NextDefault(a) == IF active \ {a} = {} THEN NoAccount ELSE Min(active \ {a})

FindNextDefault(c) ==
  /\ call[c].pc = "next"
  /\ call' = [call EXCEPT ![c].next = NextDefault(call[c].account),
                          ![c].pc   = "commit"]
  /\ UNCHANGED <<created, active, default, withdrawal, raced, late>>

CommitRemoval(c) ==
  /\ call[c].pc = "commit"
  /\ active' = active \ {call[c].account}
  /\ IF call[c].default = call[c].account THEN SetDefault(call[c].next)
                                          ELSE UNCHANGED <<default, raced>>
  /\ Answer(c)
  /\ UNCHANGED <<created, withdrawal, late>>

-----------------------------------------------------------------------------
(* Withdrawals. *)

\* requestWithdrawal commits: its snapshot still has the account.  An
\* over-approximation: if the removal committed before, Postgres may refuse the
\* request because of its reference to the account's row.
CommitRequest(c) ==
  /\ call[c].pc = "request"
  /\ \E w \in Withdrawals :
       /\ withdrawal[w].status = "NONE"
       /\ withdrawal' = [withdrawal EXCEPT ![w] = [status  |-> "PENDING",
                                                   account |-> call[c].account]]
       /\ late' = IF \/ call[c].account \notin active
                     \/ Removing(call[c].account) # {}
                    THEN late \cup {w} ELSE late
  /\ Answer(c)
  /\ UNCHANGED <<created, active, default, raced>>

\* updateWithdrawalStatus
MoveToProcessing(w) ==
  /\ withdrawal[w].status = "PENDING"
  /\ withdrawal' = [withdrawal EXCEPT ![w].status = "PROCESSING"]
  /\ UNCHANGED <<created, active, default, call, raced, late>>

Finalize(w) ==
  /\ withdrawal[w].status = "PROCESSING"
  /\ withdrawal' = [withdrawal EXCEPT ![w].status = "FINAL"]
  /\ late' = late \ {w}
  /\ UNCHANGED <<created, active, default, call, raced>>

\* A query fails: transactions leave no trace, and nothing is written outside.
Fail(c) ==
  /\ call[c].pc # "idle"
  /\ Answer(c)
  /\ UNCHANGED <<created, active, default, withdrawal, raced, late>>

Next ==
  \/ \E c \in Calls :
       \/ ReadUser(c) \/ CountAccounts(c) \/ CreateAccount(c)
       \/ Find(c, "update") \/ UpdateAccount(c)
       \/ Find(c, "pending") \/ CountPending(c) \/ ReadDefault(c)
       \/ FindNextDefault(c) \/ CommitRemoval(c)
       \/ Find(c, "request") \/ CommitRequest(c)
       \/ Fail(c)
  \/ \E w \in Withdrawals : MoveToProcessing(w) \/ Finalize(w)

Spec == Init /\ [][Next]_vars
-----------------------------------------------------------------------------
(* Properties. *)

\* The cap on accounts is exceeded by fewer accounts than calls can overlap.
AccountsBounded == Cardinality(active) <= MaxAccounts + Cardinality(Calls) - 1

\* The default account is one the creator still has, unless its removal had
\* begun when it was made the default.
DefaultIsActive == default \in active \cup {NoAccount} \/ raced

IsOpen(w) == withdrawal[w].status \in {"PENDING", "PROCESSING"}

\* An open withdrawal goes to an account the creator still has, unless the
\* account's removal had passed its count when the withdrawal was granted.
PayoutAccountStays ==
  \A w \in Withdrawals :
    IsOpen(w) => withdrawal[w].account \in active \/ w \in late

\* What the error message of remove has it: 'Cannot remove account with pending
\* withdrawals'.
NoRemovalWithPendingWithdrawals ==
  \A w \in Withdrawals : IsOpen(w) => withdrawal[w].account \in active
=============================================================================
