--------------------------- MODULE AccountsProofs ---------------------------
(***************************************************************************)
(* Proofs about FinancialAccounts for any number of accounts, withdrawals  *)
(* and overlapping calls.                                                  *)
(***************************************************************************)
EXTENDS FinancialAccounts, FiniteSetTheorems, WellFoundedInduction, TLAPS

Accounts == 1 .. created
Pcs == {"idle", "count", "create", "update", "pending", "default", "next",
        "commit", "request"}
CallRow == [pc      : Pcs,
            account : Accounts \cup {NoAccount},
            default : Accounts \cup {NoAccount},
            next    : Accounts \cup {NoAccount}]
WithdrawalRow == [status  : {"NONE", "PENDING", "PROCESSING", "FINAL"},
                  account : Accounts \cup {NoAccount}]

RowsOK ==
  /\ created \in Nat
  /\ active \subseteq Accounts
  /\ default \in Accounts \cup {NoAccount}
  /\ withdrawal \in [Withdrawals -> WithdrawalRow]
  /\ call \in [Calls -> CallRow]

\* What a call has found: an account, and one that may follow it as the default.
CallsOK ==
  \A c \in Calls :
    /\ call[c].pc \in {"update", "pending", "default", "next", "commit",
                       "request"} => call[c].account \in Accounts
    /\ call[c].pc = "next" => call[c].default = call[c].account
    /\ call[c].pc = "commit" /\ call[c].default = call[c].account
         => call[c].next # call[c].account

\* The strengthening of DefaultIsActive: nobody is about to remove the default
\* account who does not know that it is the default.
DefaultKept ==
  \/ raced
  \/ default = NoAccount
  \/ default \in active /\ RemovingOnly(default) = {}

\* The strengthening of PayoutAccountStays: nobody who has counted is about to
\* remove the account of an open withdrawal.
PayoutKept ==
  \A w \in Withdrawals :
    IsOpen(w) /\ w \notin late
      => /\ withdrawal[w].account \in active
         /\ Removing(withdrawal[w].account) = {}

AccInv == RowsOK /\ CallsOK /\ DefaultKept /\ PayoutKept

-----------------------------------------------------------------------------
\* A set of natural numbers that is not empty has a least element, which Min is.
LessThan == {p \in Nat \X Nat : p[1] < p[2]}

LEMMA MinLemma ==
  ASSUME NEW S, S \subseteq Nat, S # {}
  PROVE  Min(S) \in S
<1>1. IsWellFoundedOn(LessThan, Nat)
  BY ONLY NatLessThanWellFounded, Zenon DEF OpToRel, LessThan
<1>2. PICK x \in S : \A y \in S : ~(<<y, x>> \in LessThan)
  BY <1>1, WFMin
<1>3. ASSUME NEW y \in S PROVE x =< y
  <2>1. x \in Nat /\ y \in Nat /\ ~(<<y, x>> \in LessThan)
    BY <1>2
  <2> QED BY ONLY <2>1 DEF LessThan
<1> QED BY <1>3 DEF Min

\* The next default is the oldest of the other active accounts, if there is one.
LEMMA NextDefaultLemma ==
  ASSUME RowsOK, NEW a
  PROVE  NextDefault(a) \in (active \ {a}) \cup {NoAccount}
<1> DEFINE others == active \ {a}
<1>1. CASE others = {}
  BY <1>1 DEF NextDefault
<1>2. CASE others # {}
  <2>1. others \subseteq Nat
    <3>1. created \in Nat /\ active \subseteq Accounts
      BY DEF RowsOK
    <3>2. \A x \in Accounts : x \in Nat
      BY <3>1 DEF Accounts
    <3> QED BY <3>1, <3>2
  <2>2. Min(others) \in others
    BY <1>2, <2>1, MinLemma
  <2> QED BY <1>2, <2>2 DEF NextDefault
<1> QED BY <1>1, <1>2

-----------------------------------------------------------------------------
(* AccInv is inductive. *)

\* There is nothing at the start.
LEMMA InitAccInv == Init => AccInv
<1> SUFFICES ASSUME Init PROVE AccInv
  OBVIOUS
<1>1. \A c \in Calls : call[c] = Idle
  BY DEF Init
<1>2. Idle \in CallRow /\ Idle.pc = "idle"
  BY DEF Idle, CallRow, Pcs
<1>3. RowsOK
  BY <1>2 DEF Init, RowsOK, WithdrawalRow
<1> QED
  BY <1>1, <1>2, <1>3
     DEF AccInv, Init, CallsOK, DefaultKept, PayoutKept, IsOpen

\* Every step leaves rows that are well formed, and no account disappears.
LEMMA NextRowsOK ==
  ASSUME RowsOK, CallsOK, Next
  PROVE  RowsOK' /\ CallsOK' /\ Accounts \subseteq Accounts'
<1>0. /\ Idle \in CallRow /\ Idle.pc = "idle" /\ Idle.account = NoAccount
      /\ Idle.default = NoAccount /\ Idle.next = NoAccount
  BY DEF Idle, CallRow, Pcs
<1>1. ASSUME NEW c \in Calls, UNCHANGED <<created, withdrawal>>,
             active' \subseteq active, default' \in Accounts \cup {NoAccount},
             NEW row \in CallRow, call' = [call EXCEPT ![c] = row],
             row.pc \in {"update", "pending", "default", "next", "commit",
                         "request"} => row.account \in Accounts,
             row.pc = "next" => row.default = row.account,
             row.pc = "commit" /\ row.default = row.account
               => row.next # row.account
      PROVE  RowsOK' /\ CallsOK' /\ Accounts \subseteq Accounts'
  <2>1. Accounts' = Accounts /\ CallRow' = CallRow
        /\ WithdrawalRow' = WithdrawalRow
    BY <1>1 DEF Accounts, CallRow, WithdrawalRow
  <2>2. RowsOK'
    BY <1>1, <2>1 DEF RowsOK
  <2>3. CallsOK'
    BY <1>1, <2>1 DEF RowsOK, CallsOK
  <2> QED BY <2>1, <2>2, <2>3
<1>2. ASSUME NEW c \in Calls, \/ ReadUser(c) \/ CountAccounts(c)
                              \/ CountPending(c) \/ Fail(c) \/ UpdateAccount(c)
      PROVE  RowsOK' /\ CallsOK' /\ Accounts \subseteq Accounts'
  <2>1. \E row \in CallRow :
          /\ call' = [call EXCEPT ![c] = row]
          /\ \/ row.pc \in {"idle", "count", "create"}
             \/ row.pc = "default" /\ row.account \in Accounts
    <3>1. CASE ReadUser(c)
      <4> DEFINE row == [Idle EXCEPT !.pc = "count", !.default = default]
      <4>1. row \in CallRow /\ row.pc = "count"
        BY DEF RowsOK, Idle, CallRow, Pcs
      <4>2. call' = [call EXCEPT ![c] = row]
        BY <3>1 DEF ReadUser
      <4> QED BY <4>1, <4>2
    <3>2. CASE call' = [call EXCEPT ![c] = Idle]
      BY <1>0, <3>2
    <3>3. ASSUME NEW pc \in {"create", "default"}, Goto(c, pc),
                 pc = "default" => call[c].account \in Accounts
          PROVE  \E row \in CallRow :
                   /\ call' = [call EXCEPT ![c] = row]
                   /\ \/ row.pc \in {"idle", "count", "create"}
                      \/ row.pc = "default" /\ row.account \in Accounts
      <4> DEFINE row == [call[c] EXCEPT !.pc = pc]
      <4>1. row \in CallRow /\ row.pc = pc /\ row.account = call[c].account
        BY DEF RowsOK, CallRow, Pcs
      <4>2. call' = [call EXCEPT ![c] = row]
        BY <3>3 DEF Goto
      <4> QED BY <3>3, <4>1, <4>2
    <3> QED
      BY <1>2, <3>1, <3>2, <3>3
         DEF CountAccounts, CountPending, Fail, UpdateAccount, Answer, CallsOK
  <2>2. /\ UNCHANGED <<created, withdrawal, active>>
        /\ default' \in Accounts \cup {NoAccount}
    BY <1>2 DEF ReadUser, CountAccounts, CountPending, Fail, UpdateAccount,
                SetDefault, RowsOK, CallsOK
  <2> QED BY <1>1, <2>1, <2>2
<1>3. ASSUME NEW c \in Calls,
             NEW pc \in {"update", "pending", "request"}, Find(c, pc)
      PROVE  RowsOK' /\ CallsOK' /\ Accounts \subseteq Accounts'
  <2>1. PICK a \in active :
          call' = [call EXCEPT ![c] = [Idle EXCEPT !.pc = pc, !.account = a]]
    BY <1>3 DEF Find
  <2> DEFINE row == [Idle EXCEPT !.pc = pc, !.account = a]
  <2>2. row \in CallRow /\ row.pc = pc /\ row.account \in Accounts
    BY DEF RowsOK, Idle, CallRow, Pcs
  <2>3. UNCHANGED <<created, withdrawal, active, default>>
    BY <1>3 DEF Find
  <2> HIDE DEF row
  <2> QED BY <1>1, <2>1, <2>2, <2>3 DEF row, RowsOK
<1>4. ASSUME NEW c \in Calls, ReadDefault(c)
      PROVE  RowsOK' /\ CallsOK' /\ Accounts \subseteq Accounts'
  <2> DEFINE row == [call[c] EXCEPT
                       !.default = default,
                       !.pc = IF default = call[c].account THEN "next"
                                                           ELSE "commit"]
  <2>1. /\ row \in CallRow /\ row.account = call[c].account
        /\ row.default = default
        /\ row.pc = IF default = call[c].account THEN "next" ELSE "commit"
    BY DEF RowsOK, CallRow, Pcs
  <2>2. call[c].account \in Accounts
    BY <1>4 DEF ReadDefault, CallsOK
  <2>3. /\ call' = [call EXCEPT ![c] = row]
        /\ UNCHANGED <<created, withdrawal, active, default>>
    BY <1>4 DEF ReadDefault
  <2> HIDE DEF row
  <2>4. row.pc = "next" => row.default = row.account
    BY <2>1
  <2>5. row.pc = "commit" => row.default # row.account
    BY <2>1
  <2> QED BY <1>1, <2>1, <2>2, <2>3, <2>4, <2>5 DEF RowsOK
<1>5. ASSUME NEW c \in Calls, FindNextDefault(c)
      PROVE  RowsOK' /\ CallsOK' /\ Accounts \subseteq Accounts'
  <2> DEFINE n   == NextDefault(call[c].account)
             row == [call[c] EXCEPT !.next = n, !.pc = "commit"]
  <2>1. call[c].account \in Accounts /\ NoAccount \notin Accounts
    BY <1>5, AccountsAssumption DEF FindNextDefault, CallsOK, Accounts
  <2>2. n \in Accounts \cup {NoAccount} /\ n # call[c].account
    BY <2>1, NextDefaultLemma DEF RowsOK
  <2>3. /\ call' = [call EXCEPT ![c] = row]
        /\ UNCHANGED <<created, withdrawal, active, default>>
    BY <1>5 DEF FindNextDefault
  <2> HIDE DEF n
  <2>4. /\ row \in CallRow /\ row.account = call[c].account /\ row.next = n
        /\ row.pc = "commit"
    BY <2>2 DEF RowsOK, CallRow, Pcs
  <2> HIDE DEF row
  <2> QED BY <1>1, <2>1, <2>2, <2>3, <2>4 DEF RowsOK
<1>6. ASSUME NEW c \in Calls, CommitRemoval(c)
      PROVE  RowsOK' /\ CallsOK' /\ Accounts \subseteq Accounts'
  <2>1. /\ call' = [call EXCEPT ![c] = Idle]
        /\ UNCHANGED <<created, withdrawal>>
        /\ active' \subseteq active
        /\ default' \in {default, call[c].next}
    BY <1>6 DEF CommitRemoval, Answer, SetDefault
  <2>2. call[c].next \in Accounts \cup {NoAccount}
    BY DEF RowsOK, CallRow
  <2> QED BY <1>0, <1>1, <2>1, <2>2 DEF RowsOK
<1>7. ASSUME NEW c \in Calls, CreateAccount(c)
      PROVE  RowsOK' /\ CallsOK' /\ Accounts \subseteq Accounts'
  <2>1. /\ created' = created + 1
        /\ active' = active \cup {created + 1}
        /\ default' \in {default, created + 1}
        /\ call' = [call EXCEPT ![c] = Idle]
        /\ withdrawal' = withdrawal
    BY <1>7 DEF CreateAccount, SetDefault, Answer
  <2>2. Accounts \subseteq Accounts' /\ created + 1 \in Accounts'
    BY <2>1 DEF RowsOK, Accounts
  <2>3. CallRow \subseteq CallRow' /\ WithdrawalRow \subseteq WithdrawalRow'
    BY <2>2 DEF CallRow, WithdrawalRow
  <2>4. created' \in Nat
    BY <2>1 DEF RowsOK
  <2>5. call' \in [Calls -> CallRow']
    BY <1>0, <2>1, <2>3 DEF RowsOK
  <2>6. withdrawal' \in [Withdrawals -> WithdrawalRow']
    BY <2>1, <2>3 DEF RowsOK
  <2>7. RowsOK'
    BY <2>1, <2>2, <2>4, <2>5, <2>6 DEF RowsOK
  <2>8. CallsOK'
    BY <1>0, <2>1, <2>2 DEF RowsOK, CallsOK
  <2> QED BY <2>2, <2>7, <2>8
<1>8. ASSUME UNCHANGED <<created, active, default>>,
             withdrawal' \in [Withdrawals -> WithdrawalRow],
             \/ call' = call
             \/ \E c \in Calls : call' = [call EXCEPT ![c] = Idle]
      PROVE  RowsOK' /\ CallsOK' /\ Accounts \subseteq Accounts'
  <2>1. Accounts' = Accounts /\ CallRow' = CallRow
        /\ WithdrawalRow' = WithdrawalRow
    BY <1>8 DEF Accounts, CallRow, WithdrawalRow
  <2>2. RowsOK'
    BY <1>0, <1>8, <2>1 DEF RowsOK
  <2>3. CallsOK'
    BY <1>0, <1>8, <2>1 DEF RowsOK, CallsOK
  <2> QED BY <2>1, <2>2, <2>3
<1>9. ASSUME NEW c \in Calls, CommitRequest(c)
      PROVE  RowsOK' /\ CallsOK' /\ Accounts \subseteq Accounts'
  <2>1. PICK w \in Withdrawals :
          withdrawal' = [withdrawal EXCEPT ![w] = [status  |-> "PENDING",
                                                   account |-> call[c].account]]
    BY <1>9 DEF CommitRequest
  <2>2. call[c].account \in Accounts \cup {NoAccount}
    BY DEF RowsOK, CallRow
  <2>3. withdrawal' \in [Withdrawals -> WithdrawalRow]
    BY <2>1, <2>2 DEF RowsOK, WithdrawalRow
  <2>4. /\ UNCHANGED <<created, active, default>>
        /\ call' = [call EXCEPT ![c] = Idle]
    BY <1>9 DEF CommitRequest, Answer
  <2> QED BY <1>8, <2>3, <2>4
<1>10. ASSUME NEW w \in Withdrawals, MoveToProcessing(w) \/ Finalize(w)
       PROVE  RowsOK' /\ CallsOK' /\ Accounts \subseteq Accounts'
  <2>1. withdrawal' \in [Withdrawals -> WithdrawalRow]
    BY <1>10 DEF MoveToProcessing, Finalize, RowsOK, WithdrawalRow
  <2>2. UNCHANGED <<created, active, default, call>>
    BY <1>10 DEF MoveToProcessing, Finalize
  <2> QED BY <1>8, <2>1, <2>2
<1> QED
  BY <1>2, <1>3, <1>4, <1>5, <1>6, <1>7, <1>9, <1>10 DEF Next

\* An open withdrawal that was granted in time keeps its account: the count of
\* a removal sees it.
LEMMA NextPayoutKept ==
  ASSUME AccInv, Next
  PROVE  PayoutKept'
<1>0. /\ RowsOK /\ CallsOK /\ PayoutKept /\ RowsOK'
      /\ Idle.pc = "idle" /\ Idle.account = NoAccount
      /\ \A c \in Calls : call[c].pc \in Pcs
  BY NextRowsOK DEF AccInv, Idle, RowsOK, CallRow
<1>1. ASSUME UNCHANGED <<withdrawal, late>>, active \subseteq active',
             \A c \in Calls : call'[c].pc \in {"default", "next", "commit"}
               => /\ call[c].pc \in {"default", "next", "commit"}
                  /\ call'[c].account = call[c].account
      PROVE  PayoutKept'
  BY <1>0, <1>1 DEF PayoutKept, Removing, IsOpen
<1>2. ASSUME NEW c \in Calls,
             \/ ReadUser(c) \/ CountAccounts(c) \/ CreateAccount(c)
             \/ UpdateAccount(c) \/ ReadDefault(c) \/ FindNextDefault(c)
             \/ Find(c, "update") \/ Find(c, "pending") \/ Find(c, "request")
             \/ Fail(c)
      PROVE  PayoutKept'
  <2>1. UNCHANGED <<withdrawal, late>> /\ active \subseteq active'
    BY <1>2 DEF ReadUser, CountAccounts, CreateAccount, UpdateAccount,
                ReadDefault, FindNextDefault, Find, Fail
  <2>2. \A d \in Calls \ {c} : call'[d] = call[d]
    BY <1>0, <1>2 DEF ReadUser, CountAccounts, CreateAccount, UpdateAccount,
                ReadDefault, FindNextDefault, Find, Fail, Goto, Answer, RowsOK
  <2>3. CASE ReadDefault(c) \/ FindNextDefault(c)
    <3>1. /\ call[c].pc \in {"default", "next"}
          /\ call'[c].account = call[c].account
      BY <1>0, <2>3 DEF ReadDefault, FindNextDefault, RowsOK, CallRow
    <3> QED BY <1>1, <2>1, <2>2, <3>1
  <2>4. CASE ~(ReadDefault(c) \/ FindNextDefault(c))
    <3>1. call'[c].pc \in {"idle", "count", "create", "update", "pending",
                           "request"}
      <4>1. CASE ReadUser(c)
        BY <1>0, <4>1 DEF ReadUser, RowsOK, Idle
      <4>2. CASE CountAccounts(c) \/ CreateAccount(c) \/ UpdateAccount(c) \/ Fail(c)
        <5>1. Answer(c) \/ Goto(c, "create")
          BY <4>2 DEF CountAccounts, CreateAccount, UpdateAccount, Fail
        <5> QED BY <1>0, <5>1 DEF Answer, Goto, RowsOK, CallRow
      <4>3. ASSUME NEW pc \in {"update", "pending", "request"}, Find(c, pc)
            PROVE  call'[c].pc = pc
        BY <1>0, <4>3 DEF Find, RowsOK, Idle
      <4> QED BY <1>2, <2>4, <4>1, <4>2, <4>3
    <3> QED BY <1>1, <2>1, <2>2, <3>1
  <2> QED BY <2>3, <2>4
<1>3. ASSUME NEW c \in Calls, CountPending(c)
      PROVE  PayoutKept'
  <2>1. UNCHANGED <<withdrawal, late, active>>
    BY <1>3 DEF CountPending
  <2>2. \A d \in Calls \ {c} : call'[d] = call[d]
    BY <1>0, <1>3 DEF CountPending, Goto, Answer, RowsOK
  <2>3. CASE call'[c].pc # "default"
    <3>1. call'[c].pc = "idle"
      BY <1>0, <1>3, <2>3 DEF CountPending, Goto, Answer, RowsOK, CallRow
    <3> QED BY <1>1, <2>1, <2>2, <3>1
  <2>4. CASE call'[c].pc = "default"
    <3>1. /\ call'[c].account = call[c].account
          /\ \A w \in Withdrawals :
               IsOpen(w) => withdrawal[w].account # call[c].account
      BY <1>0, <1>3, <2>4
         DEF CountPending, Goto, Answer, RowsOK, CallRow, Counted, IsOpen
    <3> QED BY <1>0, <2>1, <2>2, <3>1 DEF PayoutKept, Removing, IsOpen
  <2> QED BY <2>3, <2>4
<1>4. ASSUME NEW c \in Calls, CommitRemoval(c)
      PROVE  PayoutKept'
  <2>1. /\ UNCHANGED <<withdrawal, late>>
        /\ active' = active \ {call[c].account}
        /\ c \in Removing(call[c].account)
    BY <1>4 DEF CommitRemoval, Removing
  <2>2. \A d \in Calls : call'[d] = IF d = c THEN Idle ELSE call[d]
    BY <1>0, <1>4 DEF CommitRemoval, Answer, RowsOK
  <2>3. \A w \in Withdrawals : IsOpen(w) /\ w \notin late
          => withdrawal[w].account # call[c].account
    BY <1>0, <2>1 DEF PayoutKept
  <2> QED BY <1>0, <2>1, <2>2, <2>3 DEF PayoutKept, Removing, IsOpen
<1>5. ASSUME NEW c \in Calls, CommitRequest(c)
      PROVE  PayoutKept'
  <2>1. PICK w \in Withdrawals :
          /\ withdrawal[w].status = "NONE"
          /\ withdrawal' = [withdrawal EXCEPT ![w] = [status  |-> "PENDING",
                                                      account |-> call[c].account]]
          /\ late' = IF \/ call[c].account \notin active
                        \/ Removing(call[c].account) # {}
                       THEN late \cup {w} ELSE late
    BY <1>5 DEF CommitRequest
  <2>2. /\ active' = active
        /\ \A d \in Calls : call'[d] = IF d = c THEN Idle ELSE call[d]
    BY <1>0, <1>5 DEF CommitRequest, Answer, RowsOK
  <2>3. \A v \in Withdrawals : withdrawal'[v] =
          IF v = w THEN [status |-> "PENDING", account |-> call[c].account]
                   ELSE withdrawal[v]
    BY <1>0, <2>1 DEF RowsOK
  <2>4. \A a : Removing(a)' \subseteq Removing(a)
    BY <1>0, <2>2 DEF Removing
  <2>5. ASSUME NEW v \in Withdrawals, IsOpen(v)', v \notin late'
        PROVE  /\ withdrawal'[v].account \in active'
               /\ Removing(withdrawal[v].account)' = {}
    <3>1. CASE v = w
      BY <2>1, <2>2, <2>3, <2>4, <2>5, <3>1
    <3>2. CASE v # w
      BY <1>0, <2>1, <2>2, <2>3, <2>4, <2>5, <3>2 DEF PayoutKept, IsOpen
    <3> QED BY <3>1, <3>2
  <2> QED BY <2>5 DEF PayoutKept
<1>6. ASSUME NEW w \in Withdrawals, MoveToProcessing(w) \/ Finalize(w)
      PROVE  PayoutKept'
  <2>1. /\ active' = active /\ call' = call
        /\ \A v \in Withdrawals : /\ withdrawal'[v].account = withdrawal[v].account
                                  /\ v # w => withdrawal'[v] = withdrawal[v]
        /\ late' \in {late, late \ {w}}
    BY <1>0, <1>6 DEF MoveToProcessing, Finalize, RowsOK, WithdrawalRow
  <2>2. IsOpen(w)' => IsOpen(w) /\ late' = late
    BY <1>0, <1>6 DEF MoveToProcessing, Finalize, IsOpen, RowsOK, WithdrawalRow
  <2> QED BY <1>0, <2>1, <2>2 DEF PayoutKept, Removing, IsOpen
<1> QED
  BY <1>2, <1>3, <1>4, <1>5, <1>6 DEF Next

\* A step that leaves the default alone, or sets it, keeps DefaultKept.
LEMMA NextDefaultKept ==
  ASSUME AccInv, Next
  PROVE  DefaultKept'
<1>0. /\ RowsOK /\ CallsOK /\ DefaultKept /\ RowsOK'
      /\ Idle.pc = "idle"
      /\ \A c \in Calls : call[c].pc \in Pcs
      /\ NoAccount \notin Accounts
  BY NextRowsOK, AccountsAssumption
     DEF AccInv, Idle, RowsOK, CallRow, Accounts
\* Nobody starts to remove the default without knowing.
<1>1. ASSUME UNCHANGED <<default, raced>>,
             default \in active => default \in active',
             RemovingOnly(default)' \subseteq RemovingOnly(default)
      PROVE  DefaultKept'
  BY <1>0, <1>1 DEF DefaultKept
\* An account that is made the default is still there.
<1>2. ASSUME NEW a, SetDefault(a),
             \/ a = NoAccount
             \/ a \in active' /\ RemovingOnly(a)' \subseteq RemovingOnly(a)
             \/ a \in Accounts \ active
      PROVE  DefaultKept'
  BY <1>2 DEF SetDefault, DefaultKept, Accounts
<1>3. ASSUME NEW c \in Calls, NEW row,
             call' = [call EXCEPT ![c] = row], row.pc # "commit"
      PROVE  \A a : RemovingOnly(a)' \subseteq RemovingOnly(a)
  BY <1>0, <1>3 DEF RemovingOnly, RowsOK
<1>4. ASSUME NEW c \in Calls, Answer(c)
      PROVE  \A a : RemovingOnly(a)' \subseteq RemovingOnly(a)
  BY <1>0, <1>3, <1>4 DEF Answer
<1>5. ASSUME NEW c \in Calls, NEW pc \in {"create", "default"}, Goto(c, pc)
      PROVE  \A a : RemovingOnly(a)' \subseteq RemovingOnly(a)
  <2>1. \A d \in Calls : /\ d # c => call'[d] = call[d]
                         /\ d = c => call'[d].pc = pc
    BY <1>0, <1>5 DEF Goto, RowsOK, CallRow
  <2> QED BY <2>1 DEF RemovingOnly
<1>6. ASSUME NEW c \in Calls,
             CountAccounts(c) \/ CountPending(c) \/ Fail(c) \/ CommitRequest(c)
      PROVE  DefaultKept'
  <2>1. UNCHANGED <<default, raced, active>>
    BY <1>6 DEF CountAccounts, CountPending, Fail, CommitRequest
  <2>2. Answer(c) \/ \E pc \in {"create", "default"} : Goto(c, pc)
    BY <1>6 DEF CountAccounts, CountPending, Fail, CommitRequest
  <2> QED BY <1>1, <1>4, <1>5, <2>1, <2>2
<1>7. ASSUME NEW c \in Calls, ReadUser(c)
      PROVE  DefaultKept'
  <2>1. \A d \in Calls : /\ d # c => call'[d] = call[d]
                         /\ d = c => call'[d].pc = "count"
    BY <1>0, <1>7 DEF ReadUser, RowsOK, Idle
  <2>2. UNCHANGED <<default, raced, active>>
    BY <1>7 DEF ReadUser
  <2> QED BY <1>1, <2>1, <2>2 DEF RemovingOnly
<1>8. ASSUME NEW c \in Calls,
             NEW pc \in {"update", "pending", "request"}, Find(c, pc)
      PROVE  DefaultKept'
  <2>1. \A d \in Calls : /\ d # c => call'[d] = call[d]
                         /\ d = c => call'[d].pc = pc
    BY <1>0, <1>8 DEF Find, RowsOK, Idle
  <2>2. UNCHANGED <<default, raced, active>>
    BY <1>8 DEF Find
  <2> QED BY <1>1, <2>1, <2>2 DEF RemovingOnly
<1>9. ASSUME NEW c \in Calls, CreateAccount(c)
      PROVE  DefaultKept'
  <2>1. /\ active' = active \cup {created + 1}
        /\ SetDefault(created + 1) \/ UNCHANGED <<default, raced>>
        /\ Answer(c)
    BY <1>9 DEF CreateAccount
  <2> QED BY <1>1, <1>2, <1>4, <2>1
<1>10. ASSUME NEW c \in Calls, UpdateAccount(c)
       PROVE  DefaultKept'
  <2>1. /\ active' = active /\ SetDefault(call[c].account) /\ Answer(c)
        /\ call[c].account \in Accounts
    BY <1>0, <1>10 DEF UpdateAccount, CallsOK
  <2> QED BY <1>2, <1>4, <2>1
<1>11. ASSUME NEW c \in Calls, ReadDefault(c)
       PROVE  DefaultKept'
  <2>1. /\ UNCHANGED <<default, raced, active>>
        /\ \A d \in Calls \ {c} : call'[d] = call[d]
        /\ call'[c].default = default /\ call'[c].account = call[c].account
        /\ call'[c].pc = "commit" => default # call[c].account
    BY <1>0, <1>11 DEF ReadDefault, RowsOK, CallRow
  <2> QED BY <1>1, <2>1 DEF RemovingOnly
<1>12. ASSUME NEW c \in Calls, FindNextDefault(c)
       PROVE  DefaultKept'
  <2>1. /\ UNCHANGED <<default, raced, active>>
        /\ \A d \in Calls \ {c} : call'[d] = call[d]
        /\ call'[c].default = call[c].default
        /\ call'[c].account = call[c].account
        /\ call[c].default = call[c].account
    BY <1>0, <1>12 DEF FindNextDefault, RowsOK, CallRow, CallsOK
  <2> QED BY <1>1, <2>1 DEF RemovingOnly
<1>13. ASSUME NEW c \in Calls, CommitRemoval(c)
       PROVE  DefaultKept'
  <2>1. /\ active' = active \ {call[c].account} /\ Answer(c)
        /\ call[c].pc = "commit" /\ call[c].account \in Accounts
        /\ call[c].next \in Accounts \cup {NoAccount}
    BY <1>0, <1>13 DEF CommitRemoval, CallsOK, RowsOK, CallRow
  <2>2. CASE call[c].default = call[c].account
    <3>1. SetDefault(call[c].next) /\ call[c].next # call[c].account
      BY <1>0, <1>13, <2>1, <2>2 DEF CommitRemoval, CallsOK
    <3> QED BY <1>2, <1>4, <2>1, <3>1
  <2>3. CASE call[c].default # call[c].account
    <3>1. UNCHANGED <<default, raced>>
      BY <1>13, <2>3 DEF CommitRemoval
    <3>2. c \in RemovingOnly(call[c].account)
      BY <2>1, <2>3 DEF RemovingOnly
    <3>3. raced \/ default # call[c].account
      BY <1>0, <2>1, <3>2 DEF DefaultKept
    <3>4. CASE raced
      BY <3>1, <3>4 DEF DefaultKept
    <3>5. CASE default # call[c].account
      BY <1>1, <1>4, <2>1, <3>1, <3>5
    <3> QED BY <3>3, <3>4, <3>5
  <2> QED BY <2>2, <2>3
<1>14. ASSUME NEW w \in Withdrawals, MoveToProcessing(w) \/ Finalize(w)
       PROVE  DefaultKept'
  BY <1>0, <1>14 DEF MoveToProcessing, Finalize, DefaultKept, RemovingOnly
<1> QED
  BY <1>6, <1>7, <1>8, <1>9, <1>10, <1>11, <1>12, <1>13, <1>14 DEF Next

\* AccInv is inductive.
LEMMA AccInvHolds == Spec => []AccInv
<1>1. AccInv /\ [Next]_vars => AccInv'
  <2> SUFFICES ASSUME AccInv, [Next]_vars PROVE AccInv'
    OBVIOUS
  <2>1. CASE Next
    BY <2>1, NextRowsOK, NextDefaultKept, NextPayoutKept DEF AccInv
  <2>2. CASE UNCHANGED vars
    <3>1. RowsOK'
      BY <2>2 DEF AccInv, RowsOK, vars, Accounts, WithdrawalRow, CallRow
    <3>2. CallsOK' /\ DefaultKept' /\ PayoutKept'
      BY <2>2 DEF AccInv, CallsOK, DefaultKept, PayoutKept, vars, Accounts,
                  RemovingOnly, Removing, IsOpen
    <3> QED BY <3>1, <3>2 DEF AccInv
  <2> QED BY <2>1, <2>2
<1> QED BY <1>1, InitAccInv, PTL DEF Spec

\* However calls overlap, the default account is one the creator still has,
\* unless its removal had begun when it was made the default.
THEOREM DefaultStaysActive == Spec => []DefaultIsActive
<1>1. AccInv => DefaultIsActive
  BY DEF AccInv, DefaultKept, DefaultIsActive
<1> QED BY <1>1, AccInvHolds, PTL

\* An open withdrawal goes to an account the creator still has, unless the
\* account's removal had passed its count when the withdrawal was granted: the
\* count at removal misses nothing else.
THEOREM PayoutsKeepAccounts == Spec => []PayoutAccountStays
<1>1. AccInv => PayoutAccountStays
  BY DEF AccInv, PayoutKept, PayoutAccountStays
<1> QED BY <1>1, AccInvHolds, PTL

-----------------------------------------------------------------------------
(* The cap on accounts. *)

\* Calls that will add an account whatever there is by then.
Creating == {c \in Calls : call[c].pc = "create"}

\* The strengthening of AccountsBounded: a call that is past the count has its
\* place reserved.
RoomReserved ==
  Cardinality(active) + Cardinality(Creating)
    <= MaxAccounts + Cardinality(Calls) - 1

\* There are finitely many accounts.
LEMMA ActiveIsFinite == RowsOK => IsFiniteSet(active)
<1> SUFFICES ASSUME RowsOK PROVE IsFiniteSet(active)
  OBVIOUS
<1>1. created \in Nat /\ active \in SUBSET Accounts
  BY DEF RowsOK
<1>2. IsFiniteSet(1 .. created)
  <2>1. 1 \in Int /\ created \in Int
    BY <1>1
  <2> QED BY <2>1, FS_Interval
<1>3. IsFiniteSet(Accounts)
  BY <1>2 DEF Accounts
<1> QED BY <1>1, <1>3, FS_Subset

\* Sets that do not grow keep the room.
LEMMA RoomStays ==
  ASSUME IsFiniteSet(Calls), RowsOK, active' \subseteq active,
         Creating' \subseteq Creating, RoomReserved
  PROVE  RoomReserved'
<1>1. IsFiniteSet(active)
  BY ActiveIsFinite
<1>2. IsFiniteSet(Creating)
  BY FS_Subset DEF Creating
<1>3. /\ Cardinality(active) \in Nat /\ Cardinality(active') \in Nat
      /\ Cardinality(active') <= Cardinality(active)
  BY <1>1, FS_Subset, FS_CardinalityType
<1>4. /\ Cardinality(Creating) \in Nat /\ Cardinality(Creating') \in Nat
      /\ Cardinality(Creating') <= Cardinality(Creating)
  BY <1>2, FS_Subset, FS_CardinalityType
<1>5. MaxAccounts \in Nat /\ Cardinality(Calls) \in Nat
  BY FS_CardinalityType, AccountsAssumption
<1> QED BY <1>3, <1>4, <1>5 DEF RoomReserved

\* The count lets a call pass only below the cap, and an account takes the
\* place of the call that creates it.
LEMMA NextRoom ==
  ASSUME IsFiniteSet(Calls), AccInv, RoomReserved, Next
  PROVE  RoomReserved'
<1>0. RowsOK
  BY DEF AccInv
<1>1. IsFiniteSet(active)
  BY <1>0, ActiveIsFinite
<1>2. /\ Cardinality(active) \in Nat /\ Cardinality(Calls) \in Nat
      /\ MaxAccounts \in Nat
  BY <1>1, FS_CardinalityType, AccountsAssumption
<1>3. ASSUME NEW c \in Calls, NEW row, call' = [call EXCEPT ![c] = row],
             row.pc # "create"
      PROVE  Creating' = Creating \ {c}
  BY <1>0, <1>3 DEF Creating, RowsOK
<1>4. Idle.pc = "idle"
  BY DEF Idle
<1>5. ASSUME NEW c \in Calls, Answer(c)
      PROVE  Creating' = Creating \ {c}
  BY <1>3, <1>4, <1>5 DEF Answer
<1>6. ASSUME NEW c \in Calls,
             \/ ReadUser(c) \/ UpdateAccount(c) \/ CountPending(c)
             \/ ReadDefault(c) \/ FindNextDefault(c) \/ CommitRemoval(c)
             \/ CommitRequest(c) \/ Fail(c)
             \/ Find(c, "update") \/ Find(c, "pending") \/ Find(c, "request")
      PROVE  RoomReserved'
  <2>1. active' \subseteq active
    BY <1>6 DEF ReadUser, UpdateAccount, CountPending, ReadDefault,
                FindNextDefault, CommitRemoval, CommitRequest, Fail, Find
  <2>2. CASE UpdateAccount(c) \/ CommitRemoval(c) \/ CommitRequest(c) \/ Fail(c)
    <3>1. Answer(c)
      BY <2>2 DEF UpdateAccount, CommitRemoval, CommitRequest, Fail
    <3> QED BY <1>0, <1>5, <2>1, <3>1, RoomStays
  <2>3. CASE ReadUser(c)
    <3>1. \A d \in Calls : /\ d # c => call'[d] = call[d]
                           /\ d = c => call'[d].pc = "count"
      BY <1>0, <2>3 DEF ReadUser, RowsOK, Idle
    <3> QED BY <1>0, <2>1, <3>1, RoomStays DEF Creating
  <2>4. CASE CountPending(c)
    <3>1. \A d \in Calls : /\ d # c => call'[d] = call[d]
                           /\ d = c => call'[d].pc \in {"idle", "default"}
      BY <1>0, <2>4 DEF CountPending, Answer, Goto, RowsOK, CallRow, Idle
    <3> QED BY <1>0, <2>1, <3>1, RoomStays DEF Creating
  <2>5. CASE ReadDefault(c) \/ FindNextDefault(c)
    <3>1. \A d \in Calls : /\ d # c => call'[d] = call[d]
                           /\ d = c => call'[d].pc \in {"next", "commit"}
      BY <1>0, <2>5 DEF ReadDefault, FindNextDefault, RowsOK, CallRow
    <3> QED BY <1>0, <2>1, <3>1, RoomStays DEF Creating
  <2>6. ASSUME NEW pc \in {"update", "pending", "request"}, Find(c, pc)
        PROVE  RoomReserved'
    <3>1. \A d \in Calls : /\ d # c => call'[d] = call[d]
                           /\ d = c => call'[d].pc = pc
      BY <1>0, <2>6 DEF Find, RowsOK, Idle
    <3> QED BY <1>0, <2>1, <3>1, RoomStays DEF Creating
  <2> QED BY <1>6, <2>2, <2>3, <2>4, <2>5, <2>6
<1>7. ASSUME NEW c \in Calls, CountAccounts(c)
      PROVE  RoomReserved'
  <2>1. active' = active
    BY <1>7 DEF CountAccounts
  <2>2. CASE Answer(c)
    BY <1>0, <1>5, <2>1, <2>2, RoomStays
  <2>3. CASE ~Answer(c)
    <3>1. Cardinality(active) < MaxAccounts
      BY <1>2, <1>7, <2>3 DEF CountAccounts
    <3>2. Creating' \in SUBSET Calls
      BY DEF Creating
    <3>3. Cardinality(Creating') \in Nat
          /\ Cardinality(Creating') <= Cardinality(Calls)
      BY <3>2, FS_Subset, FS_CardinalityType
    <3> QED BY <1>2, <2>1, <3>1, <3>3 DEF RoomReserved
  <2> QED BY <2>2, <2>3
<1>8. ASSUME NEW c \in Calls, CreateAccount(c)
      PROVE  RoomReserved'
  <2>1. /\ active' = active \cup {created + 1}
        /\ Creating' = Creating \ {c}
        /\ c \in Creating
    BY <1>5, <1>8 DEF CreateAccount, Creating
  <2>2. IsFiniteSet(Creating)
    BY FS_Subset DEF Creating
  <2>3. /\ Cardinality(Creating) \in Nat
        /\ Cardinality(Creating') = Cardinality(Creating) - 1
    BY <2>1, <2>2, FS_RemoveElement, FS_CardinalityType
  <2>4. Cardinality(active') \in {Cardinality(active), Cardinality(active) + 1}
    BY <1>1, <2>1, FS_AddElement
  <2> QED BY <1>2, <2>3, <2>4 DEF RoomReserved
<1>9. ASSUME NEW w \in Withdrawals, MoveToProcessing(w) \/ Finalize(w)
      PROVE  RoomReserved'
  <2>1. UNCHANGED <<active, call>>
    BY <1>9 DEF MoveToProcessing, Finalize
  <2> QED BY <1>0, <2>1, RoomStays DEF Creating
<1> QED BY <1>6, <1>7, <1>8, <1>9 DEF Next

\* However many calls overlap, the cap on accounts is exceeded by fewer than
\* there are calls: with calls one at a time it is exact.
THEOREM AccountsStayBounded ==
  ASSUME IsFiniteSet(Calls), Calls # {}
  PROVE  Spec => []AccountsBounded
<1>1. Cardinality(Calls) \in Nat /\ Cardinality(Calls) >= 1 /\ MaxAccounts \in Nat
  BY FS_CardinalityType, FS_EmptySet, AccountsAssumption
<1>2. Init => RoomReserved
  <2> SUFFICES ASSUME Init PROVE RoomReserved
    OBVIOUS
  <2>1. active = {} /\ Creating = {}
    BY DEF Init, Creating, Idle
  <2>2. Cardinality({}) = 0
    BY FS_EmptySet
  <2> QED BY <1>1, <2>1, <2>2 DEF RoomReserved
<1>3. AccInv /\ RoomReserved /\ [Next]_vars => RoomReserved'
  <2> SUFFICES ASSUME AccInv, RoomReserved, [Next]_vars PROVE RoomReserved'
    OBVIOUS
  <2>1. CASE Next
    BY <2>1, NextRoom
  <2>2. CASE UNCHANGED vars
    BY <2>2 DEF RoomReserved, Creating, vars
  <2> QED BY <2>1, <2>2
<1>4. AccInv /\ RoomReserved => AccountsBounded
  <2> SUFFICES ASSUME AccInv, RoomReserved PROVE AccountsBounded
    OBVIOUS
  <2>1. IsFiniteSet(active)
    BY ActiveIsFinite DEF AccInv
  <2>2. IsFiniteSet(Creating)
    BY FS_Subset DEF Creating
  <2>3. Cardinality(active) \in Nat /\ Cardinality(Creating) \in Nat
    BY <2>1, <2>2, FS_CardinalityType
  <2> QED BY <1>1, <2>3 DEF RoomReserved, AccountsBounded
<1> QED BY <1>2, <1>3, <1>4, AccInvHolds, PTL DEF Spec
=============================================================================
