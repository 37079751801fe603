------------------------------- MODULE Ledger -------------------------------
(***************************************************************************)
(* The money of the platform at the granularity of database transactions:  *)
(* wallets, the wallet-transaction history, the double-entry postings,     *)
(* supports (a supporter's payment to a creator) and withdrawals.          *)
(*                                                                         *)
(* Every operation of wallet.service.ts and support-settlement.service.ts  *)
(* that changes money runs inside one database transaction, Serializable   *)
(* for withdrawals and settlement, and taking the wallet's row lock before *)
(* its other money writes for a captured payment; a transaction that       *)
(* throws leaves no trace.  So a transaction is one action here and a      *)
(* refused request is no step.  What happens between the transactions of   *)
(* one payment is the subject of module Payment.                           *)
(***************************************************************************)
EXTENDS Integers, Sequences, FiniteSets, Functions

CONSTANTS
  Creators,       \* users who own a wallet
  Supports,       \* supports whose payment has been initiated
  Withdrawals,    \* identifiers of withdrawals, used once each
  Admins,         \* users with an admin role
  Keys,           \* client-generated idempotency keys
  NoKey,          \* a withdrawal request that carries no key
  NoOne,          \* the owner of a withdrawal that does not exist yet
  Amounts,        \* amounts a creator may ask to withdraw
  MinWithdrawal,  \* MIN_WITHDRAWAL
  CreatorOf,      \* the creator a support pays
  Net,            \* support.netAmount
  Fee             \* support.platformFee

ASSUME LedgerAssumption ==
  /\ NoKey \notin Keys
  /\ NoOne \notin Creators
  /\ MinWithdrawal \in Nat \ {0}
  /\ Amounts \subseteq Nat
  /\ CreatorOf \in [Supports -> Creators]
  /\ Net \in [Supports -> Nat]
  /\ Fee \in [Supports -> Nat]

\* The balances of all creators can be added up.
ASSUME FinitelyManyCreators == IsFiniteSet(Creators)

VARIABLES
  support,     \* status, applied (paymentAppliedAt set), settlement
  wallet,      \* the three balances of each creator's wallet
  totalEarned, \* wallet.totalEarned
  lastTxn,     \* balances copied into the newest wallet transaction
  entrySum,    \* credits minus debits of the CREATOR_* entries of a wallet
  platform,    \* credits minus debits of the accounts that have no wallet
  batches,     \* idempotency keys of the accounting posting batches
  earnings,    \* supports that have a platformEarning row
  withdrawal,  \* the withdrawal rows
  audit        \* WITHDRAWAL_STATUS_CHANGED audit log of each withdrawal

vars == <<support, wallet, totalEarned, lastTxn, entrySum, platform, batches,
          earnings, withdrawal, audit>>
moneyVars == <<wallet, totalEarned, lastTxn, entrySum, platform, batches,
               earnings>>

Buckets          == {"available", "pending", "locked"}
PlatformAccounts == {"PROCESSOR_CLEARING", "PLATFORM_REVENUE",
                     "WITHDRAWAL_CLEARING"}
PaymentStatus    == {"PENDING", "COMPLETED", "FAILED"}
WithdrawalStatus == {"PENDING", "PROCESSING", "COMPLETED", "REJECTED"}
Zero             == [b \in Buckets |-> 0]

\* Faulty variant: the fee is taken out of nothing.
Gross_WithoutFee(s) == Net[s]

\* Gross amount charged to the supporter.
Gross(s) == Net[s] + Fee[s]

NoWithdrawal == [status |-> "NONE", owner |-> NoOne, amount |-> 0,
                 key |-> NoKey]

Init ==
  /\ support     = [s \in Supports |-> [status     |-> "PENDING",
                                        applied    |-> FALSE,
                                        settlement |-> "PENDING"]]
  /\ wallet      = [c \in Creators |-> Zero]
  /\ totalEarned = [c \in Creators |-> 0]
  /\ lastTxn     = [c \in Creators |-> Zero]
  /\ entrySum    = [c \in Creators |-> Zero]
  /\ platform    = [a \in PlatformAccounts |-> 0]
  /\ batches     = {}
  /\ earnings    = {}
  /\ withdrawal  = [w \in Withdrawals |-> NoWithdrawal]
  /\ audit       = [w \in Withdrawals |-> <<>>]

-----------------------------------------------------------------------------
(* What the transactions are made of. *)

\* Faulty variant: the amount is added but never taken away.
Move_CreditOnly(balance, from, to, amt) == [balance EXCEPT ![to] = @ + amt]

\* Move an amount between two buckets of a wallet, or of its entries.
Move(balance, from, to, amt) ==
  [balance EXCEPT ![from] = @ - amt, ![to] = @ + amt]

Add(balance, bucket, amt) == [balance EXCEPT ![bucket] = @ + amt]

\* Faulty variant: the balances read before the update are copied.
RecordTransaction_Stale(c) == lastTxn' = [lastTxn EXCEPT ![c] = wallet[c]]

\* WalletLedgerService.createWalletTransaction: the new history row copies the
\* balances the wallet has after the update.
RecordTransaction(c) == lastTxn' = [lastTxn EXCEPT ![c] = wallet'[c]]

\* Faulty variant: the error handler returns and nothing was posted.
PostBatch_Swallowed(kind, id) ==
  /\ <<kind, id>> \notin batches
  /\ UNCHANGED batches

\* WalletAccountingService.createPostingBatch: the batch key is unique, and a
\* violation aborts the surrounding transaction.
PostBatch(kind, id) ==
  /\ <<kind, id>> \notin batches
  /\ batches' = batches \cup {<<kind, id>>}

-----------------------------------------------------------------------------
(* Payments. *)

\* applyCompletedPayment, as far as money is concerned.  The update is
\* conditional on paymentAppliedAt being null, not on the status.
CompletePayment(s) ==
  LET c == CreatorOf[s] IN
  /\ ~support[s].applied
  /\ support'     = [support EXCEPT ![s] = [status     |-> "COMPLETED",
                                            applied    |-> TRUE,
                                            settlement |-> "PENDING"]]
  /\ wallet'      = [wallet EXCEPT ![c] = Add(@, "pending", Net[s])]
  /\ totalEarned' = [totalEarned EXCEPT ![c] = @ + Net[s]]
  /\ RecordTransaction(c)
  /\ PostBatch("SUPPORT_CAPTURE", s)
  /\ entrySum'    = [entrySum EXCEPT ![c] = Add(@, "pending", Net[s])]
  /\ platform'    = [platform EXCEPT !["PROCESSOR_CLEARING"] = @ - Gross(s),
                                     !["PLATFORM_REVENUE"]   = @ + Fee[s]]
  /\ earnings'    = earnings \cup {s}
  /\ UNCHANGED <<withdrawal, audit>>

\* SupportTransitionService.markPaymentFailed: the status the transition table
\* is asked about was read before the transaction, the update itself has no
\* condition.
MarkPaymentFailed(s) ==
  /\ support' = [support EXCEPT ![s].status = "FAILED"]
  /\ UNCHANGED <<moneyVars, withdrawal, audit>>

\* One iteration of releaseMaturedSupports.  availableAt is left out: a
\* support may mature at any time after it was captured.
SettleSupport(s) ==
  LET c == CreatorOf[s] IN
  /\ support[s].status = "COMPLETED"
  /\ support[s].settlement = "PENDING"
  /\ support[s].applied
  /\ wallet[c]["pending"] >= Net[s]
  /\ support'  = [support EXCEPT ![s].settlement = "AVAILABLE"]
  /\ wallet'   = [wallet EXCEPT ![c] = Move(@, "pending", "available", Net[s])]
  /\ RecordTransaction(c)
  /\ PostBatch("SUPPORT_SETTLEMENT", s)
  /\ entrySum' = [entrySum EXCEPT ![c] = Move(@, "pending", "available", Net[s])]
  /\ UNCHANGED <<totalEarned, platform, earnings, withdrawal, audit>>

-----------------------------------------------------------------------------
(* Withdrawals. *)

\* Faulty variant: a key is forgotten once its withdrawal is finalized.
KeyIsFree_WhenFinal(c, k) ==
  k # NoKey => \A w \in Withdrawals :
                 ~(/\ withdrawal[w].owner = c
                   /\ withdrawal[w].key = k
                   /\ withdrawal[w].status \in {"PENDING", "PROCESSING"})

\* The withdrawal an idempotency key of a creator is bound to, if any.
KeyIsFree(c, k) ==
  k # NoKey => \A w \in Withdrawals :
                 ~(withdrawal[w].owner = c /\ withdrawal[w].key = k)

\* WalletService.requestWithdrawal.  A key that is already bound answers with
\* the existing withdrawal or with a conflict and changes nothing.
RequestWithdrawal(w, c, amt, k) ==
  /\ withdrawal[w].status = "NONE"
  /\ amt >= MinWithdrawal
  /\ KeyIsFree(c, k)
  /\ wallet[c]["available"] >= amt
  /\ wallet'     = [wallet EXCEPT ![c] = Move(@, "available", "locked", amt)]
  /\ withdrawal' = [withdrawal EXCEPT ![w] = [status |-> "PENDING",
                                              owner  |-> c,
                                              amount |-> amt,
                                              key    |-> k]]
  /\ RecordTransaction(c)
  /\ PostBatch("WITHDRAWAL_RESERVE", w)
  /\ entrySum'   = [entrySum EXCEPT ![c] = Move(@, "available", "locked", amt)]
  /\ UNCHANGED <<support, totalEarned, platform, earnings, audit>>

\* Faulty variant: a completed withdrawal may still be rejected.
WithdrawalTransitions_Refund == [PENDING    |-> {"PROCESSING"},
                                 PROCESSING |-> {"COMPLETED", "REJECTED"},
                                 COMPLETED  |-> {"REJECTED"},
                                 REJECTED   |-> {}]

\* WITHDRAWAL_TRANSITIONS, with the row's state it is asked about.
WithdrawalTransitions == [PENDING    |-> {"PROCESSING"},
                          PROCESSING |-> {"COMPLETED", "REJECTED"},
                          COMPLETED  |-> {},
                          REJECTED   |-> {}]

\* Faulty variant: a rejected withdrawal may be taken up again.
MayMove_Reopen(w, to) ==
  /\ withdrawal[w].status # "NONE"
  /\ \/ to \in WithdrawalTransitions[withdrawal[w].status]
     \/ withdrawal[w].status = "REJECTED" /\ to = "PROCESSING"

MayMove(w, to) ==
  /\ withdrawal[w].status # "NONE"
  /\ to \in WithdrawalTransitions[withdrawal[w].status]

\* Faulty variant: actor and status are swapped.
AppendAudit_Swapped(w, actor, status) ==
  audit' = [audit EXCEPT ![w] = Append(@, [actor |-> status, status |-> actor])]

\* The audit entry of a status change.  It also stands for the notification
\* that the same transaction sends to the creator.
AppendAudit(w, actor, status) ==
  audit' = [audit EXCEPT ![w] = Append(@, [actor |-> actor, status |-> status])]

\* updateWithdrawalStatus with status PROCESSING.
MoveToProcessing(w, a) ==
  /\ MayMove(w, "PROCESSING")
  /\ withdrawal' = [withdrawal EXCEPT ![w].status = "PROCESSING"]
  /\ AppendAudit(w, a, "PROCESSING")
  /\ UNCHANGED <<support, moneyVars>>

\* Faulty variant: the maker may be the checker.
MakerChecker_AnyAdmin(w, a) == audit[w] # <<>> /\ a \in Admins

\* The maker/checker policy: some admin has acted on the withdrawal, and the
\* one who acted last is not the one who finalizes it.
MakerChecker(w, a) ==
  /\ audit[w] # <<>>
  /\ audit[w][Len(audit[w])].actor # a

\* updateWithdrawalStatus with status COMPLETED.
CompleteWithdrawal(w, a) ==
  LET c   == withdrawal[w].owner
      amt == withdrawal[w].amount
  IN
  /\ MayMove(w, "COMPLETED")
  /\ MakerChecker(w, a)
  /\ wallet[c]["locked"] >= amt
  /\ withdrawal' = [withdrawal EXCEPT ![w].status = "COMPLETED"]
  /\ wallet'     = [wallet EXCEPT ![c] = Add(@, "locked", -amt)]
  /\ RecordTransaction(c)
  /\ PostBatch("WITHDRAWAL_PAYOUT", w)
  /\ entrySum'   = [entrySum EXCEPT ![c] = Add(@, "locked", -amt)]
  /\ platform'   = [platform EXCEPT !["WITHDRAWAL_CLEARING"] = @ + amt]
  /\ AppendAudit(w, a, "COMPLETED")
  /\ UNCHANGED <<support, totalEarned, earnings>>

\* updateWithdrawalStatus with status REJECTED.
RejectWithdrawal(w, a) ==
  LET c   == withdrawal[w].owner
      amt == withdrawal[w].amount
  IN
  /\ MayMove(w, "REJECTED")
  /\ MakerChecker(w, a)
  /\ wallet[c]["locked"] >= amt
  /\ withdrawal' = [withdrawal EXCEPT ![w].status = "REJECTED"]
  /\ wallet'     = [wallet EXCEPT ![c] = Move(@, "locked", "available", amt)]
  /\ RecordTransaction(c)
  /\ PostBatch("WITHDRAWAL_RELEASE", w)
  /\ entrySum'   = [entrySum EXCEPT ![c] = Move(@, "locked", "available", amt)]
  /\ AppendAudit(w, a, "REJECTED")
  /\ UNCHANGED <<support, totalEarned, platform, earnings>>

Next ==
  \/ \E s \in Supports : \/ CompletePayment(s)
                         \/ MarkPaymentFailed(s)
                         \/ SettleSupport(s)
  \/ \E w \in Withdrawals, c \in Creators, amt \in Amounts,
        k \in Keys \cup {NoKey} : RequestWithdrawal(w, c, amt, k)
  \/ \E w \in Withdrawals, a \in Admins : \/ MoveToProcessing(w, a)
                                          \/ CompleteWithdrawal(w, a)
                                          \/ RejectWithdrawal(w, a)

Spec == Init /\ [][Next]_vars
-----------------------------------------------------------------------------
(* Properties. *)

SupportTypeOK ==
  support \in [Supports -> [status     : PaymentStatus,
                            applied    : BOOLEAN,
                            settlement : {"PENDING", "AVAILABLE"}]]

MoneyTypeOK ==
  /\ wallet      \in [Creators -> [Buckets -> Int]]
  /\ totalEarned \in [Creators -> Int]
  /\ lastTxn     \in [Creators -> [Buckets -> Int]]
  /\ entrySum    \in [Creators -> [Buckets -> Int]]
  /\ platform    \in [PlatformAccounts -> Int]

BatchKeys ==
  ({"SUPPORT_CAPTURE", "SUPPORT_SETTLEMENT"} \X Supports) \cup
  ({"WITHDRAWAL_RESERVE", "WITHDRAWAL_PAYOUT", "WITHDRAWAL_RELEASE"}
     \X Withdrawals)

WithdrawalTypeOK ==
  /\ withdrawal \in [Withdrawals -> [status : WithdrawalStatus \cup {"NONE"},
                                     owner  : Creators \cup {NoOne},
                                     amount : Nat,
                                     key    : Keys \cup {NoKey}]]
  /\ \A w \in Withdrawals :
       withdrawal[w].status # "NONE" => withdrawal[w].owner \in Creators
  /\ audit \in [Withdrawals -> Seq([actor  : Admins,
                                    status : WithdrawalStatus])]

\* The shape of the rows; a withdrawal that exists has an owner.
TypeOK ==
  /\ SupportTypeOK
  /\ MoneyTypeOK
  /\ batches \subseteq BatchKeys
  /\ earnings \subseteq Supports
  /\ WithdrawalTypeOK

\* The three independent records of a creator's money agree after every
\* transaction, and no balance is negative: the balances the wallet row holds,
\* those the newest wallet transaction quotes, and those the accounting
\* entries add up to.  This is what the reconciliation job compares, so it
\* only ever reports a mismatch for a reason outside these transactions.
Reconciled ==
  \A c \in Creators :
    /\ wallet[c] = entrySum[c]
    /\ wallet[c] = lastTxn[c]
    /\ \A b \in Buckets : wallet[c][b] >= 0

\* Every posting is made exactly once, and exactly when the row it is for says
\* so, and the platform's fee is recorded exactly for the captured supports: a
\* unique-key violation, which would abort the surrounding transaction, cannot
\* happen.
PostingsMatchRows ==
  /\ \A s \in Supports :
       /\ <<"SUPPORT_CAPTURE", s>> \in batches <=> support[s].applied
       /\ <<"SUPPORT_SETTLEMENT", s>> \in batches
            <=> support[s].settlement = "AVAILABLE"
       /\ support[s].settlement = "AVAILABLE" => support[s].applied
       /\ s \in earnings <=> support[s].applied
  /\ \A w \in Withdrawals :
       /\ <<"WITHDRAWAL_RESERVE", w>> \in batches
            <=> withdrawal[w].status # "NONE"
       /\ <<"WITHDRAWAL_PAYOUT", w>> \in batches
            <=> withdrawal[w].status = "COMPLETED"
       /\ <<"WITHDRAWAL_RELEASE", w>> \in batches
            <=> withdrawal[w].status = "REJECTED"

\* A withdrawal is finalized by one admin after another one took it into
\* processing, and the audit log tells which.
TwoAdminsPerPayout ==
  \A w \in Withdrawals :
    LET st == withdrawal[w].status
        log == audit[w]
    IN
    /\ st \in {"NONE", "PENDING"} => log = <<>>
    /\ st = "PROCESSING" => /\ Len(log) = 1
                            /\ log[1].status = "PROCESSING"
    /\ st \in {"COMPLETED", "REJECTED"} =>
         /\ Len(log) = 2
         /\ log[1].status = "PROCESSING"
         /\ log[2].status = st
         /\ log[1].actor # log[2].actor

\* An idempotency key of a creator names at most one withdrawal, so that a
\* retried request never reserves the money twice.
OneWithdrawalPerKey ==
  \A v, w \in Withdrawals :
    /\ withdrawal[v].key # NoKey
    /\ withdrawal[v].key = withdrawal[w].key
    /\ withdrawal[v].owner = withdrawal[w].owner
    => v = w

WithdrawalsOf(c, statuses) ==
  {w \in Withdrawals : withdrawal[w].owner = c
                         /\ withdrawal[w].status \in statuses}

UnsettledSupportsOf(c) ==
  {s \in Supports : /\ CreatorOf[s] = c
                    /\ support[s].applied
                    /\ support[s].settlement = "PENDING"}

\* Total amount of a set of withdrawals.
TotalAmount(W) == SumFunctionOnSet([w \in W |-> withdrawal[w].amount], W)

\* The locked balance is what the open withdrawals add up to and the pending
\* balance what the captured, unsettled supports add up to.  So finalizing
\* never fails with 'Locked balance is insufficient', and settling never with
\* 'wallet state is inconsistent': those guards can only be reached through
\* writes from outside.
BalancesMatchRows ==
  \A c \in Creators :
    /\ wallet[c]["locked"] =
         TotalAmount(WithdrawalsOf(c, {"PENDING", "PROCESSING"}))
    /\ wallet[c]["pending"] = SumFunctionOnSet(Net, UnsettledSupportsOf(c))

CapturedSupportsOf(c) == {s \in Supports : CreatorOf[s] = c /\ support[s].applied}

\* No money is made or lost: everything a creator ever earned came from
\* captured supports and is in the wallet or was paid out, and over the whole
\* book of accounts debits equal credits.
MoneyIsConserved ==
  /\ \A c \in Creators :
       /\ totalEarned[c] = SumFunctionOnSet(Net, CapturedSupportsOf(c))
       /\ totalEarned[c] = SumFunction(wallet[c])
                            + TotalAmount(WithdrawalsOf(c, {"COMPLETED"}))
  /\ SumFunction([c \in Creators |-> SumFunction(entrySum[c])])
       + SumFunction(platform) = 0

FinalRowsStay ==
  /\ \A w \in Withdrawals :
       withdrawal[w].status \in {"COMPLETED", "REJECTED"}
         => withdrawal'[w] = withdrawal[w] /\ audit'[w] = audit[w]
  /\ \A s \in Supports :
       support[s].settlement = "AVAILABLE"
         => support'[s].settlement = "AVAILABLE"

\* What is final stays: a finalized withdrawal never changes again, and money
\* released to a creator is not taken back.
FinalIsFinal == [][FinalRowsStay]_vars

\* A withdrawal row, read as the payment it records.
PayoutOf(w) == [for    |-> w,
                to     |-> withdrawal[w].owner,
                amount |-> withdrawal[w].amount]

\* What the rows and wallets mean to a creator: money locked for a withdrawal
\* is still owed, and only a final withdrawal has been answered.
Promise == INSTANCE LedgerContract WITH
  held     <- [c \in Creators |-> wallet[c]["pending"]],
  owed     <- [c \in Creators |->
                 wallet[c]["available"] + wallet[c]["locked"]],
  credited <- {s \in Supports : support[s].applied},
  released <- {s \in Supports : support[s].settlement = "AVAILABLE"},
  payouts  <- {PayoutOf(w) : w \in
                 {v \in Withdrawals : withdrawal[v].status = "COMPLETED"}},
  refused  <- {w \in Withdrawals : withdrawal[w].status = "REJECTED"}

\* The tables together keep the promise: each captured payment is credited and
\* released at most once, and each withdrawal is paid at most once, to its
\* owner, out of money that was released and not paid before, or refused.
KeepsLedgerContract == Promise!ContractSpec
=============================================================================
