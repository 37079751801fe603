# Verification of Buy Me a Coffee Ethiopia

Models, model-checking runs and proofs about the backend in `src/api` (NestJS,
Prisma, PostgreSQL): what happens to money between a supporter's payment and a
creator's withdrawal. `tlc -config X.cfg M` checks a run, `tlapm M.tla` a proof.

## 1. The system

Supporters pay a creator through the provider Chapa; the platform keeps a fee,
credits the rest to the creator's wallet as *pending*, releases it after a hold
period, and pays it out by hand: one admin takes a withdrawal into processing,
another finalizes it. Everything is stored in PostgreSQL. The server may run in
several instances, each request is an asynchronous function whose queries
interleave with everybody else's, and cron jobs run beside them.

| component | state it keeps | operations | talks to |
|---|---|---|---|
| Money ledger (`wallet-balance`, `wallet-ledger`, `wallet-accounting`, `support-wallet`, `withdrawal-transition`) | balances of each wallet, wallet transactions with copied balances, double-entry posting batches, platform earnings | credit, settle, reserve, complete, reject; each moves balances, appends history, posts a batch | called inside the transactions of the components below |
| Withdrawals (`wallet.service`) | withdrawals, audit log | request, move to processing, complete, reject, bulk update, listings | ledger, notifications, financial accounts |
| Settlement job (`support-settlement`) | settlement status of supports | release matured supports every hour | ledger |
| Payment processing (`support.service`, `support-payment`, `support-transition`, `support-reward`, `support-poll`) | support, payment intent and attempt, provider transaction, webhook events, rewards, votes | initiate, webhook, verify | Chapa, ledger, outbox |
| Payment outbox (`support-outbox*`, `support-projection`) | outbox rows with claims, statistics, badges, notifications | enqueue, claim, project, send Telegram, release on failure | Telegram |
| Reconciliation job (`wallet-reconciliation`) | alerts | compare wallet, history and entries; alert admins once a day | reads the ledger |
| Financial accounts | payout accounts, default account | create, update, remove, list | read by withdrawals |
| Authentication (`auth.service`, `app/src/lib/api.ts`) | sessions, users | register, login, refresh, logout, change and reset password | web client's refresh-and-retry |
| Creator profiles, polls, campaigns, deep links (`creator.service`) | profile rows, slugs, counters | create, update, track visits | |
| Notifications, Telegram, bootstrap, web client | | mark read, send message, CSRF, pages | |

What is hard: the answer of the provider arrives through two channels at once
and is used after queries whose results may be stale by then; a delivery may be
repeated or cut off by a restart; supply checked at checkout runs out before
the payment; three records of the same money must agree; two admins act on one
withdrawal; workers take over each other's claims; most services check in one
query and write in another, with nothing held in between. `PROJECT.json` lists
each of these hazards at its line.

What makes the components correct:

* *ledger*: wallet row, newest history row and entries agree; no balance is
  negative; postings are made once and balance; totals are conserved;
* *withdrawals*: nobody finalizes what they started; final is final; a retry
  reserves nothing twice; open withdrawals add up to the locked balance;
* *payments*: credited at most once and only for captured money, together with
  reward, vote and events; the answer given is true; outcomes are final;
* *settlement*: what was captured is eventually released;
* *database transactions*: what is decided on a snapshot still holds at the
  commit, and a failed transaction is retried to an end;
* *outbox*: every event is projected once and its message sent at least once;
* *reconciliation*: no alarm about a wallet whose books agree, and not the same
  one again and again;
* *accounts and sessions*: caps hold; no withdrawal is paid out to a removed
  account; no session survives a password change. Here the code falls short, and
  the models say by how much.

## 2. Modules

| module | models | extends |
|---|---|---|
| `Ledger` | the money transactions, each one an atomic action | |
| `LedgerContract` | what the ledger promises a creator, abstractly; implemented by `Ledger` | |
| `Transactions` | the same transactions as snapshots that conflict and are retried | `Ledger` |
| `Reconciliation` | the reconciliation job beside the transactions | `Ledger` |
| `Payment` | calls and the provider, around `Ledger`'s transactions | `Ledger` |
| `PaymentContract` | what a payment promises, abstractly; implemented by `Payment` | |
| `Outbox` | overlapping runs of the job that projects payments and sends messages | |
| `OutboxContract` | what the outbox promises, abstractly; implemented by `Outbox` | |
| `Sessions` | overlapping calls on the sessions of one user | |
| `FinancialAccounts` | overlapping calls on the payout accounts of one creator | |
| `LedgerProofs`, `PaymentProofs`, `TransactionsProofs`, `ReconciliationProofs`, `OutboxProofs`, `SessionsProofs`, `AccountsProofs` | theorems (section 5) | the module named, `TLAPS` |
| `SumTheorems` | laws of the sum of a function over a finite set, used by the proofs | `TLAPS` |
| `MC*` | small instances for TLC | |

`Payment`, `Transactions` and `Reconciliation` are three compositions with the
one `Ledger`. `Transactions` justifies its atomic actions; `Outbox` starts where
`ApplyPayment` of `Payment` has written the outbox rows; `FinancialAccounts`
shares with `Ledger` only the open withdrawals.

Definitions named `X_Something` under a comment "Faulty variant" are not part of
a specification. They are plausible bugs; replacing `X` by its variant makes TLC
find the property violated that `PROJECT.json` pairs it with.

### Ledger

A database transaction is one action. That is what the code arranges:
withdrawals and settlements run Serializable, and a transaction that completes a
payment is serialized with others of the same support by the row lock of its
conditional update, with others of the same reward, option or wallet by the
locks of their updates, which are held until it commits. A transaction that
throws leaves no trace, so a refused request is no step.

| variable | code |
|---|---|
| `support` | `Support.status`, `paymentAppliedAt` set (and `walletCredited`, written with it), `settlementStatus` |
| `wallet`, `totalEarned` | the columns of `Wallet` |
| `lastTxn` | `*BalanceAfter` of the wallet transaction committed last |
| `entrySum` | entries of `CREATOR_AVAILABLE/PENDING/LOCKED`, credits minus debits, per wallet |
| `platform` | the same for the accounts without a wallet |
| `batches` | `AccountingPostingBatch.idempotencyKey`, e.g. `support-capture:<id>` |
| `earnings` | `PlatformEarning` |
| `withdrawal`, `audit` | `Withdrawal`; its `WITHDRAWAL_STATUS_CHANGED` audit logs, oldest first |

Actions: `CompletePayment`, `MarkPaymentFailed`, `SettleSupport` (called from
payment processing and the hourly job), `RequestWithdrawal`, `MoveToProcessing`,
`CompleteWithdrawal`, `RejectWithdrawal`. `MarkPaymentFailed` has no guard
because its update has no condition; what may precede it is the business of
`Payment`.

Abstractions: amounts are integers (the code uses `Decimal(18,2)`, the same
thing in cents); `wallet.isActive` is left out because nothing writes it after
creation; so is `user.isVerified`, which is written at creation and set by a
login over Telegram (`auth.service.ts:273`) but never taken back; a capture's
gross amount is the net amount plus the fee, as the code makes it in whole cents
(section 7), so its check for batches that do not balance has nothing to refuse;
a withdrawal's payout account is left to `FinancialAccounts`; "newest" wallet
transaction means the one committed last, where the code sorts by `createdAt`.
The notification a status change sends is written in the same transaction as its
audit entry, which stands for both.

### Payment

A call is a process. It is a webhook or a verification for one support, and each
step is one await: `RecordWebhook`, `RecheckWebhook` (the lookup after a unique
key error), `LookUp` (the shortcut of `verifyAndComplete`), `LoadSupport` and
`LoadIntent` (Prisma fetches an included relation by a second query),
`ChapaAnswers`/`ChapaUnavailable`, one of `ApplyPayment`, `AlreadyApplied`,
`RewardRefused`, `MarkFailed`, `TransitionRefused`, and `FinishWebhook`. What the
call has read is kept in its record and used later, stale or not. `Crash` ends a
call between any two steps. Calls arrive at any time: `GET /verify` is open to
everybody, also before the provider has decided. `report` is what the provider
told a call that is about to mark a support as failed, and `marked`, which is
history, keeps it: `MarkedEarly(s)` says that some call took a pending payment
for a failed one, as `processPayment` does with any status but success.

`ApplyPayment` is the whole of `applyCompletedPayment`: `CompletePayment` of
`Ledger` together with intent, reward, vote, provider transaction and outbox
rows. The provider (`ProviderDecides`) is external: it takes the money, takes
another amount than asked for ("mismatch") or reports failure; once it has
decided it does not change its mind.

`Initiate`, `CreateSupport` and `AbandonCheckout` are checkout. A support exists
for calls once `checkout` is "open"; before that its row in `support` is a
placeholder. A repeated attempt of a supporter is another support.

Left out: signatures (a request that fails the check does nothing), lookups that
end in 404, the error text stored in a webhook event, a reward's `isActive`
(nothing in this code writes it).

`Routes` is the order of the POST routes. The code's order never reaches the
webhook handler (run `payment_routes`); the other runs use the order in which
the handler works, so that what it does is checked as well.

### LedgerContract

What a creator may rely on, without wallets, reservations, postings or admins:
money that is held, money that is owed, the supports credited and released, the
payouts made and the withdrawals refused. A captured payment is credited once
and released once; a withdrawal is answered once, by paying its owner money that
was released and not paid before, or by a refusal. `Ledger` implements it under
the mapping `Promise`: held is the pending balance, owed the available and the
locked one together, so requesting a withdrawal is invisible and rejecting it
moves nothing.

### PaymentContract

Five sets and totals: captured, credited, entitled, released, earned. `Payment`
implements it under the mapping in `Contract`; it is what a supporter
and a creator may rely on whatever calls, retries and crashes happen.

### Transactions

`Ledger` decides and writes in one step. In the database
`requestWithdrawal`, `updateWithdrawalStatus` and the settlement of a support
take a snapshot at their first query (`Begin`), decide on it, and write at the
end (`Commit`). Serializable makes one of them fail when a row it updates has
been updated since its snapshot; that flag is `stale`, set by whoever commits an
update of the row. `SerializationFailure` covers that case and the failures
Postgres adds for its own reasons; `runSerializableTransaction` then starts over
with a new snapshot, `MaxAttempts` times in all. Captured payments commit at the
default level: they wait for the row lock of the wallet and then add to what is
there, so they are atomic here, and they make rows stale for the others.

Only the rows that are *updated* are protected. The lookup by idempotency key,
the audit log and the account are read from a snapshot that may be out of date,
so it has to be shown that a decision still holds when it is carried out
(`DecisionsHold`). It does: the wallet's row, which any two requests of a creator
update, sorts them out before the unique index on the key gets to.

### Reconciliation

One variable per run of the job, and the alerts each wallet got within the
cooldown. `ReadWallets` and `ReadEntries` are two queries with any number of
transactions between; `CountAlerts` and `CreateAlerts` likewise; `Abort` is a
failed query or a restart. Runs overlap because each server starts one at the
same minute and an admin may start another (`runAdminReconciliation`). The job
fetches the 200 oldest wallets only: `Checked`. `CooldownEnds` lets an alert get
older than the cooldown at any time.

### Outbox

A run of the job is a process, since the job starts every minute whether or not
the last run has ended, and in every instance of the server. It lists events
(`Start`), claims one (`Claim`), and either counts (`CountSupports`,
`CountPrevious`) and commits a projection, or loads, sends and marks a message;
what fails goes to `Release`, which like `Processed` touches the claim whoever
holds it. Claims carry no owner. A run compares claims with the time at which it
*started* less five minutes, so a claim lapses relative to that (`Claimable`).

Time is counted in ticks. `Tick` needs every run to be idle, between events, or
waiting for Telegram: the queries from a claim to the end of its projection are
bounded by Prisma's transaction limits (2 s + 5 s), far below the unit of the
claims, while the request to Telegram has no timeout. One creator is followed,
since projections of different creators touch different rows. Campaign, deep
link and feature request updates are written in the same transaction as the
notification, under the same conditions on the event, and stand with it.

`Overwrite` is what the run `payment_stale` finds: a completed support that
becomes FAILED. Its events stay, and what counts completed supports counts one
less. `Early` are the supports this can happen to. `Deliver` is also the case in
which Telegram is not asked, since there is no bot or the creator has not linked
an account: the event is closed as undeliverable. `DeliveryFails` covers the
whole handler, up to the update that marks the event, and the payload without a
name. `FailProjection` fails at the first query, as a transaction that fails
later leaves no trace. `SupporterOf` abstracts from the filter by
`supporterId`, email or name, which is not an equivalence: a support with an
account and one without may be the same supporter to one of the two projections
and not to the other.

### Sessions

Every query of `auth.service.ts` is a step. Only `resetPassword` uses a
transaction. `gen` and `overtaken` of a row are history: the password the
session goes back to, and whether the call that created it was already past its
last look at a session when a new password revoked all of them. Tokens are
reused once nobody knows them. Expiry is not a variable: an expired session or
link may be dropped at any time (`DropSession`, `DropLink`). Registration is a
login for a user without sessions; account deletion is left out.

### FinancialAccounts

Accounts are numbered in the order of creation, which is the order `remove` asks
for when it looks for the next default. Of `update` only the choice of a default
matters; names, numbers and their encryption are left out. A request may commit
after the removal of its account has, which Postgres can refuse because of the
foreign key: an over-approximation. `raced` and `late` are
history: they say that a default or a withdrawal was given an account whose
removal had passed its own check.

## 3. Runs

| run | instance | shows |
|---|---|---|
| `ledger` | 2 creators, 3 supports, 2 withdrawals, 2 admins, 1 key, amounts 0..2, minimum 1, 2 runs of the job, 1 wallet checked; 618 680 states | `TypeOK`, `Reconciled`, `PostingsMatchRows`, `TwoAdminsPerPayout`, `OneWithdrawalPerKey`, `BalancesMatchRows`, `MoneyIsConserved`, `OneAlarmPerRun`, `FinalIsFinal`, `KeepsLedgerContract`, `AlarmsNeedMovement` |
| `payment_race` | 2 supports of 2 users for 1 copy of a reward, 2 calls at any time, 1 crash; 1 872 472 states | `PaymentTypeOK`, `CreditsAreBacked`, `EffectsMatchCredit`, `RewardsAreLimited`, `PaymentRowsAgree`, `AnswersAreTrue`, `ProcessedIsDecided`, `KeepsContract` |
| `payment_twice` | the same user twice, 2 copies; 953 998 states | `RewardsAreLimited` |
| `payment_live` | 1 support with a vote, 2 calls at any time, 1 crash; 14 188 states | `EffectsMatchCredit`, `FailureIsTrue`, `DecidedOnce`, `EveryCallAnswers`, `CreditIsReleased` |
| `payment_stale` | as `payment_race` without rewards and crashes | violation of `CompletedNeverFails` |
| `payment_routes` | routes as declared | violation of `WebhookReachesHandler` |
| `requests` | 1 creator, 1 support, 2 withdrawals, 2 admins, 1 key, 2 transactions at a time, 2 attempts; 458 374 states | `DecisionsHold`, `EveryRequestIsAnswered` |
| `outbox` | 2 supports of one fan, 1 message followed, 2 runs, badge for 2 supports, 1 support that may be overwritten, claims that lapse after a tick, runs of up to a tick; 284 451 states | `ProjectedOnce`, `BadgesAreEarned`, `NeverOvercounted`, `KeepsOutboxContract` |
| `sessions` | 2 calls, cap 2, 2 new passwords, 2 reset links; 2 579 699 states | `SessionsTypeOK`, `SessionsBounded`, `TokenExchangedOnce`, `SurvivorsWereOvertaken`, `EvictsOldest`, `StaleLinksFail` |
| `sessions_cap` | the same | violation of `SessionCap` |
| `accounts` | 2 calls, cap 2, 4 accounts ever created, 1 withdrawal; 516 636 states | `AccountsBounded`, `DefaultIsActive`, `PayoutAccountStays` |
| `accounts_removed` | the same | violation of `NoRemovalWithPendingWithdrawals` |

Why the bounds are enough. *ledger*: one captured support is too little for the
larger withdrawal and two suffice, so a request succeeds, is refused and races
another; two withdrawals share a key or a creator; two admins are the least that
can finalize and the policy distinguishes no more; a second creator shows that
wallets do not interfere; the amount 0 is there for the minimum. Withdrawals and
admins are symmetric, and so are the two runs of the job, which may both count
no alert before either writes one; they check one of the two wallets, since what
a run does with one wallet does not depend on another, and
`AlarmsAreBounded` covers any number of runs and wallets. *payment*: the
transactions touch one support and its reward, so two calls are what a race
needs, and two supports what a race for a reward needs; a third call can only
do again what one of two does. Calls are reused without bound, so deliveries
repeat without bound. `MaxCrashes` bounds crashes, since infinitely many would
leave every call without an answer. In `payment_race` the calls are not declared symmetric
because a temporal property is checked. `payment_live` has one support, since
its properties are about one payment, and a vote instead of a reward, since
`payment_race` has the reward. *requests*: one support pays for one of
two withdrawals, so requests compete for money, for the key, and with the
settlement; two transactions are what a conflict needs, and two attempts are
enough to come back with a new snapshot and to give up; the theorems hold for any numbers.
*outbox*: two supports of one fan are the least that make the counts, the badge
and the order of two projections matter; with one tick a run can outlast a claim
that was taken after it started or before, and two runs can hold one event; the
first of the supports may be overwritten, before, between or after the counts of
the second.
*sessions*, *accounts*: a cap of two lets the oldest differ from the newest; two
calls race; two passwords let a session be one behind and a revocation overtake
another; `MCTokens` has enough tokens that a fresh one always exists.
In the outbox the system may stop: every support is completed and projected.

Fairness (`PaymentFairness`) is weak throughout: the event loop runs the next
step of a call that has arrived, and an hourly cron settles. Nothing is assumed
of who asks again. The return page gives up after three retries
(`PaymentSuccessPage.tsx:18-25`), a webhook that failed once is refused for ever,
and no job of the backend looks for pending payments; so that captured money is
credited in the end cannot be promised and no property says it.
`CreditIsReleased` begins where the backend's own duty does, at the credit.

Fairness of the outbox: weak for a run's steps and strong for starting one (the
cron starts a run each minute), strong for time; crashes end at some
point; and no event fails for ever: after some time no run fails at it, which is
an assumption about Telegram, the database and the name a supporter gave, and no
stronger than that some attempt of many succeeds, for an event needs one success
only. Without it the job keeps trying, for there is no limit on attempts.
`TxnFairness` is weak: a server that has begun a request goes on with it; the
number of attempts does the rest.

## 4. What the runs found

* **`payment_stale`.** `markPaymentFailed` checks the transition with a status
  that was read before the provider was asked, and updates unconditionally. A
  verification that was told "pending" can overwrite a support that another call
  has completed and credited. The support then is FAILED and is never settled:
  the creator's pending balance keeps the amount for good. The table in
  `support-transition.service.ts:6` allows COMPLETED only to become REFUNDED.
  The opposite order, FAILED overwritten by COMPLETED, happens the same way and
  has no step in the code that would repair it. `DecidedOnce` shows that both
  need a call that took a pending payment for a failed one (`MarkedEarly`).
* **`payment_routes`.** `POST /supports/:slug` is declared before
  `POST /supports/webhook` and takes its requests. Only the return page can
  complete a payment.
* **`sessions_cap`.** `issueTokens` counts, deletes one session if there are
  `MAX_SESSIONS`, and creates the next, in separate queries. Logins that count
  before others create exceed the cap of the comment in `auth.service.ts:587`.
  With n overlapping calls the excess is at most n - 1 (`SessionsBounded`), but it
  does not go away: a later login evicts one and creates one.
* **`accounts_removed`.** `remove` counts open withdrawals before its transaction
  and does not look again, and `requestWithdrawal` relies on a snapshot in which
  the account is active. Both succeed and the withdrawal is to be paid to an
  account that has been removed, against `financial-account.service.ts:184`.
  `PayoutAccountStays` shows that this race is the only way.

Texts that claim more than the code does, where a passing run shows how much it
does:

* "revoke all sessions so user must re-login" (`auth.service.ts:425`) and "Revoke
  all active sessions so attacker sessions are killed" (`auth.service.ts:558`): a
  login, or a refresh past its rotation, that has checked its credentials before
  the password changes creates its session after it. `SurvivorsWereOvertaken`
  says that only these survive.
* "Maximum of ... accounts allowed" (`financial-account.service.ts:102`): requests
  that count before others create exceed it. `AccountsBounded` says by how many.

Seen while modelling, and not contradicted by any text of the repository:
two supports of one fan that are both completed before either is projected see
each other as the previous one, and the fan is never counted in
`totalSupporters`; `totalSupports` is counted anew by each projection before it
locks the profile, so a projection that counted earlier and commits later sets
it back until the next one (`NeverOvercounted` bounds both from above: nobody is
counted twice but for supports that were overwritten, and no more supports than
were paid); an event whose supporter left the name empty, which the API accepts
though the web page does not, fails at every run and is tried for ever; a refresh
that fails between deleting its session and creating the
next logs the user out; the default account can be one that was removed; a
reconciliation alarm can be false when money moves between its queries, and
overlapping runs each write one; a
status other than success, a pending one included, fails the support for good;
a webhook whose first processing failed is refused for ever, and if the
supporter does not come back, captured money stays uncredited; a supporter whose
reward ran out between checkout and payment has paid, gets an error at every
verification, and is neither credited nor refunded. Read and not modelled:
`trackDeepLinkVisit` catches the unique-key error of a returning visitor inside
its transaction, which Postgres has aborted by then, so the click it has counted
is rolled back.

## 5. Proofs

All theorems hold for every value of the constants that satisfies the module's
assumptions (`LedgerAssumption`, `PaymentAssumption`, ...: amounts are natural
numbers, every support has a creator, the null values are not values; there are
finitely many creators). Those
that count rows also assume that the set they count in is finite, and say so.

**Ledger** (`LedgerProofs`)

| theorem | states |
|---|---|
| `TypeCorrect` | `Spec => []TypeOK` |
| `LedgerReconciled` | `Spec => []Reconciled` |
| `PostingsOnce` | `Spec => []PostingsMatchRows` |
| `MakerCheckerHolds` | `Spec => []TwoAdminsPerPayout` |
| `RetriesAreSafe` | `Spec => []OneWithdrawalPerKey` |
| `FinalityHolds` | `Spec => FinalIsFinal` |
| `BalancesFollowRows` | `Spec => []BalancesMatchRows` |
| `FundsAreNeverMissing` | `Spec => []FundsAreThere`: what a finalized withdrawal or a settlement takes from a balance is in it, so these two guards of the code never refuse |
| `ConservationHolds` | `Spec => []MoneyIsConserved` |
| `WalletsFollowRows` | `Spec => []AvailableMatchesRows`: with the locked and pending balances, the available one is a function of the support and withdrawal rows |
| `LedgerKeepsContract` | `Spec => KeepsLedgerContract`, the contract under the mapping `Promise` |

The first six are inductions with `TypeOK` as the strengthening: the property is not
inductive alone because nothing would keep balances numbers or rows records.
The argument for `Reconciled` is `WalletStep`: every transaction computes the
new balances and the new entry sums by the same function from states that are
equal, and then copies the balances; `MoveProperties` and `AddProperties` bound
the result from below by the guard. `FinalityHolds` also needs
`PostingsMatchRows`: a settled support has been applied, so completing it again,
which would reset its settlement, is not enabled.

The next four are about sums over the rows of one creator. The sets of supports
and withdrawals may be infinite, since they stand for identifiers; the rows that
exist are not, which is the strengthening `FiniteRows`, and an assumption,
`FinitelyManyCreators`, is needed to add up the whole book. The sums
(`SumFunctionOnSet`, a fold) have no induction theorem to rest on, for those of
the library take an operator; `SumTheorems` argues by a smallest
counterexample instead, which is a set: `SumUnfolds` first, by showing that a
function that satisfies the fold's equation exists on the subsets of a finite
set; then that any element may be taken out first (`SumWithout`), and from
there all others. `RowsOfRequest`, `RowsOfChange` and `UnsettledFollow` say
which rows enter or leave a sum, `WalletAfterMove` and `WalletAfterAdd` what the
same transaction does to the balances; each action then changes both sides of
the equation by the same amount. `FundsAreThere` is not inductive; it holds
because a sum of natural numbers is no less than any of them.

`LedgerKeepsContract` has one lemma per kind of transaction
(`CaptureCredits`, `SettlementReleases`, `RequestIsUnseen`, `CompletionPays`,
`RejectionRefuses`, `OthersAreUnseen`). It needs `PostingsMatchRows`, because
completing a support writes its settlement status again, which must not take
back a release, and `Reconciled`, because a payout is covered by what is owed
only if the available balance is not negative.

**Payment** (`PaymentProofs`)

| theorem | states |
|---|---|
| `PaymentsImplementLedger` | `PaymentSpec => Spec` of `Ledger`: the theorems above hold of payments too |
| `PaymentsKeepTheBooks` | four of them, spelled out: `BalancesMatchRows`, `MoneyIsConserved`, `FundsAreThere`, `KeepsLedgerContract` |
| `EarningsBacked` | `EarningsAreBacked`: what a creator earned is the net amount of supports the provider took the money for |
| `CreditsBacked`, `RowsAgree`, `AnswersTrue`, `ProcessedDecided` | `CreditsAreBacked`, `PaymentRowsAgree`, `AnswersAreTrue`, `ProcessedIsDecided` |
| `EffectsMatch`, `RewardsLimited` | `EffectsMatchCredit`, `RewardsAreLimited`, for finitely many supports |
| `PaymentTyping` | `PaymentTypeOK`, for finitely many supports |
| `PaymentsKeepContract` | `PaymentSpec => ContractSpec` under the mapping `Contract`, for finitely many supports |
| `FailuresAreTrue`, `OutcomesAreFinal` | `FailureIsTrue`, `DecidedOnce`, with calls at any time |

A call decides on copies that may be stale, so what the properties say of rows
is not inductive: nothing in the rows tells what a call is about to do. The
invariant `PayInv` adds `CallTrue`: whatever a call has read and is going to act
on or answer is *still* backed by the rows. That survives the steps of all
others because of `Monotone`, which every step satisfies (`StepIsMonotone`): a
support never becomes pending again, is never un-applied, a mark as failed is
never forgotten, and the provider does not take a decision back. A status itself
may change, which is why `CallTrue` speaks of "not pending" and "has been
marked" (`Marked`) and never of "is failed". It also says that a call about to
mark with the report of a failure has a payment that failed, so what is marked
with that report was never paid (`RowsTrue`), and a credited payment that is
marked was marked early. `EffectsInv` holds the counts: the claimed count of a
reward and the votes of an option equal the rows, by `CountOneMore` and the fact
that one action alone delivers (`OnlyApplyPaymentDelivers`). The contract takes
one step with `ApplyPayment`, `Settle` or `ProviderDecides` and stutters with
all others (`OtherStepsStutter`). `OutcomeStep` looks at the two actions that
write a status: a call with the report of a failure finds no completed support,
one with the report of a success no failed one, unless a mark was made too
early. Nothing is assumed of when calls come; `payment_stale` shows that the
exception is needed.

**Transactions** (`TransactionsProofs`)

| theorem | states |
|---|---|
| `TransactionsImplementLedger` | `TxnSpec => Spec` of `Ledger`: snapshots, conflicts and retries do nothing that one action at a time does not do |
| `SnapshotsKeepTheBooks` | `BalancesMatchRows`, `MoneyIsConserved`, `FundsAreThere`, `KeepsLedgerContract` beside them |
| `DecisionsStand` | `DecisionsHold` |

For each open transaction, either it is stale or the rows its decision was made
on are as in its snapshot. `TouchesOnly` says which rows an action of `Ledger`
may change, one lemma per action; a commit that touches a row another
transaction depends on makes that one stale. What is not among the protected
rows, the idempotency key and the audit log, is shown to follow from those that
are.

**Reconciliation** (`ReconciliationProofs`)

| theorem | states |
|---|---|
| `ReconciliationImplementsLedger` | `ReconSpec => Spec` of `Ledger` |
| `NoFalseAlarmAtRest` | `AlarmsNeedMovement` |
| `AlarmsAreBounded` | `OneAlarmPerRun`, for finitely many runs of the job |

`JobInv` takes `Reconciled` over from `Ledger` and adds that a wallet nothing
moved since the first query has nothing to report; the second theorem counts the
alerts written against the runs that have counted none.

**Outbox** (`OutboxProofs`)

| theorem | states |
|---|---|
| `ProjectionsHappenOnce` | `ProjectedOnce` |
| `BadgesFollowSupports` | `BadgesAreEarned` |
| `StatisticsAreBounded` | `NeverOvercounted` |
| `OutboxImplementsContract` | `Spec => Contract!Init /\ [][Contract!Next]_(Contract!vars)`, the safety part of `KeepsOutboxContract` |

`Locked` says that the claim works as a lock while a projection runs: its event
is pending, its claim is fresh and no other run holds the event. It rests on
`Tick`, that is, on a projection being shorter than the five minutes of a claim
(Prisma ends its transaction after seven seconds); nothing is assumed of how
claims lapse while a message is being sent. The numbers a projection writes were
read earlier, so each property needs to know what a read can still be worth:
`CountsAreTrue` bounds it from above; `BadgesAreNotForgotten` says that of
a supporter without a badge too few completed supports are `Spent`, that is,
projected or being projected with a count too low to earn it: so of enough
supports one can still bring the badge; `CountedOnce` weighs the counter
against the supporters seen, without those a run is about to count as new, and
the projected supports that are `Gone`, since after those have been overwritten
their supporter looks new again.
`QuietLemma` leaves three kinds of steps to look at.

**Sessions** (`SessionsProofs`) and **FinancialAccounts** (`AccountsProofs`)

| theorem | states |
|---|---|
| `SessionsTyping` | `SessionsTypeOK` |
| `SessionsStayBounded` | `SessionsBounded`, for finitely many calls |
| `TokensExchangedOnce`, `RevocationsReach` | `TokenExchangedOnce`, `SurvivorsWereOvertaken` |
| `LinksServeOnce`, `OldestGoesFirst` | `StaleLinksFail`, `EvictsOldest` |
| `AccountsStayBounded` | `AccountsBounded`, for finitely many calls and at least one |
| `DefaultStaysActive` | `DefaultIsActive` |
| `PayoutsKeepAccounts` | `PayoutAccountStays` |

Both caps are checked in one query and used up in another. The strengthening
`RoomReserved` counts a call that has passed the check as if its row were there;
the check gives at most as many places away as there are calls. `CallKnows` says
what a session call has read that nothing done by others can undo: rows only go
away, a new one never has a token somebody knows (`RowsLemma`), and a revocation
marks every call it comes too late for (`BystanderLemma`). `DefaultKept`
and `PayoutKept` strengthen the other two: as long as nobody raced, no call is
about to remove the default without knowing that it is the default, and none
that has counted is about to remove the account of an open withdrawal.

Every invariant the passing runs check is proved. Only model-checked:
`CompletedNeverFails` and the other violations; liveness and fairness, which the
prover does not handle: `EveryCallAnswers`, `CreditIsReleased`,
`EveryRequestIsAnswered`, and the part of `KeepsOutboxContract` that is about
the end.

## 6. Plan

Done, in this order: `Ledger` and `Payment` with their proofs; `Outbox` and its
contract; `Transactions`; `FinancialAccounts`; `Sessions`; `Reconciliation`; the
proofs of section 5. Left:

1. The batch of the settlement job: whether supports that fail every hour keep
   the others from being settled.
2. `CreatorPages`: slugs chosen by two users at once, visits counted in a
   transaction that has failed.
3. What follows from the contracts alone, in TLAPS.

## 7. Not modelled

* The generated Prisma client, `src/api/generated`: most of the repository's
  lines. It is generated from the schema; what the code relies on, unique
  indexes, transactions and conditional updates, is in the actions that use it.
* Fees: computed in floating point, which TLA+ does not have; both amounts are
  rounded to cents, and in cents they add up by construction.
* Listings, metrics and dashboards of `wallet.service.ts`, `creator.service.ts`
  and `notification.service.ts`: reads, and single updates of a flag.
* Creator profiles, slugs, polls, campaigns and visits, beyond what a projection
  or a payment writes to them: one row at a time, settled by a unique index.
* Limits of batches (50 events, 100 supports, 200 wallets) and their order; the
  difference between the order of `createdAt` and that of commits.
* Of authentication: registration beyond its session, Telegram's signature,
  expiry times, account deletion.
* Encryption of account numbers, request filtering, CSRF, guards, cookies,
  start-up, Telegram's API and the web client's pages: wording, layout and
  input/output, with no state that two actors share.
* `support-state.service.ts`, an older copy of the transition service that
  nothing imports.
