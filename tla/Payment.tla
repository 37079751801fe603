------------------------------ MODULE Payment ------------------------------
(***************************************************************************)
(* The life of a payment between the transactions of Ledger: checkout, the *)
(* provider's answer, and the two calls that may complete a support, the   *)
(* provider's webhook and the supporter's verification of the return URL.  *)
(*                                                                         *)
(* A call is a process.  Each of its steps is one await of the code: a     *)
(* query, a request to the provider or a transaction.  What a call has     *)
(* read stays in its record and may be stale when it is used.  A call can  *)
(* die between any two steps.                                              *)
(***************************************************************************)
EXTENDS Ledger, FiniteSets

CONSTANTS
  Calls,        \* requests being served, reused once answered
  NoSupport,    \* the support of a call that never ran
  Rewards, NoReward, RewardOf,   \* the reward a support buys, if any
  MaxQuantity,  \* how often a reward may be claimed
  Options, NoOption, OptionOf,   \* the poll option a support votes for, if any
  Supporter,    \* the user who pays
  Routes,       \* POST routes under /supports in the order of declaration
  MaxCrashes    \* bound on the number of calls that die

ASSUME PaymentAssumption ==
  /\ NoSupport \notin Supports
  /\ NoReward \notin Rewards
  /\ NoOption \notin Options
  /\ RewardOf \in [Supports -> Rewards \cup {NoReward}]
  /\ OptionOf \in [Supports -> Options \cup {NoOption}]
  /\ \A s \in Supports : RewardOf[s] = NoReward \/ OptionOf[s] = NoOption
  /\ MaxQuantity \in [Rewards -> Nat]
  /\ MaxCrashes \in Nat

VARIABLES
  checkout,      \* progress of SupportService.initiate for each support
  provider,      \* what has become of the payment at the provider
  intent,        \* status of the payment intent and of its attempt
  providerTxn,   \* paymentProviderTransaction of the attempt
  marked,        \* history: with which reports of the provider supports have
                 \* been marked as failed
  webhookEvent,  \* the webhookEvent row of the payment
  claimedCount,  \* reward.claimedCount
  unlocked,      \* supports that have an unlockedReward row
  votes,         \* pollOption.votes
  paidVotes,     \* supports that have a paidVote row
  outbox,        \* supportEventOutbox rows
  call,          \* what each call has read and where it is
  crashes        \* number of calls that have died

ledgerVars == vars
effectVars == <<claimedCount, unlocked, votes, paidVotes, outbox>>
rowVars    == <<intent, providerTxn, marked>>
payVars    == <<ledgerVars, effectVars, rowVars, checkout, provider,
                webhookEvent, call, crashes>>

EventTypes == {"PROJECTIONS", "TELEGRAM"}

Fresh == [pc |-> "idle", kind |-> "none", s |-> NoSupport,
          status |-> "PENDING", applied |-> FALSE, intent |-> "PENDING",
          report |-> "none", result |-> "none"]

PaymentInit ==
  /\ Init
  /\ checkout     = [s \in Supports |-> "none"]
  /\ provider     = [s \in Supports |-> "pending"]
  /\ intent       = [s \in Supports |-> "PENDING"]
  /\ providerTxn  = [s \in Supports |-> "NONE"]
  /\ marked       = {}
  /\ webhookEvent = [s \in Supports |-> "none"]
  /\ claimedCount = [r \in Rewards |-> 0]
  /\ unlocked     = {}
  /\ votes        = [o \in Options |-> 0]
  /\ paidVotes    = {}
  /\ outbox       = {}
  /\ call         = [p \in Calls |-> Fresh]
  /\ crashes      = 0

-----------------------------------------------------------------------------
(* Checkout. *)

\* The user of a support already owns its reward.
AlreadyUnlocked(s) ==
  \E t \in unlocked : RewardOf[t] = RewardOf[s] /\ Supporter[t] = Supporter[s]

\* Faulty variant: the supply is not looked at again.
RewardAvailable_CheckedAtCheckout(s) ==
  RewardOf[s] # NoReward => ~AlreadyUnlocked(s)

\* Faulty variant: only the supply is looked at.
RewardAvailable_Repeatedly(s) ==
  RewardOf[s] # NoReward =>
    claimedCount[RewardOf[s]] < MaxQuantity[RewardOf[s]]

\* Supply is left and the user does not own the reward yet.  Checkout reads it
\* to refuse early; the transaction of the payment enforces it with a
\* conditional update and a unique index.
RewardAvailable(s) ==
  RewardOf[s] # NoReward =>
    /\ claimedCount[RewardOf[s]] < MaxQuantity[RewardOf[s]]
    /\ ~AlreadyUnlocked(s)

\* initiate: the checks of prepareInitiationContext, then the request that
\* opens a checkout at the provider.
Initiate(s) ==
  /\ checkout[s] = "none"
  /\ RewardAvailable(s)
  /\ checkout' = [checkout EXCEPT ![s] = "opening"]
  /\ UNCHANGED <<ledgerVars, effectVars, rowVars, provider, webhookEvent,
                 call, crashes>>

\* The row is created before the supporter is told where to pay.
CreateSupport(s) ==
  /\ checkout[s] = "opening"
  /\ checkout' = [checkout EXCEPT ![s] = "open"]
  /\ UNCHANGED <<ledgerVars, effectVars, rowVars, provider, webhookEvent,
                 call, crashes>>

\* The provider refuses the checkout or the server dies before the row is
\* created: nobody has been sent to pay.
AbandonCheckout(s) ==
  /\ checkout[s] = "opening"
  /\ checkout' = [checkout EXCEPT ![s] = "none"]
  /\ UNCHANGED <<ledgerVars, effectVars, rowVars, provider, webhookEvent,
                 call, crashes>>

\* At the provider, the supporter pays or the payment fails; "mismatch" is a
\* payment that is reported with another amount or currency.
ProviderDecides(s) ==
  /\ checkout[s] = "open"
  /\ provider[s] = "pending"
  /\ \E outcome \in {"success", "mismatch", "failed"} :
       provider' = [provider EXCEPT ![s] = outcome]
  /\ UNCHANGED <<ledgerVars, effectVars, rowVars, checkout, webhookEvent,
                 call, crashes>>

-----------------------------------------------------------------------------
(* Calls: arrival and answer. *)

\* The handler is the first declared route that matches the path.
Matches(route, path) == route \in {path, ":slug"}
Handler(path) == SelectSeq(Routes, LAMBDA r : Matches(r, path))[1]

Answered(p, r) == [call EXCEPT ![p] = [Fresh EXCEPT !.kind   = call[p].kind,
                                                    !.s      = call[p].s,
                                                    !.result = r]]

Goto(p, pc) == [call EXCEPT ![p].pc = pc]

\* processPayment returns: a webhook still has to be marked as processed.
Returned(p, r) ==
  IF call[p].kind = "webhook"
    THEN [call EXCEPT ![p].pc = "finish", ![p].result = r]
    ELSE Answered(p, r)

\* processPayment throws: the caller sees an error.  That handleWebhook stores
\* the message in the event row is left out.
Thrown(p) == Answered(p, "error")

\* A step of call p that only reads.
Reads(p, next) ==
  /\ call' = next
  /\ UNCHANGED <<ledgerVars, effectVars, rowVars, checkout, provider,
                 webhookEvent, crashes>>

\* GET /supports/verify/:txRef is open to everybody at any time, also before
\* the provider has decided.
Verify(p, s) ==
  /\ call[p].pc = "idle"
  /\ checkout[s] = "open"
  /\ Reads(p, [call EXCEPT ![p] = [Fresh EXCEPT !.pc   = "lookup",
                                                !.kind = "verify",
                                                !.s    = s]])

\* POST /supports/webhook, correctly signed.  The provider calls once it has
\* decided, and may call again.  Any other route validates the body as its own
\* and refuses it.
Webhook(p, s) ==
  /\ call[p].pc = "idle"
  /\ checkout[s] = "open"
  /\ provider[s] # "pending"
  /\ LET c == [Fresh EXCEPT !.kind = "webhook", !.s = s]
     IN  Reads(p, [call EXCEPT ![p] =
                     IF Handler("webhook") = "webhook"
                       THEN [c EXCEPT !.pc = "record"]
                       ELSE [c EXCEPT !.result = "error"]])

-----------------------------------------------------------------------------
(* handleWebhook. *)

\* Faulty variant: the event is born processed.
RecordWebhook_Processed(p) ==
  LET s == call[p].s IN
  /\ call[p].pc = "record"
  /\ IF webhookEvent[s] = "none"
       THEN /\ webhookEvent' = [webhookEvent EXCEPT ![s] = "processed"]
            /\ call' = Goto(p, "load")
       ELSE /\ call' = Goto(p, "recheck")
            /\ UNCHANGED webhookEvent
  /\ UNCHANGED <<ledgerVars, effectVars, rowVars, checkout, provider, crashes>>

\* The event row is created; its unique key detects a repeated delivery.
RecordWebhook(p) ==
  LET s == call[p].s IN
  /\ call[p].pc = "record"
  /\ IF webhookEvent[s] = "none"
       THEN /\ webhookEvent' = [webhookEvent EXCEPT ![s] = "received"]
            /\ call' = Goto(p, "load")
       ELSE /\ call' = Goto(p, "recheck")
            /\ UNCHANGED webhookEvent
  /\ UNCHANGED <<ledgerVars, effectVars, rowVars, checkout, provider, crashes>>

\* Faulty variant: an event that is still unprocessed is waited for.
RecheckWebhook_Waits(p) ==
  /\ call[p].pc = "recheck"
  /\ webhookEvent[call[p].s] = "processed"
  /\ Reads(p, Answered(p, "already_processed"))

\* A repeated delivery is acknowledged if the first was processed to the end;
\* otherwise the unique-key error is thrown.
RecheckWebhook(p) ==
  /\ call[p].pc = "recheck"
  /\ Reads(p, IF webhookEvent[call[p].s] = "processed"
                THEN Answered(p, "already_processed")
                ELSE Thrown(p))

\* processedAt is written in a query of its own, after the payment committed.
FinishWebhook(p) ==
  /\ call[p].pc = "finish"
  /\ webhookEvent' = [webhookEvent EXCEPT ![call[p].s] = "processed"]
  /\ call' = Answered(p, call[p].result)
  /\ UNCHANGED <<ledgerVars, effectVars, rowVars, checkout, provider, crashes>>

-----------------------------------------------------------------------------
(* verifyAndComplete and processPayment. *)

\* verifyAndComplete answers from the row if the support is completed.
LookUp(p) ==
  /\ call[p].pc = "lookup"
  /\ Reads(p, IF support[call[p].s].status = "COMPLETED"
                THEN Answered(p, "completed")
                ELSE Goto(p, "load"))

\* getSupportForPayment fetches the support, then the rows it includes.
LoadSupport(p) ==
  /\ call[p].pc = "load"
  /\ LET row == support[call[p].s]
     IN  Reads(p, [call EXCEPT ![p].pc      = "loadIntent",
                               ![p].status  = row.status,
                               ![p].applied = row.applied])

LoadIntent(p) ==
  /\ call[p].pc = "loadIntent"
  /\ Reads(p, CASE call[p].status = "FAILED" -> Returned(p, "failed")
                [] call[p].status # "FAILED" /\ call[p].applied ->
                     Returned(p, "already_completed")
                [] OTHER -> [call EXCEPT ![p].pc     = "ask",
                                         ![p].intent = intent[call[p].s]])

\* Faulty variant: the reported amount is not compared.
Verdict_AnyAmount(s) ==
  IF provider[s] \in {"success", "mismatch"} THEN "success" ELSE "not_success"

\* What processPayment makes of the provider's report: any status but success,
\* a pending payment's included, counts as failure.
Verdict(s) ==
  IF provider[s] \in {"success", "mismatch"} THEN provider[s] ELSE "not_success"

\* The provider answers.  A support or an intent that was read as failed is
\* not marked again.
ChapaAnswers(p) ==
  /\ call[p].pc = "ask"
  /\ Reads(p, CASE Verdict(call[p].s) = "success"  -> Goto(p, "apply")
                [] Verdict(call[p].s) = "mismatch" -> Thrown(p)
                [] OTHER -> IF "FAILED" \in {call[p].status, call[p].intent}
                              THEN Returned(p, "failed")
                              ELSE [call EXCEPT ![p].pc     = "fail",
                                                ![p].report = provider[call[p].s]])

\* Faulty variant: an unreachable provider is taken for a refusal.
ChapaUnavailable_Fails(p) ==
  /\ call[p].pc = "ask"
  /\ Reads(p, Goto(p, "fail"))

\* The provider cannot be reached or knows of no payment.
ChapaUnavailable(p) ==
  /\ call[p].pc = "ask"
  /\ Reads(p, Thrown(p))

\* SUPPORT_PAYMENT_TRANSITIONS, asked with the statuses the call has read.
PaymentTransitions == [PENDING   |-> {"COMPLETED", "FAILED", "REFUNDED"},
                       COMPLETED |-> {"REFUNDED"},
                       FAILED    |-> {}]

TransitionAllowed(p, next) ==
  /\ next \in PaymentTransitions[call[p].status]
  /\ next \in PaymentTransitions[call[p].intent]

-----------------------------------------------------------------------------
(* The transactions of a payment. *)

\* Faulty variant: only a pending intent is updated.
SetIntent_IfPending(s, status) ==
  intent' = [intent EXCEPT ![s] = IF @ = "PENDING" THEN status ELSE @]

SetIntent(s, status) == intent' = [intent EXCEPT ![s] = status]

\* Faulty variant: the intent's status is written for the transaction's own.
RecordProviderTransaction_IntentStatus(s, status) ==
  providerTxn' = [providerTxn EXCEPT ![s] =
                    IF status = "SUCCESS" THEN "COMPLETED" ELSE status]

RecordProviderTransaction(s, status) ==
  providerTxn' = [providerTxn EXCEPT ![s] = status]

\* applyRewardEntitlements: claim, unlock, then recount.
UnlockReward(s) ==
  LET r == RewardOf[s] IN
  IF r = NoReward
    THEN UNCHANGED <<claimedCount, unlocked>>
    ELSE /\ unlocked'     = unlocked \cup {s}
         /\ claimedCount' = [claimedCount EXCEPT ![r] =
                               Cardinality({t \in unlocked' : RewardOf[t] = r})]

\* recordPaidVote
RecordVote(s) ==
  LET o == OptionOf[s] IN
  IF o = NoOption
    THEN UNCHANGED <<votes, paidVotes>>
    ELSE /\ s \notin paidVotes
         /\ votes'     = [votes EXCEPT ![o] = @ + 1]
         /\ paidVotes' = paidVotes \cup {s}

\* Faulty variant: the events are left to be sent after the commit.
EnqueueCompleted_Later(s) == s \in Supports /\ UNCHANGED outbox

\* enqueuePaymentCompleted
EnqueueCompleted(s) == outbox' = outbox \cup ({s} \X EventTypes)

\* applyCompletedPayment commits.
ApplyPayment(p) ==
  LET s == call[p].s IN
  /\ call[p].pc = "apply"
  /\ TransitionAllowed(p, "COMPLETED")
  /\ RewardAvailable(s)
  /\ CompletePayment(s)
  /\ SetIntent(s, "COMPLETED")
  /\ UnlockReward(s)
  /\ RecordVote(s)
  /\ RecordProviderTransaction(s, "SUCCESS")
  /\ EnqueueCompleted(s)
  /\ call' = Returned(p, "completed")
  /\ UNCHANGED <<checkout, provider, webhookEvent, marked, crashes>>

\* The conditional update finds paymentAppliedAt set: nothing else is done.
AlreadyApplied(p) ==
  /\ call[p].pc = "apply"
  /\ TransitionAllowed(p, "COMPLETED")
  /\ support[call[p].s].applied
  /\ Reads(p, Returned(p, "already_completed"))

\* Faulty variant: the conflict is taken for a concurrent completion.
RewardRefused_AsDone(p) ==
  /\ call[p].pc = "apply"
  /\ TransitionAllowed(p, "COMPLETED")
  /\ ~support[call[p].s].applied
  /\ ~RewardAvailable(call[p].s)
  /\ Reads(p, Returned(p, "already_completed"))

\* The reward sold out, or the user bought it in another support, since
\* checkout: the transaction rolls back.
RewardRefused(p) ==
  /\ call[p].pc = "apply"
  /\ TransitionAllowed(p, "COMPLETED")
  /\ ~support[call[p].s].applied
  /\ ~RewardAvailable(call[p].s)
  /\ Reads(p, Thrown(p))

\* markPaymentFailed commits.
MarkFailed(p) ==
  LET s == call[p].s IN
  /\ call[p].pc = "fail"
  /\ TransitionAllowed(p, "FAILED")
  /\ MarkPaymentFailed(s)
  /\ SetIntent(s, "FAILED")
  /\ RecordProviderTransaction(s, "FAILED")
  /\ marked' = marked \cup {<<s, call[p].report>>}
  /\ call' = Returned(p, "failed")
  /\ UNCHANGED <<effectVars, checkout, provider, webhookEvent, crashes>>

\* assertTransition throws, because the intent was decided between the two
\* queries that read the support and the intent.
TransitionRefused(p) ==
  /\ \/ call[p].pc = "apply" /\ ~TransitionAllowed(p, "COMPLETED")
     \/ call[p].pc = "fail"  /\ ~TransitionAllowed(p, "FAILED")
  /\ Reads(p, Thrown(p))

-----------------------------------------------------------------------------

\* The call dies: server restart, lost connection.
Crash(p) ==
  /\ call[p].pc # "idle"
  /\ crashes < MaxCrashes
  /\ crashes' = crashes + 1
  /\ call' = Answered(p, "none")
  /\ UNCHANGED <<ledgerVars, effectVars, rowVars, checkout, provider,
                 webhookEvent>>

\* releaseMaturedSupports
Settle(s) ==
  /\ SettleSupport(s)
  /\ UNCHANGED <<effectVars, rowVars, checkout, provider, webhookEvent, call,
                 crashes>>

\* What a call that has arrived does by itself.
CallStep(p) ==
  \/ RecordWebhook(p) \/ RecheckWebhook(p) \/ FinishWebhook(p)
  \/ LookUp(p) \/ LoadSupport(p) \/ LoadIntent(p)
  \/ ChapaAnswers(p) \/ ChapaUnavailable(p)
  \/ ApplyPayment(p) \/ AlreadyApplied(p) \/ RewardRefused(p)
  \/ MarkFailed(p) \/ TransitionRefused(p)

PaymentNext ==
  \/ \E s \in Supports : \/ Initiate(s)
                         \/ CreateSupport(s)
                         \/ AbandonCheckout(s)
                         \/ ProviderDecides(s)
                         \/ Settle(s)
  \/ \E p \in Calls, s \in Supports : Verify(p, s) \/ Webhook(p, s)
  \/ \E p \in Calls : CallStep(p) \/ Crash(p)

PaymentSpec == PaymentInit /\ [][PaymentNext]_payVars

\* The server runs what it has started, and the hourly job.  Nobody is assumed
\* to ask again: the return page gives up after three retries, the provider's
\* next delivery may be refused, and no job looks for pending payments.
PaymentFairness ==
  /\ \A p \in Calls : WF_payVars(CallStep(p))
  /\ \A s \in Supports : WF_payVars(Settle(s))

FairPaymentSpec == PaymentSpec /\ PaymentFairness
-----------------------------------------------------------------------------
(* Properties. *)

CallTypeOK ==
  call \in [Calls -> [pc      : {"idle", "record", "recheck", "lookup", "load",
                                 "loadIntent", "ask", "apply", "fail", "finish"},
                      kind    : {"none", "verify", "webhook"},
                      s       : Supports \cup {NoSupport},
                      status  : PaymentStatus,
                      applied : BOOLEAN,
                      intent  : PaymentStatus,
                      report  : {"none", "pending", "failed"},
                      result  : {"none", "completed", "already_completed",
                                 "already_processed", "failed", "error"}]]

\* The shape of the rows, and that a running call has a support.
PaymentTypeOK ==
  /\ TypeOK
  /\ checkout     \in [Supports -> {"none", "opening", "open"}]
  /\ provider     \in [Supports -> {"pending", "success", "mismatch", "failed"}]
  /\ intent       \in [Supports -> PaymentStatus]
  /\ providerTxn  \in [Supports -> {"NONE", "SUCCESS", "FAILED"}]
  /\ marked \subseteq Supports \X {"pending", "failed"}
  /\ webhookEvent \in [Supports -> {"none", "received", "processed"}]
  /\ claimedCount \in [Rewards -> Nat]
  /\ votes        \in [Options -> Nat]
  /\ unlocked \subseteq Supports
  /\ paidVotes \subseteq Supports
  /\ outbox \subseteq Supports \X EventTypes
  /\ CallTypeOK
  /\ \A p \in Calls : call[p].pc # "idle" => call[p].s \in Supports
  /\ crashes \in 0..MaxCrashes

\* A creator is only credited for money the provider reported as paid, in the
\* amount and currency the support was created with, however the calls overlap.
CreditsAreBacked ==
  \A s \in Supports :
    support[s].applied => provider[s] = "success"

\* What a payment buys is delivered with the credit and never without it: the
\* reward, the vote and the events for the projections and the Telegram
\* message; and each vote is counted once.
EffectsMatchCredit ==
  /\ unlocked  = {s \in Supports : support[s].applied /\ RewardOf[s] # NoReward}
  /\ paidVotes = {s \in Supports : support[s].applied /\ OptionOf[s] # NoOption}
  /\ outbox    = {s \in Supports : support[s].applied} \X EventTypes
  /\ \A o \in Options :
       votes[o] = Cardinality({s \in paidVotes : OptionOf[s] = o})

\* A reward is never sold more often than its supply, nor twice to one user,
\* although checkout and payment are minutes apart; and the counter the
\* checkout reads is the number of owners.
RewardsAreLimited ==
  /\ \A r \in Rewards :
       LET owners == {s \in unlocked : RewardOf[s] = r}
       IN  /\ claimedCount[r] = Cardinality(owners)
           /\ claimedCount[r] <= MaxQuantity[r]
  /\ \A s, t \in unlocked :
       RewardOf[s] = RewardOf[t] /\ Supporter[s] = Supporter[t] => s = t

\* The three tables that hold the outcome of a payment tell the same story.
PaymentRowsAgree ==
  \A s \in Supports :
    /\ intent[s] = support[s].status
    /\ providerTxn[s] = CASE support[s].status = "PENDING"   -> "NONE"
                          [] support[s].status = "COMPLETED" -> "SUCCESS"
                          [] support[s].status = "FAILED"    -> "FAILED"

\* Some call marked s as failed although the provider had not decided yet.
MarkedEarly(s) == <<s, "pending">> \in marked

\* The supporter is told the payment was made only if the creator was credited,
\* and that it failed only if some call had marked it as failed; that a credited
\* payment failed, only if the mark was set before the provider had decided.
AnswersAreTrue ==
  \A p \in Calls :
    LET s   == call[p].s
        row == support[s]
    IN
    /\ call[p].result \in {"completed", "already_completed"} => row.applied
    /\ call[p].result = "already_processed" => row.status # "PENDING"
    /\ call[p].result = "failed" =>
         /\ \E report \in {"pending", "failed"} : <<s, report>> \in marked
         /\ row.applied => MarkedEarly(s)

\* A webhook is acknowledged for good only after its payment was decided: the
\* provider's next delivery is not dropped before.
ProcessedIsDecided ==
  \A s \in Supports :
    webhookEvent[s] = "processed" => support[s].status # "PENDING"

\* The payments as the contract sees them.
Contract == INSTANCE PaymentContract WITH
  captured <- {s \in Supports : provider[s] = "success"},
  credited <- {s \in Supports : support[s].applied},
  entitled <- unlocked,
  released <- {s \in Supports : support[s].settlement = "AVAILABLE"},
  earned   <- totalEarned

\* Calls, retries and crashes keep the promises of PaymentContract.
KeepsContract == Contract!ContractSpec

CompletedStays(s) ==
  support[s].status = "COMPLETED" => support'[s].status \in {"COMPLETED", "REFUNDED"}
FailedStays(s) == support[s].status = "FAILED" => support'[s].status = "FAILED"

\* The transition table's row for COMPLETED: a completed support can only be
\* refunded.
CompletedNeverFails == [][\A s \in Supports : CompletedStays(s)]_payVars

\* That row, and the one for FAILED, which nothing follows, are broken by one
\* thing only, a call that took a pending payment for a failed one: without it
\* no overlap of calls, retry or crash overwrites an outcome with another.
DecidedOnce ==
  [][\A s \in Supports : \/ CompletedStays(s) /\ FailedStays(s)
                         \/ MarkedEarly(s)']_payVars

\* A support is marked as failed only if the provider reported its payment as
\* failed, or as still pending when it was asked: an unreachable provider, a
\* wrong amount, a crash or a concurrent call never costs a payment.
FailureIsTrue ==
  \A s \in Supports :
    support[s].status = "FAILED" => provider[s] = "failed" \/ MarkedEarly(s)

\* Whoever delivers a webhook is answered by the webhook's handler, which
\* records the event first.
WebhookReachesHandler ==
  \A p \in Calls :
    call[p].kind = "webhook" /\ call[p].result # "none"
      => webhookEvent[call[p].s] # "none"

\* Every call is answered: no combination of a repeated delivery, a concurrent
\* completion and a decided intent leaves a call without a next step.
EveryCallAnswers ==
  \A p \in Calls : call[p].pc # "idle" ~> call[p].pc = "idle"

\* Money that was credited is released: whatever calls are still on their way
\* with what they read before, none of them strands it, unless a pending
\* payment was marked as failed.
CreditIsReleased ==
  \A s \in Supports :
    support[s].applied ~> support[s].settlement = "AVAILABLE" \/ MarkedEarly(s)
=============================================================================
