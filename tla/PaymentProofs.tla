---------------------------- MODULE PaymentProofs ----------------------------
(***************************************************************************)
(* Proofs about Payment for any number of supports, calls, rewards and     *)
(* crashes, any order of the routes, and payments verified at any time.    *)
(***************************************************************************)
EXTENDS Payment, LedgerProofs, FiniteSetTheorems

\* A call that is under way has a support.
RunningHasSupport ==
  \A p \in Calls : call[p].pc # "idle" => call[p].s \in Supports

-----------------------------------------------------------------------------
(* The transactions of a payment are Ledger's. *)

\* Every step of a payment is a transaction of Ledger or leaves the money alone.
LEMMA PaymentStepIsLedgerStep ==
  RunningHasSupport /\ [PaymentNext]_payVars => [Next]_vars
<1> SUFFICES ASSUME RunningHasSupport, [PaymentNext]_payVars
             PROVE  [Next]_vars
  OBVIOUS
<1>1. ASSUME NEW s \in Supports,
             \/ Initiate(s) \/ CreateSupport(s) \/ AbandonCheckout(s)
             \/ ProviderDecides(s)
      PROVE  UNCHANGED vars
  BY <1>1 DEF Initiate, CreateSupport, AbandonCheckout, ProviderDecides,
              ledgerVars
<1>2. ASSUME NEW s \in Supports, Settle(s)
      PROVE  Next
  BY <1>2 DEF Settle, Next
<1>3. ASSUME NEW p \in Calls, NEW next, Reads(p, next)
      PROVE  UNCHANGED vars
  BY <1>3 DEF Reads, ledgerVars
<1>4. ASSUME NEW p \in Calls, NEW s \in Supports, Verify(p, s) \/ Webhook(p, s)
      PROVE  UNCHANGED vars
  BY <1>3, <1>4 DEF Verify, Webhook
<1>5. ASSUME NEW p \in Calls, Crash(p)
      PROVE  UNCHANGED vars
  BY <1>5 DEF Crash, ledgerVars
<1>6. ASSUME NEW p \in Calls, CallStep(p)
      PROVE  [Next]_vars
  <2>1. CASE ApplyPayment(p)
    <3>1. call[p].s \in Supports
      BY <2>1 DEF ApplyPayment, RunningHasSupport
    <3>2. CompletePayment(call[p].s)
      BY <2>1 DEF ApplyPayment
    <3> QED BY <3>1, <3>2 DEF Next
  <2>2. CASE MarkFailed(p)
    <3>1. call[p].s \in Supports
      BY <2>2 DEF MarkFailed, RunningHasSupport
    <3>2. MarkPaymentFailed(call[p].s)
      BY <2>2 DEF MarkFailed
    <3> QED BY <3>1, <3>2 DEF Next
  <2>3. CASE RecordWebhook(p) \/ FinishWebhook(p)
    BY <2>3 DEF RecordWebhook, FinishWebhook, ledgerVars
  <2>4. CASE \/ RecheckWebhook(p) \/ LookUp(p) \/ LoadSupport(p)
             \/ LoadIntent(p) \/ ChapaAnswers(p) \/ ChapaUnavailable(p)
             \/ AlreadyApplied(p) \/ RewardRefused(p) \/ TransitionRefused(p)
    BY <2>4, <1>3 DEF RecheckWebhook, LookUp, LoadSupport, LoadIntent,
                      ChapaAnswers, ChapaUnavailable, AlreadyApplied,
                      RewardRefused, TransitionRefused
  <2> QED BY <1>6, <2>1, <2>2, <2>3, <2>4 DEF CallStep
<1>7. CASE UNCHANGED payVars
  BY <1>7 DEF payVars, ledgerVars
<1> QED
  BY <1>1, <1>2, <1>4, <1>5, <1>6, <1>7 DEF PaymentNext

-----------------------------------------------------------------------------
(* The shape of the rows and of what a call carries along. *)

Pcs == {"idle", "record", "recheck", "lookup", "load", "loadIntent", "ask",
        "apply", "fail", "finish"}
Results == {"none", "completed", "already_completed", "already_processed",
            "failed", "error"}
CallRow == [pc      : Pcs,
            kind    : {"none", "verify", "webhook"},
            s       : Supports \cup {NoSupport},
            status  : PaymentStatus,
            applied : BOOLEAN,
            intent  : PaymentStatus,
            report  : {"none", "pending", "failed"},
            result  : Results]

\* The part of PaymentTypeOK that needs no counting.
RowsOK ==
  /\ TypeOK
  /\ provider     \in [Supports -> {"pending", "success", "mismatch", "failed"}]
  /\ intent       \in [Supports -> PaymentStatus]
  /\ providerTxn  \in [Supports -> {"NONE", "SUCCESS", "FAILED"}]
  /\ webhookEvent \in [Supports -> {"none", "received", "processed"}]
  /\ marked       \subseteq Supports \X {"pending", "failed"}
  /\ call         \in [Calls -> CallRow]

\* A call that has not read anything yet.
LEMMA FreshShape ==
  /\ Fresh \in CallRow
  /\ Fresh.pc = "idle" /\ Fresh.s = NoSupport /\ Fresh.status = "PENDING"
  /\ Fresh.applied = FALSE /\ Fresh.intent = "PENDING" /\ Fresh.result = "none"
  /\ Fresh.kind = "none" /\ Fresh.report = "none"
BY DEF Fresh, CallRow, Pcs, Results, PaymentStatus

\* A call that has answered: nothing is left of what it has read.
LEMMA AnsweredShape ==
  ASSUME call \in [Calls -> CallRow], NEW p \in Calls, NEW r \in Results,
         call' = Answered(p, r)
  PROVE  /\ call' \in [Calls -> CallRow]
         /\ \A q \in Calls \ {p} : call'[q] = call[q]
         /\ call'[p].pc = "idle" /\ call'[p].s = call[p].s
         /\ call'[p].status = "PENDING" /\ call'[p].applied = FALSE
         /\ call'[p].intent = "PENDING" /\ call'[p].result = r
<1> DEFINE row == [Fresh EXCEPT !.kind = call[p].kind, !.s = call[p].s,
                                !.result = r]
<1>1. call[p] \in CallRow
  OBVIOUS
<1>2. /\ row \in CallRow
      /\ row.pc = Fresh.pc /\ row.s = call[p].s /\ row.status = Fresh.status
      /\ row.applied = Fresh.applied /\ row.intent = Fresh.intent
      /\ row.result = r
  BY <1>1, FreshShape DEF CallRow
<1>3. call' = [call EXCEPT ![p] = row]
  BY DEF Answered
<1> HIDE DEF row
<1> QED BY <1>2, <1>3, FreshShape

\* A call that goes on with what it has read.
LEMMA GotoShape ==
  ASSUME call \in [Calls -> CallRow], NEW p \in Calls, NEW pc \in Pcs,
         call' = Goto(p, pc)
  PROVE  /\ call' \in [Calls -> CallRow]
         /\ \A q \in Calls \ {p} : call'[q] = call[q]
         /\ call'[p].pc = pc /\ call'[p].s = call[p].s
         /\ call'[p].status = call[p].status
         /\ call'[p].applied = call[p].applied
         /\ call'[p].intent = call[p].intent
         /\ call'[p].result = call[p].result
<1> DEFINE row == [call[p] EXCEPT !.pc = pc]
<1>1. call[p] \in CallRow
  OBVIOUS
<1>2. /\ row \in CallRow
      /\ row.pc = pc /\ row.s = call[p].s /\ row.status = call[p].status
      /\ row.applied = call[p].applied /\ row.intent = call[p].intent
      /\ row.result = call[p].result
  BY <1>1 DEF CallRow
<1>3. call' = [call EXCEPT ![p] = row]
  BY DEF Goto
<1> HIDE DEF row
<1> QED BY <1>2, <1>3

\* A call whose payment has been dealt with: it answers, or it is a webhook and
\* keeps its result until its event is marked.
LEMMA ReturnedShape ==
  ASSUME call \in [Calls -> CallRow], NEW p \in Calls, NEW r \in Results,
         call' = Returned(p, r)
  PROVE  /\ call' \in [Calls -> CallRow]
         /\ \A q \in Calls \ {p} : call'[q] = call[q]
         /\ call'[p].pc \in {"finish", "idle"} /\ call'[p].s = call[p].s
         /\ call'[p].status \in {call[p].status, "PENDING"}
         /\ call'[p].applied \in {call[p].applied, FALSE}
         /\ call'[p].intent \in {call[p].intent, "PENDING"}
         /\ call'[p].result = r
<1>1. CASE call[p].kind = "webhook"
  <2> DEFINE row == [[call[p] EXCEPT !.pc = "finish"] EXCEPT !.result = r]
  <2>1. call[p] \in CallRow
    OBVIOUS
  <2>2. /\ row \in CallRow
        /\ row.pc = "finish" /\ row.s = call[p].s /\ row.status = call[p].status
        /\ row.applied = call[p].applied /\ row.intent = call[p].intent
        /\ row.result = r
    BY <2>1 DEF CallRow, Pcs
  <2>3. call' = [call EXCEPT ![p] = row]
    BY <1>1 DEF Returned
  <2> HIDE DEF row
  <2> QED BY <2>2, <2>3
<1>2. CASE call[p].kind # "webhook"
  BY <1>2, AnsweredShape DEF Returned
<1> QED BY <1>1, <1>2

-----------------------------------------------------------------------------
(* The inductive invariant: what a call has read and what it answers is backed *)
(* by the rows, also when they have changed since.                             *)

\* The supports that some call has marked as failed.
Marked == {s \in Supports :
             \E report \in {"pending", "failed"} : <<s, report>> \in marked}

\* What the rows of a support imply about each other.  The provider does not
\* change its mind: what was marked on the report of a failure was never paid.
RowsTrue ==
  \A s \in Supports :
    /\ support[s].applied => provider[s] = "success" /\ support[s].status # "PENDING"
    /\ support[s].status = "COMPLETED" => support[s].applied
    /\ webhookEvent[s] = "processed" => support[s].status # "PENDING"
    /\ support[s].status = "FAILED" => s \in Marked
    /\ <<s, "failed">> \in marked => provider[s] = "failed"

\* A call has read nothing that was not so then, and nothing that could be
\* undone since: no support becomes pending again, none is ever un-applied.
CallTrue(p) ==
  /\ call[p].s \in Supports \/ (call[p].pc = "idle" /\ call[p].result = "none")
  /\ call[p].s \in Supports =>
       /\ call[p].applied => support[call[p].s].applied
       /\ call[p].status # "PENDING" => support[call[p].s].status # "PENDING"
       /\ call[p].intent # "PENDING" => support[call[p].s].status # "PENDING"
       /\ call[p].status = "FAILED" => call[p].s \in Marked
       /\ call[p].intent = "FAILED" => call[p].s \in Marked
       /\ call[p].pc = "apply" => provider[call[p].s] = "success"
       /\ call[p].pc = "fail" => call[p].report \in {"pending", "failed"}
       /\ call[p].pc = "fail" /\ call[p].report = "failed"
            => provider[call[p].s] = "failed"
       /\ call[p].pc = "finish"
            => call[p].result \in {"completed", "already_completed", "failed"}
       /\ call[p].result \in {"completed", "already_completed"}
            => support[call[p].s].applied
       /\ call[p].result \in {"failed", "already_processed"}
            => support[call[p].s].status # "PENDING"
       /\ call[p].result = "failed" => call[p].s \in Marked

PayInv == /\ RowsOK
          /\ RowsTrue
          /\ PaymentRowsAgree
          /\ \A p \in Calls : CallTrue(p)

\* What no step takes back.
Monotone ==
  \A s \in Supports :
    /\ support[s].applied => support'[s].applied
    /\ support[s].status # "PENDING" => support'[s].status # "PENDING"
    /\ provider[s] = "success" => provider'[s] = "success"
    /\ provider[s] = "failed" => provider'[s] = "failed"
    /\ s \in Marked => s \in Marked'

\* A step of call p, after which p is as true to the rows as before.
CallMoved(p) == /\ call' \in [Calls -> CallRow]
                /\ \A q \in Calls \ {p} : call'[q] = call[q]
                /\ CallTrue(p)'

\* True calls have a support.
LEMMA HasSupport == (\A p \in Calls : CallTrue(p)) => RunningHasSupport
BY DEF CallTrue, RunningHasSupport

\* A call that does nothing stays true whatever the others do.
LEMMA StaysTrue ==
  ASSUME NEW p \in Calls, CallTrue(p), Monotone, call'[p] = call[p]
  PROVE  CallTrue(p)'
BY DEF CallTrue, Monotone

\* An answer that is true when it is given leaves the call true.
LEMMA AnswerIsTrue ==
  ASSUME call \in [Calls -> CallRow], NEW p \in Calls, call[p].s \in Supports,
         NEW r \in Results, call' = Answered(p, r),
         r \in {"completed", "already_completed"} => support'[call[p].s].applied,
         r \in {"failed", "already_processed"}
           => support'[call[p].s].status # "PENDING",
         r = "failed" => call[p].s \in Marked'
  PROVE  CallMoved(p)
<1>1. /\ call' \in [Calls -> CallRow]
      /\ \A q \in Calls \ {p} : call'[q] = call[q]
      /\ call'[p].pc = "idle" /\ call'[p].s = call[p].s
      /\ call'[p].status = "PENDING" /\ call'[p].applied = FALSE
      /\ call'[p].intent = "PENDING" /\ call'[p].result = r
  BY AnsweredShape
<1> QED BY <1>1 DEF CallMoved, CallTrue

\* So does a result that processPayment returns when the rows back it.
LEMMA ReturnIsTrue ==
  ASSUME call \in [Calls -> CallRow], NEW p \in Calls, call[p].s \in Supports,
         CallTrue(p), Monotone,
         NEW r \in {"completed", "already_completed", "failed"},
         call' = Returned(p, r), support'[call[p].s].status # "PENDING",
         r # "failed" => support'[call[p].s].applied,
         r = "failed" => call[p].s \in Marked'
  PROVE  CallMoved(p)
<1>1. /\ call' \in [Calls -> CallRow]
      /\ \A q \in Calls \ {p} : call'[q] = call[q]
      /\ call'[p].pc \in {"finish", "idle"} /\ call'[p].s = call[p].s
      /\ call'[p].status \in {call[p].status, "PENDING"}
      /\ call'[p].applied \in {call[p].applied, FALSE}
      /\ call'[p].intent \in {call[p].intent, "PENDING"}
      /\ call'[p].result = r
  BY ReturnedShape DEF Results
<1> QED BY <1>1 DEF CallMoved, CallTrue, Monotone

\* A call that goes on stays true, if the provider took the money of one that
\* goes on to complete its support.
LEMMA GotoIsTrue ==
  ASSUME call \in [Calls -> CallRow], NEW p \in Calls, call[p].s \in Supports,
         CallTrue(p), Monotone, NEW pc \in Pcs \ {"finish", "fail"},
         call' = Goto(p, pc), pc = "apply" => provider'[call[p].s] = "success"
  PROVE  CallMoved(p)
<1>1. /\ call' \in [Calls -> CallRow]
      /\ \A q \in Calls \ {p} : call'[q] = call[q]
      /\ call'[p].pc = pc /\ call'[p].s = call[p].s
      /\ call'[p].status = call[p].status
      /\ call'[p].applied = call[p].applied
      /\ call'[p].intent = call[p].intent
      /\ call'[p].result = call[p].result
  BY GotoShape
<1> QED BY <1>1 DEF CallMoved, CallTrue, Monotone

\* The steps that change supports or the provider's mind change them forward.
LEMMA StepIsMonotone ==
  PayInv /\ [PaymentNext]_payVars => Monotone
<1> SUFFICES ASSUME PayInv, [PaymentNext]_payVars
             PROVE  Monotone
  OBVIOUS
<1>0. /\ RunningHasSupport
      /\ support \in [Supports -> [status     : PaymentStatus,
                                    applied    : BOOLEAN,
                                    settlement : {"PENDING", "AVAILABLE"}]]
      /\ provider \in [Supports -> {"pending", "success", "mismatch", "failed"}]
  BY HasSupport DEF PayInv, RowsOK, TypeOK, SupportTypeOK
<1>1. ASSUME support' = support, provider' = provider, marked' = marked
      PROVE  Monotone
  BY <1>1 DEF Monotone, Marked
<1>2. ASSUME NEW s \in Supports,
             Initiate(s) \/ CreateSupport(s) \/ AbandonCheckout(s)
      PROVE  Monotone
  BY <1>1, <1>2 DEF Initiate, CreateSupport, AbandonCheckout, ledgerVars, vars, rowVars
<1>3. ASSUME NEW s \in Supports, ProviderDecides(s)
      PROVE  Monotone
  BY <1>0, <1>3 DEF ProviderDecides, ledgerVars, vars, rowVars,
                      Monotone, Marked
<1>4. ASSUME NEW s \in Supports, Settle(s)
      PROVE  Monotone
  BY <1>0, <1>4 DEF Settle, SettleSupport, rowVars, Monotone, Marked
<1>5. ASSUME NEW p \in Calls, NEW next, Reads(p, next)
      PROVE  Monotone
  BY <1>1, <1>5 DEF Reads, ledgerVars, vars, rowVars
<1>6. ASSUME NEW p \in Calls, NEW s \in Supports, Verify(p, s) \/ Webhook(p, s)
      PROVE  Monotone
  BY <1>5, <1>6 DEF Verify, Webhook
<1>7. ASSUME NEW p \in Calls, Crash(p)
      PROVE  Monotone
  BY <1>1, <1>7 DEF Crash, ledgerVars, vars, rowVars
<1>8. ASSUME NEW p \in Calls, CallStep(p)
      PROVE  Monotone
  <2>1. CASE ApplyPayment(p)
    BY <1>0, <2>1 DEF ApplyPayment, CompletePayment, Monotone, Marked
  <2>2. CASE MarkFailed(p)
    BY <1>0, <2>2 DEF MarkFailed, MarkPaymentFailed, Monotone, Marked
  <2>3. CASE RecordWebhook(p) \/ FinishWebhook(p)
    BY <1>1, <2>3 DEF RecordWebhook, FinishWebhook, ledgerVars, vars, rowVars
  <2>4. CASE \/ RecheckWebhook(p) \/ LookUp(p) \/ LoadSupport(p)
             \/ LoadIntent(p) \/ ChapaAnswers(p) \/ ChapaUnavailable(p)
             \/ AlreadyApplied(p) \/ RewardRefused(p) \/ TransitionRefused(p)
    BY <2>4, <1>5 DEF RecheckWebhook, LookUp, LoadSupport, LoadIntent,
                      ChapaAnswers, ChapaUnavailable, AlreadyApplied,
                      RewardRefused, TransitionRefused
  <2> QED BY <1>8, <2>1, <2>2, <2>3, <2>4 DEF CallStep
<1>9. CASE UNCHANGED payVars
  BY <1>1, <1>9 DEF payVars, ledgerVars, vars, rowVars
<1> QED
  BY <1>2, <1>3, <1>4, <1>6, <1>7, <1>8, <1>9 DEF PaymentNext

\* Every step of a call leaves it true to the rows.
LEMMA CallStepIsTrue ==
  ASSUME PayInv, Monotone, NEW p \in Calls, CallStep(p)
  PROVE  CallMoved(p)
<1> DEFINE s == call[p].s
<1>0. /\ call \in [Calls -> CallRow] /\ CallTrue(p)
      /\ support \in [Supports -> [status     : PaymentStatus,
                                    applied    : BOOLEAN,
                                    settlement : {"PENDING", "AVAILABLE"}]]
  BY DEF PayInv, RowsOK, TypeOK, SupportTypeOK
<1>s. s \in Supports
  <2>1. call[p].pc # "idle"
    BY DEF CallStep, RecordWebhook, RecheckWebhook, FinishWebhook, LookUp,
           LoadSupport, LoadIntent, ChapaAnswers, ChapaUnavailable, ApplyPayment,
           AlreadyApplied, RewardRefused, MarkFailed, TransitionRefused
  <2> QED BY <1>0, <2>1 DEF CallTrue
<1>a. ASSUME call' = Thrown(p)
      PROVE  CallMoved(p)
  BY <1>0, <1>s, <1>a, AnswerIsTrue DEF Thrown, Results
<1>b. ASSUME NEW pc \in Pcs \ {"finish", "fail", "apply"},
             call' = Goto(p, pc)
      PROVE  CallMoved(p)
  BY <1>0, <1>s, <1>b, GotoIsTrue
<1>c. ASSUME call' = Returned(p, "failed"), support[s].status # "PENDING",
             s \in Marked
      PROVE  CallMoved(p)
  BY <1>0, <1>s, <1>c, ReturnIsTrue DEF Monotone
<1>d. ASSUME call' = Returned(p, "already_completed"), support[s].applied
      PROVE  CallMoved(p)
  <2>1. support[s].status # "PENDING"
    BY <1>s, <1>d DEF PayInv, RowsTrue
  <2> QED BY <1>0, <1>s, <1>d, <2>1, ReturnIsTrue DEF Monotone
<1>f. support[s].status = "FAILED" => s \in Marked'
  BY <1>s DEF PayInv, RowsTrue, Monotone
<1> HIDE DEF s
<1>1. CASE RecordWebhook(p)
  BY <1>1, <1>b DEF RecordWebhook, Pcs
<1>2. CASE RecheckWebhook(p)
  <2>1. CASE webhookEvent[s] = "processed"
    <3>1. call' = Answered(p, "already_processed")
      BY <1>2, <2>1 DEF RecheckWebhook, Reads, s
    <3>2. support'[s].status # "PENDING"
      BY <1>s, <2>1 DEF PayInv, RowsTrue, Monotone
    <3> QED BY <1>0, <1>s, <3>1, <3>2, AnswerIsTrue DEF Results, s
  <2>2. CASE webhookEvent[s] # "processed"
    BY <1>2, <1>a, <2>2 DEF RecheckWebhook, Reads, s
  <2> QED BY <2>1, <2>2
<1>3. CASE FinishWebhook(p)
  <2>1. call' = Answered(p, call[p].result) /\ call[p].pc = "finish"
    BY <1>3 DEF FinishWebhook
  <2>2. call[p].result \in {"completed", "already_completed", "failed"}
    BY <1>0, <1>s, <2>1 DEF CallTrue, s
  <2>3. /\ call[p].result \in {"completed", "already_completed"}
             => support'[s].applied
        /\ call[p].result \in {"failed", "already_processed"}
             => support'[s].status # "PENDING"
        /\ call[p].result = "failed" => s \in Marked'
    BY <1>0, <1>s DEF CallTrue, Monotone, s
  <2> QED BY <1>0, <1>s, <2>1, <2>2, <2>3, AnswerIsTrue DEF Results, s
<1>4. CASE LookUp(p)
  <2>1. CASE support[s].status = "COMPLETED"
    <3>1. call' = Answered(p, "completed")
      BY <1>4, <2>1 DEF LookUp, Reads, s
    <3>2. support'[s].applied
      BY <1>s, <2>1 DEF PayInv, RowsTrue, Monotone
    <3> QED BY <1>0, <1>s, <3>1, <3>2, AnswerIsTrue DEF Results, s
  <2>2. CASE support[s].status # "COMPLETED"
    BY <1>4, <1>b, <2>2 DEF LookUp, Reads, Pcs, s
  <2> QED BY <2>1, <2>2
<1>5. CASE LoadSupport(p)
  <2> DEFINE row == [[[call[p] EXCEPT !.pc = "loadIntent"]
                        EXCEPT !.status = support[s].status]
                        EXCEPT !.applied = support[s].applied]
  <2>1. call' = [call EXCEPT ![p] = row]
    BY <1>5 DEF LoadSupport, Reads, s
  <2>2. /\ row \in CallRow
        /\ row.pc = "loadIntent" /\ row.s = s
        /\ row.status = support[s].status /\ row.applied = support[s].applied
        /\ row.intent = call[p].intent /\ row.result = call[p].result
    <3>1. /\ call[p] \in CallRow
          /\ support[s].status \in PaymentStatus /\ support[s].applied \in BOOLEAN
      BY <1>0, <1>s
    <3> QED BY <3>1 DEF CallRow, Pcs, s
  <2> HIDE DEF row
  <2>3. /\ call' \in [Calls -> CallRow] /\ call'[p] = row
        /\ \A q \in Calls \ {p} : call'[q] = call[q]
    BY <1>0, <2>1, <2>2
  <2> QED BY <1>0, <1>s, <1>f, <2>2, <2>3 DEF CallMoved, CallTrue, Monotone, s
<1>6. CASE LoadIntent(p)
  <2>1. CASE call[p].status = "FAILED"
    <3>1. call' = Returned(p, "failed")
      BY <1>6, <2>1 DEF LoadIntent, Reads
    <3>2. support[s].status # "PENDING" /\ s \in Marked
      BY <1>0, <1>s, <2>1 DEF CallTrue, s
    <3> QED BY <3>1, <3>2, <1>c
  <2>2. CASE call[p].status # "FAILED" /\ call[p].applied
    <3>1. call' = Returned(p, "already_completed")
      BY <1>6, <2>2 DEF LoadIntent, Reads
    <3>2. support[s].applied
      BY <1>0, <1>s, <2>2 DEF CallTrue, s
    <3> QED BY <3>1, <3>2, <1>d
  <2>3. CASE call[p].status # "FAILED" /\ ~call[p].applied
    <3> DEFINE row == [[call[p] EXCEPT !.pc = "ask"]
                         EXCEPT !.intent = intent[s]]
    <3>1. call' = [call EXCEPT ![p] = row]
      BY <1>6, <2>3 DEF LoadIntent, Reads, s
    <3>2. /\ row \in CallRow
          /\ row.pc = "ask" /\ row.s = s /\ row.intent = intent[s]
          /\ row.status = call[p].status /\ row.applied = call[p].applied
          /\ row.result = call[p].result
      <4>1. call[p] \in CallRow /\ intent[s] \in PaymentStatus
        BY <1>0, <1>s DEF PayInv, RowsOK
      <4> QED BY <4>1 DEF CallRow, Pcs, s
    <3>3. intent[s] = support[s].status
      BY <1>s DEF PayInv, PaymentRowsAgree
    <3> HIDE DEF row
    <3>4. /\ call' \in [Calls -> CallRow] /\ call'[p] = row
          /\ \A q \in Calls \ {p} : call'[q] = call[q]
      BY <1>0, <3>1, <3>2
    <3> QED BY <1>0, <1>s, <1>f, <3>2, <3>3, <3>4 DEF CallMoved, CallTrue, Monotone, s
  <2> QED BY <2>1, <2>2, <2>3
<1>7. CASE ChapaAnswers(p)
  <2>1. CASE Verdict(s) = "success"
    <3>1. call' = Goto(p, "apply")
      BY <1>7, <2>1 DEF ChapaAnswers, Reads, s
    <3>2. provider'[s] = "success"
      BY <1>s, <2>1 DEF Verdict, Monotone
    <3> QED BY <1>0, <1>s, <3>1, <3>2, GotoIsTrue DEF Pcs, s
  <2>2. CASE Verdict(s) = "mismatch"
    BY <1>7, <1>a, <2>2 DEF ChapaAnswers, Reads, s
  <2>3. CASE Verdict(s) \notin {"success", "mismatch"}
    <3>1. CASE "FAILED" \in {call[p].status, call[p].intent}
      <4>1. call' = Returned(p, "failed")
        BY <1>7, <2>3, <3>1 DEF ChapaAnswers, Reads, s
      <4>2. support[s].status # "PENDING" /\ s \in Marked
        BY <1>0, <1>s, <3>1 DEF CallTrue, s
      <4> QED BY <4>1, <4>2, <1>c
    <3>2. CASE "FAILED" \notin {call[p].status, call[p].intent}
      <4> DEFINE row == [[call[p] EXCEPT !.pc = "fail"]
                           EXCEPT !.report = provider[s]]
      <4>1. call' = [call EXCEPT ![p] = row]
        BY <1>7, <2>3, <3>2 DEF ChapaAnswers, Reads, s
      <4>2. provider[s] \in {"pending", "failed"}
        BY <1>s, <2>3 DEF Verdict, PayInv, RowsOK
      <4>3. /\ row \in CallRow
            /\ row.pc = "fail" /\ row.s = s /\ row.report = provider[s]
            /\ row.status = call[p].status /\ row.applied = call[p].applied
            /\ row.intent = call[p].intent /\ row.result = call[p].result
        <5>1. call[p] \in CallRow
          BY <1>0
        <5> QED BY <4>2, <5>1 DEF CallRow, Pcs, s
      <4> HIDE DEF row
      <4>4. /\ call' \in [Calls -> CallRow] /\ call'[p] = row
            /\ \A q \in Calls \ {p} : call'[q] = call[q]
        BY <1>0, <4>1, <4>3
      <4> QED BY <1>0, <1>s, <4>2, <4>3, <4>4 DEF CallMoved, CallTrue, Monotone, s
    <3> QED BY <3>1, <3>2
  <2> QED BY <2>1, <2>2, <2>3
<1>8. CASE ChapaUnavailable(p) \/ RewardRefused(p) \/ TransitionRefused(p)
  BY <1>8, <1>a DEF ChapaUnavailable, RewardRefused, TransitionRefused, Reads
<1>9. CASE AlreadyApplied(p)
  BY <1>9, <1>d DEF AlreadyApplied, Reads, s
<1>10. CASE ApplyPayment(p)
  <2>1. call' = Returned(p, "completed")
    BY <1>10 DEF ApplyPayment
  <2>2. support'[s].applied /\ support'[s].status = "COMPLETED"
    BY <1>0, <1>s, <1>10 DEF ApplyPayment, CompletePayment, s
  <2> QED BY <1>0, <1>s, <2>1, <2>2, ReturnIsTrue DEF s
<1>11. CASE MarkFailed(p)
  <2>1. call' = Returned(p, "failed")
    BY <1>11 DEF MarkFailed
  <2>2. support'[s].status = "FAILED"
    BY <1>0, <1>s, <1>11 DEF MarkFailed, MarkPaymentFailed, s
  <2>3. s \in Marked'
    BY <1>0, <1>s, <1>11 DEF MarkFailed, Marked, CallTrue, s
  <2> QED BY <1>0, <1>s, <2>1, <2>2, <2>3, ReturnIsTrue DEF s
<1> QED
  BY <1>1, <1>2, <1>3, <1>4, <1>5, <1>6, <1>7, <1>8, <1>9, <1>10, <1>11
     DEF CallStep

\* A call that arrives has read nothing yet; one that dies takes nothing along.
LEMMA ArrivalIsTrue ==
  ASSUME PayInv, Monotone, NEW p \in Calls, NEW s \in Supports,
         Verify(p, s) \/ Webhook(p, s)
  PROVE  CallMoved(p)
<1>0. call \in [Calls -> CallRow]
  BY DEF PayInv, RowsOK
<1>1. ASSUME NEW row \in CallRow, call' = [call EXCEPT ![p] = row],
             row.s = s, row.status = "PENDING", row.applied = FALSE,
             row.intent = "PENDING", row.pc \notin {"apply", "fail", "finish"},
             row.result \in {"none", "error"}
      PROVE  CallMoved(p)
  <2>1. /\ call' \in [Calls -> CallRow] /\ call'[p] = row
        /\ \A q \in Calls \ {p} : call'[q] = call[q]
    BY <1>0, <1>1
  <2> QED BY <1>1, <2>1 DEF CallMoved, CallTrue
<1>2. CASE Verify(p, s)
  <2> DEFINE row == [[[Fresh EXCEPT !.pc = "lookup"] EXCEPT !.kind = "verify"]
                       EXCEPT !.s = s]
  <2>1. call' = [call EXCEPT ![p] = row]
    BY <1>2 DEF Verify, Reads
  <2>2. /\ row \in CallRow /\ row.pc = "lookup" /\ row.s = s
        /\ row.status = "PENDING" /\ row.applied = FALSE
        /\ row.intent = "PENDING" /\ row.result = "none"
    BY FreshShape DEF CallRow, Pcs
  <2> HIDE DEF row
  <2> QED BY <1>1, <2>1, <2>2
<1>3. CASE Webhook(p, s)
  <2> DEFINE c == [[Fresh EXCEPT !.kind = "webhook"] EXCEPT !.s = s]
             row == IF Handler("webhook") = "webhook"
                      THEN [c EXCEPT !.pc = "record"]
                      ELSE [c EXCEPT !.result = "error"]
  <2>1. call' = [call EXCEPT ![p] = row]
    BY <1>3 DEF Webhook, Reads
  <2>2. /\ c \in CallRow /\ c.pc = "idle" /\ c.s = s
        /\ c.status = "PENDING" /\ c.applied = FALSE
        /\ c.intent = "PENDING" /\ c.result = "none"
    BY FreshShape DEF CallRow
  <2> HIDE DEF c
  <2>3. /\ row \in CallRow /\ row.pc \in {"idle", "record"} /\ row.s = s
        /\ row.status = "PENDING" /\ row.applied = FALSE
        /\ row.intent = "PENDING" /\ row.result \in {"none", "error"}
    BY <2>2 DEF CallRow, Pcs, Results
  <2> HIDE DEF row
  <2> QED BY <1>1, <2>1, <2>3
<1> QED BY <1>2, <1>3

\* A call that dies says nothing.
LEMMA CrashIsTrue ==
  ASSUME PayInv, NEW p \in Calls, Crash(p)
  PROVE  CallMoved(p)
<1>1. call \in [Calls -> CallRow] /\ RunningHasSupport
  BY HasSupport DEF PayInv, RowsOK
<1>2. call[p].s \in Supports /\ call' = Answered(p, "none")
  BY <1>1 DEF Crash, RunningHasSupport
<1> QED BY <1>1, <1>2, AnswerIsTrue DEF Results

\* So all calls stay true.
LEMMA CallsStayTrue ==
  PayInv /\ [PaymentNext]_payVars
    => /\ call' \in [Calls -> CallRow]
       /\ \A p \in Calls : CallTrue(p)'
<1> SUFFICES ASSUME PayInv, [PaymentNext]_payVars
             PROVE  /\ call' \in [Calls -> CallRow]
                    /\ \A p \in Calls : CallTrue(p)'
  OBVIOUS
<1>0. /\ Monotone
      /\ call \in [Calls -> CallRow]
      /\ \A p \in Calls : CallTrue(p)
  BY StepIsMonotone DEF PayInv, RowsOK
<1>1. CASE call' = call
  BY <1>0, <1>1, StaysTrue
<1>2. ASSUME NEW p \in Calls, CallMoved(p)
      PROVE  /\ call' \in [Calls -> CallRow]
             /\ \A q \in Calls : CallTrue(q)'
  <2>1. ASSUME NEW q \in Calls \ {p} PROVE CallTrue(q)'
    <3>1. call'[q] = call[q]
      BY <1>2 DEF CallMoved
    <3> QED BY <1>0, <3>1, StaysTrue
  <2> QED BY <1>2, <2>1 DEF CallMoved
<1>3. ASSUME NEW s \in Supports,
             \/ Initiate(s) \/ CreateSupport(s) \/ AbandonCheckout(s)
             \/ ProviderDecides(s) \/ Settle(s)
      PROVE  call' = call
  BY <1>3 DEF Initiate, CreateSupport, AbandonCheckout, ProviderDecides, Settle
<1>4. ASSUME NEW p \in Calls, NEW s \in Supports, Verify(p, s) \/ Webhook(p, s)
      PROVE  CallMoved(p)
  BY <1>0, <1>4, ArrivalIsTrue
<1>5. ASSUME NEW p \in Calls, CallStep(p) \/ Crash(p)
      PROVE  CallMoved(p)
  BY <1>0, <1>5, CallStepIsTrue, CrashIsTrue
<1>6. CASE UNCHANGED payVars
  BY <1>1, <1>6 DEF payVars
<1> QED BY <1>1, <1>2, <1>3, <1>4, <1>5, <1>6 DEF PaymentNext

\* Every step keeps the rows of a support in agreement with each other.
LEMMA RowsStayTrue ==
  PayInv /\ [PaymentNext]_payVars => RowsOK' /\ RowsTrue' /\ PaymentRowsAgree'
<1> SUFFICES ASSUME PayInv, [PaymentNext]_payVars
             PROVE  RowsOK' /\ RowsTrue' /\ PaymentRowsAgree'
  OBVIOUS
<1> DEFINE Outcome ==
      /\ provider    \in [Supports -> {"pending", "success", "mismatch", "failed"}]
      /\ intent      \in [Supports -> PaymentStatus]
      /\ providerTxn \in [Supports -> {"NONE", "SUCCESS", "FAILED"}]
      /\ webhookEvent \in [Supports -> {"none", "received", "processed"}]
      /\ marked \subseteq Supports \X {"pending", "failed"}
      /\ RowsTrue
      /\ PaymentRowsAgree
<1>0. /\ Outcome
      /\ RunningHasSupport
      /\ TypeOK
      /\ support \in [Supports -> [status     : PaymentStatus,
                                    applied    : BOOLEAN,
                                    settlement : {"PENDING", "AVAILABLE"}]]
  BY HasSupport DEF PayInv, RowsOK, TypeOK, SupportTypeOK
<1>t. TypeOK' /\ call' \in [Calls -> CallRow]
  BY <1>0, PaymentStepIsLedgerStep, NextTypeOK, CallsStayTrue
<1> SUFFICES Outcome'
  BY <1>t DEF RowsOK
<1>1. ASSUME support' = support, UNCHANGED <<rowVars, provider, webhookEvent>>
      PROVE  Outcome'
  BY <1>0, <1>1 DEF rowVars, RowsTrue, PaymentRowsAgree, Marked
<1>2. ASSUME NEW s \in Supports,
             Initiate(s) \/ CreateSupport(s) \/ AbandonCheckout(s)
      PROVE  Outcome'
  <2>1. support' = support /\ UNCHANGED <<rowVars, provider, webhookEvent>>
    BY <1>2 DEF Initiate, CreateSupport, AbandonCheckout, ledgerVars, vars
  <2> QED BY <1>1, <2>1
<1>3. ASSUME NEW s \in Supports, ProviderDecides(s)
      PROVE  Outcome'
  <2>1. /\ support' = support /\ UNCHANGED <<rowVars, webhookEvent>>
        /\ provider[s] = "pending"
        /\ \E outcome \in {"success", "mismatch", "failed"} :
             provider' = [provider EXCEPT ![s] = outcome]
    BY <1>3 DEF ProviderDecides, ledgerVars, vars
  <2>2. /\ provider' \in [Supports -> {"pending", "success", "mismatch", "failed"}]
        /\ \A t \in Supports : provider[t] = "success" => provider'[t] = "success"
        /\ \A t \in Supports : provider[t] = "failed" => provider'[t] = "failed"
    BY <1>0, <2>1
  <2>3. RowsTrue'
    BY <1>0, <2>1, <2>2 DEF RowsTrue, Marked, rowVars
  <2>4. PaymentRowsAgree'
    BY <1>0, <2>1 DEF rowVars, PaymentRowsAgree
  <2> QED BY <1>0, <2>1, <2>2, <2>3, <2>4 DEF rowVars
<1>4. ASSUME NEW s \in Supports, Settle(s)
      PROVE  Outcome'
  <2>1. /\ support' = [support EXCEPT ![s].settlement = "AVAILABLE"]
        /\ UNCHANGED <<rowVars, provider, webhookEvent>>
    BY <1>4 DEF Settle, SettleSupport
  <2>2. \A t \in Supports : /\ support'[t].status = support[t].status
                           /\ support'[t].applied = support[t].applied
    BY <1>0, <2>1
  <2>3. RowsTrue'
    BY <1>0, <2>1, <2>2 DEF RowsTrue, Marked, rowVars
  <2>4. PaymentRowsAgree'
    BY <1>0, <2>1, <2>2 DEF rowVars, PaymentRowsAgree
  <2> QED BY <1>0, <2>1, <2>3, <2>4 DEF rowVars
<1>5. ASSUME NEW p \in Calls, NEW next, Reads(p, next)
      PROVE  Outcome'
  BY <1>1, <1>5 DEF Reads, ledgerVars, vars
<1>6. ASSUME NEW p \in Calls, NEW s \in Supports, Verify(p, s) \/ Webhook(p, s)
      PROVE  Outcome'
  BY <1>5, <1>6 DEF Verify, Webhook
<1>7. ASSUME NEW p \in Calls, Crash(p)
      PROVE  Outcome'
  BY <1>1, <1>7 DEF Crash, ledgerVars, vars
<1>8. ASSUME NEW p \in Calls, CallStep(p)
      PROVE  Outcome'
  <2> DEFINE s == call[p].s
  <2>p. CallTrue(p)
    BY DEF PayInv
  <2>1. CASE ApplyPayment(p)
    <3>1. s \in Supports /\ provider[s] = "success"
      BY <1>0, <2>1, <2>p DEF ApplyPayment, RunningHasSupport, CallTrue
    <3>2. /\ support' = [support EXCEPT ![s] = [status     |-> "COMPLETED",
                                                applied    |-> TRUE,
                                                settlement |-> "PENDING"]]
          /\ intent' = [intent EXCEPT ![s] = "COMPLETED"]
          /\ providerTxn' = [providerTxn EXCEPT ![s] = "SUCCESS"]
          /\ UNCHANGED <<provider, webhookEvent, marked>>
      BY <2>1 DEF ApplyPayment, CompletePayment, SetIntent,
                  RecordProviderTransaction
    <3> HIDE DEF s
    <3>3. /\ support'[s].status = "COMPLETED" /\ support'[s].applied
          /\ \A t \in Supports \ {s} : support'[t] = support[t]
      BY <1>0, <3>1, <3>2
    <3> QED BY <1>0, <3>1, <3>2, <3>3 DEF PaymentStatus, RowsTrue,
                                          PaymentRowsAgree, Marked
  <2>2. CASE MarkFailed(p)
    <3> DEFINE report == call[p].report
    <3>1. /\ s \in Supports
          /\ report \in {"pending", "failed"}
          /\ report = "failed" => provider[s] = "failed"
      BY <1>0, <2>2, <2>p DEF MarkFailed, RunningHasSupport, CallTrue
    <3>2. /\ support' = [support EXCEPT ![s].status = "FAILED"]
          /\ intent' = [intent EXCEPT ![s] = "FAILED"]
          /\ providerTxn' = [providerTxn EXCEPT ![s] = "FAILED"]
          /\ marked' = marked \cup {<<s, report>>}
          /\ UNCHANGED <<provider, webhookEvent>>
      BY <2>2 DEF MarkFailed, MarkPaymentFailed, SetIntent,
                  RecordProviderTransaction
    <3> HIDE DEF s, report
    <3>3. /\ support'[s].status = "FAILED"
          /\ support'[s].applied = support[s].applied
          /\ \A t \in Supports \ {s} : support'[t] = support[t]
      BY <1>0, <3>1, <3>2
    <3>4. PaymentRowsAgree'
      BY <1>0, <3>1, <3>2, <3>3 DEF PaymentStatus, PaymentRowsAgree
    <3>5. RowsTrue'
      <4>1. s \in Marked' /\ \A t \in Supports : t \in Marked => t \in Marked'
        BY <3>1, <3>2 DEF Marked
      <4>2. <<s, "failed">> \in marked' => provider'[s] = "failed"
        BY <1>0, <3>1, <3>2 DEF RowsTrue
      <4>3. \A t \in Supports \ {s} :
              <<t, "failed">> \in marked' => <<t, "failed">> \in marked
        BY <3>2
      <4>4. ASSUME NEW t \in Supports \ {s}
            PROVE  /\ support'[t].status = "FAILED" => t \in Marked'
                   /\ <<t, "failed">> \in marked' => provider'[t] = "failed"
        BY <1>0, <3>2, <3>3, <4>1, <4>3 DEF RowsTrue
      <4>5. \A t \in Supports :
              /\ support'[t].applied
                   => provider'[t] = "success" /\ support'[t].status # "PENDING"
              /\ support'[t].status = "COMPLETED" => support'[t].applied
              /\ webhookEvent'[t] = "processed" => support'[t].status # "PENDING"
        BY <1>0, <3>1, <3>2, <3>3 DEF RowsTrue
      <4> QED BY <3>1, <4>1, <4>2, <4>4, <4>5 DEF RowsTrue
    <3> QED BY <1>0, <3>1, <3>2, <3>4, <3>5 DEF PaymentStatus
  <2>3. CASE RecordWebhook(p)
    <3>1. s \in Supports
      BY <1>0, <2>3 DEF RecordWebhook, RunningHasSupport
    <3>2. /\ support' = support /\ UNCHANGED <<rowVars, provider>>
          /\ \/ webhookEvent' = webhookEvent
             \/ webhookEvent' = [webhookEvent EXCEPT ![s] = "received"]
      BY <2>3 DEF RecordWebhook, ledgerVars, vars
    <3> HIDE DEF s
    <3>3. RowsTrue'
      <4>1. \A t \in Supports : webhookEvent'[t] = "processed"
                                 => webhookEvent[t] = "processed"
        BY <1>0, <3>1, <3>2
      <4> QED BY <1>0, <3>2, <4>1 DEF rowVars, RowsTrue, Marked
    <3>4. PaymentRowsAgree'
      BY <1>0, <3>2 DEF rowVars, PaymentRowsAgree
    <3> QED BY <1>0, <3>1, <3>2, <3>3, <3>4 DEF rowVars
  <2>4. CASE FinishWebhook(p)
    <3>1. s \in Supports /\ call[p].pc = "finish"
      BY <1>0, <2>4 DEF FinishWebhook, RunningHasSupport
    <3>2. support[s].status # "PENDING"
      BY <1>0, <3>1, <2>p DEF CallTrue, RowsTrue
    <3>3. /\ support' = support /\ UNCHANGED <<rowVars, provider>>
          /\ webhookEvent' = [webhookEvent EXCEPT ![s] = "processed"]
      BY <2>4 DEF FinishWebhook, ledgerVars, vars
    <3> HIDE DEF s
    <3> QED BY <1>0, <3>1, <3>2, <3>3 DEF rowVars, RowsTrue, PaymentRowsAgree,
                                          Marked
  <2>5. CASE \/ RecheckWebhook(p) \/ LookUp(p) \/ LoadSupport(p)
             \/ LoadIntent(p) \/ ChapaAnswers(p) \/ ChapaUnavailable(p)
             \/ AlreadyApplied(p) \/ RewardRefused(p) \/ TransitionRefused(p)
    BY <2>5, <1>5 DEF RecheckWebhook, LookUp, LoadSupport, LoadIntent,
                      ChapaAnswers, ChapaUnavailable, AlreadyApplied,
                      RewardRefused, TransitionRefused
  <2> QED BY <1>8, <2>1, <2>2, <2>3, <2>4, <2>5 DEF CallStep
<1>9. CASE UNCHANGED payVars
  BY <1>1, <1>9 DEF payVars, ledgerVars, vars
<1> QED
  BY <1>2, <1>3, <1>4, <1>6, <1>7, <1>8, <1>9 DEF PaymentNext

\* Nothing is decided and nobody calls at the start.
LEMMA InitPayInv == PaymentInit => PayInv
<1> SUFFICES ASSUME PaymentInit PROVE PayInv
  OBVIOUS
<1>1. TypeOK
  BY InitTypeOK DEF PaymentInit
<1>2. \A p \in Calls : call[p] = Fresh
  BY DEF PaymentInit
<1>3. \A s \in Supports : support[s].status = "PENDING" /\ ~support[s].applied
  BY DEF PaymentInit, Init
<1>4. RowsOK
  BY <1>1, FreshShape DEF PaymentInit, RowsOK, PaymentStatus
<1>5. RowsTrue /\ PaymentRowsAgree
  BY <1>3 DEF PaymentInit, RowsTrue, PaymentRowsAgree
<1>6. \A p \in Calls : CallTrue(p)
  BY <1>2, FreshShape, PaymentAssumption DEF CallTrue
<1> QED BY <1>4, <1>5, <1>6 DEF PayInv

\* PayInv is inductive.
LEMMA PayInvHolds == PaymentSpec => []PayInv
<1>1. PayInv /\ [PaymentNext]_payVars => PayInv'
  BY RowsStayTrue, CallsStayTrue DEF PayInv
<1> QED BY <1>1, InitPayInv, PTL DEF PaymentSpec

-----------------------------------------------------------------------------
(* What follows from the invariant. *)

\* Calls, retries and crashes, with all they read before they write, do
\* nothing to the money that Ledger does not do: each of Ledger's invariants
\* holds for payments as well.
THEOREM PaymentsImplementLedger == PaymentSpec => Spec
<1>1. PaymentInit => Init
  BY DEF PaymentInit
<1>2. PayInv /\ [PaymentNext]_payVars => [Next]_vars
  BY HasSupport, PaymentStepIsLedgerStep DEF PayInv
<1> QED BY <1>1, <1>2, PayInvHolds, PTL DEF PaymentSpec, Spec

\* So the books of the ledger are kept beside overlapping calls, retries and
\* crashes: balances follow the rows, no money is made or lost, the money that
\* a settlement or a payout needs is there, and creators get what they were
\* promised.
THEOREM PaymentsKeepTheBooks ==
  PaymentSpec => /\ []BalancesMatchRows
                 /\ []MoneyIsConserved
                 /\ []FundsAreThere
                 /\ KeepsLedgerContract
  BY PaymentsImplementLedger, BalancesFollowRows, ConservationHolds,
     FundsAreNeverMissing, LedgerKeepsContract

\* No credit without captured money, whatever overlaps.
THEOREM CreditsBacked == PaymentSpec => []CreditsAreBacked
<1>1. PayInv => CreditsAreBacked
  BY DEF PayInv, RowsTrue, CreditsAreBacked
<1> QED BY <1>1, PayInvHolds, PTL

\* What each creator earned is, to the unit, the net amount of supports that the
\* provider took the money for.
EarningsAreBacked ==
  \A c \in Creators :
    /\ totalEarned[c] = SumFunctionOnSet(Net, CapturedSupportsOf(c))
    /\ \A s \in CapturedSupportsOf(c) : provider[s] = "success"

\* No call, however stale what it has read, adds to what a creator earned
\* without a payment behind it, nor adds a payment twice.
THEOREM EarningsBacked == PaymentSpec => []EarningsAreBacked
<1>1. MoneyIsConserved /\ CreditsAreBacked => EarningsAreBacked
  BY DEF MoneyIsConserved, CreditsAreBacked, EarningsAreBacked,
         CapturedSupportsOf
<1> QED BY <1>1, PaymentsKeepTheBooks, CreditsBacked, PTL

\* The support, the intent and the provider transaction never disagree.
THEOREM RowsAgree == PaymentSpec => []PaymentRowsAgree
<1>1. PayInv => PaymentRowsAgree
  BY DEF PayInv
<1> QED BY <1>1, PayInvHolds, PTL

\* Nobody is told of a credit that was not made, nor of a failure that no call
\* has marked; nor that a credited payment failed, unless it was marked before
\* the provider had decided.
THEOREM AnswersTrue == PaymentSpec => []AnswersAreTrue
<1>1. ASSUME PayInv PROVE AnswersAreTrue
  <2>1. ASSUME NEW s \in Supports, s \in Marked, support[s].applied
        PROVE  MarkedEarly(s)
    BY <1>1, <2>1 DEF PayInv, RowsTrue, Marked, MarkedEarly
  <2> QED BY <1>1, <2>1 DEF PayInv, CallTrue, Marked, AnswersAreTrue
<1> QED BY <1>1, PayInvHolds, PTL

\* No webhook is put aside before its payment was decided.
THEOREM ProcessedDecided == PaymentSpec => []ProcessedIsDecided
<1>1. PayInv => ProcessedIsDecided
  BY DEF PayInv, RowsTrue, ProcessedIsDecided
<1> QED BY <1>1, PayInvHolds, PTL

-----------------------------------------------------------------------------
(* What a payment buys. *)

\* The counters are numbers, and the effects match the credits.
EffectsInv == /\ claimedCount \in [Rewards -> Nat]
              /\ votes \in [Options -> Nat]
              /\ EffectsMatchCredit
              /\ RewardsAreLimited

\* Only the transaction of a captured payment delivers anything, or credits.
LEMMA OnlyApplyPaymentDelivers ==
  ASSUME PayInv, [PaymentNext]_payVars, \A p \in Calls : ~ApplyPayment(p)
  PROVE  /\ UNCHANGED effectVars
         /\ UNCHANGED totalEarned
         /\ \A s \in Supports : support'[s].applied = support[s].applied
<1> DEFINE Same == /\ UNCHANGED effectVars
                   /\ UNCHANGED totalEarned
                   /\ \A s \in Supports : support'[s].applied = support[s].applied
<1>0. /\ RunningHasSupport
      /\ support \in [Supports -> [status     : PaymentStatus,
                                    applied    : BOOLEAN,
                                    settlement : {"PENDING", "AVAILABLE"}]]
  BY HasSupport DEF PayInv, RowsOK, TypeOK, SupportTypeOK
<1>1. ASSUME UNCHANGED <<ledgerVars, effectVars>>
      PROVE  Same
  BY <1>1 DEF ledgerVars, vars
<1>2. ASSUME NEW s \in Supports,
             \/ Initiate(s) \/ CreateSupport(s) \/ AbandonCheckout(s)
             \/ ProviderDecides(s)
      PROVE  Same
  BY <1>1, <1>2 DEF Initiate, CreateSupport, AbandonCheckout, ProviderDecides
<1>3. ASSUME NEW s \in Supports, Settle(s)
      PROVE  Same
  BY <1>0, <1>3 DEF Settle, SettleSupport
<1>4. ASSUME NEW p \in Calls, NEW next, Reads(p, next)
      PROVE  Same
  BY <1>1, <1>4 DEF Reads
<1>5. ASSUME NEW p \in Calls, NEW s \in Supports, Verify(p, s) \/ Webhook(p, s)
      PROVE  Same
  BY <1>4, <1>5 DEF Verify, Webhook
<1>6. ASSUME NEW p \in Calls, Crash(p)
      PROVE  Same
  BY <1>1, <1>6 DEF Crash
<1>7. ASSUME NEW p \in Calls, CallStep(p)
      PROVE  Same
  <2>1. CASE MarkFailed(p)
    BY <1>0, <2>1 DEF MarkFailed, MarkPaymentFailed, moneyVars
  <2>2. CASE RecordWebhook(p) \/ FinishWebhook(p)
    BY <1>1, <2>2 DEF RecordWebhook, FinishWebhook
  <2>3. CASE \/ RecheckWebhook(p) \/ LookUp(p) \/ LoadSupport(p)
             \/ LoadIntent(p) \/ ChapaAnswers(p) \/ ChapaUnavailable(p)
             \/ AlreadyApplied(p) \/ RewardRefused(p) \/ TransitionRefused(p)
    BY <2>3, <1>4 DEF RecheckWebhook, LookUp, LoadSupport, LoadIntent,
                      ChapaAnswers, ChapaUnavailable, AlreadyApplied,
                      RewardRefused, TransitionRefused
  <2> QED BY <1>7, <2>1, <2>2, <2>3 DEF CallStep
<1>8. CASE UNCHANGED payVars
  BY <1>1, <1>8 DEF payVars
<1> QED
  BY <1>2, <1>3, <1>5, <1>6, <1>7, <1>8 DEF PaymentNext

\* What that transaction does.
LEMMA ApplyPaymentDelivers ==
  ASSUME PayInv, NEW p \in Calls, ApplyPayment(p)
  PROVE  LET s == call[p].s IN
         /\ s \in Supports
         /\ ~support[s].applied
         /\ provider[s] = "success" /\ UNCHANGED provider
         /\ RewardAvailable(s)
         /\ UnlockReward(s) /\ RecordVote(s) /\ EnqueueCompleted(s)
         /\ \A t \in Supports :
              /\ support'[t].applied = (support[t].applied \/ t = s)
              /\ t # s => support'[t] = support[t]
         /\ support'[s].settlement = "PENDING"
         /\ totalEarned' = [totalEarned EXCEPT ![CreatorOf[s]] = @ + Net[s]]
<1> DEFINE s == call[p].s
<1>0. /\ RunningHasSupport /\ CallTrue(p)
      /\ support \in [Supports -> [status     : PaymentStatus,
                                    applied    : BOOLEAN,
                                    settlement : {"PENDING", "AVAILABLE"}]]
  BY HasSupport DEF PayInv, RowsOK, TypeOK, SupportTypeOK
<1>1. s \in Supports /\ provider[s] = "success"
  BY <1>0 DEF ApplyPayment, RunningHasSupport, CallTrue
<1>2. /\ ~support[s].applied
      /\ support' = [support EXCEPT ![s] = [status     |-> "COMPLETED",
                                            applied    |-> TRUE,
                                            settlement |-> "PENDING"]]
      /\ totalEarned' = [totalEarned EXCEPT ![CreatorOf[s]] = @ + Net[s]]
  BY DEF ApplyPayment, CompletePayment
<1>3. /\ RewardAvailable(s)
      /\ UnlockReward(s) /\ RecordVote(s) /\ EnqueueCompleted(s)
      /\ UNCHANGED provider
  BY DEF ApplyPayment
<1> HIDE DEF s
<1>4. /\ support'[s].applied /\ support'[s].settlement = "PENDING"
      /\ \A t \in Supports \ {s} : support'[t] = support[t]
  BY <1>0, <1>1, <1>2
<1>5. \A t \in Supports :
        /\ support'[t].applied = (support[t].applied \/ t = s)
        /\ t # s => support'[t] = support[t]
  <2>1. ASSUME NEW t \in Supports
        PROVE  support'[t].applied = (support[t].applied \/ t = s)
    <3>1. support[t].applied \in BOOLEAN /\ support'[s].applied \in BOOLEAN
      BY <1>0, <1>1, <1>2
    <3> QED BY <1>2, <1>4, <3>1
  <2> QED BY <2>1, <1>4
<1> QED BY <1>1, <1>2, <1>3, <1>4, <1>5 DEF s

\* One more member of a finite set of supports that have a property.
LEMMA CountOneMore ==
  ASSUME IsFiniteSet(Supports), NEW A \in SUBSET Supports,
         NEW s \in Supports, s \notin A
  PROVE  /\ Cardinality(A) \in Nat
         /\ Cardinality(A \cup {s}) = Cardinality(A) + 1
<1>1. IsFiniteSet(A)
  BY FS_Subset
<1> QED BY <1>1, FS_CardinalityType, FS_AddElement

\* The effects of a payment match its credit after every step.
LEMMA EffectsStep ==
  ASSUME IsFiniteSet(Supports)
  PROVE  PayInv /\ EffectsInv /\ [PaymentNext]_payVars => EffectsInv'
<1> SUFFICES ASSUME PayInv, EffectsInv, [PaymentNext]_payVars
             PROVE  EffectsInv'
  OBVIOUS
<1>0. /\ claimedCount \in [Rewards -> Nat]
      /\ votes \in [Options -> Nat]
      /\ unlocked = {t \in Supports : support[t].applied /\ RewardOf[t] # NoReward}
      /\ paidVotes = {t \in Supports : support[t].applied /\ OptionOf[t] # NoOption}
      /\ outbox = {t \in Supports : support[t].applied} \X EventTypes
      /\ \A o \in Options :
           votes[o] = Cardinality({t \in paidVotes : OptionOf[t] = o})
      /\ \A r \in Rewards :
           /\ claimedCount[r] = Cardinality({t \in unlocked : RewardOf[t] = r})
           /\ claimedCount[r] <= MaxQuantity[r]
      /\ \A t, u \in unlocked :
           RewardOf[t] = RewardOf[u] /\ Supporter[t] = Supporter[u] => t = u
  BY DEF EffectsInv, EffectsMatchCredit, RewardsAreLimited
<1>1. CASE \A p \in Calls : ~ApplyPayment(p)
  <2>1. /\ UNCHANGED effectVars
        /\ \A s \in Supports : support'[s].applied = support[s].applied
    BY <1>1, OnlyApplyPaymentDelivers
  <2>2. EffectsMatchCredit'
    <3>1. UNCHANGED <<votes, unlocked, paidVotes, outbox>>
      BY <2>1 DEF effectVars
    <3> QED BY <1>0, <2>1, <3>1 DEF EffectsMatchCredit
  <2>3. RewardsAreLimited'
    BY <1>0, <2>1 DEF effectVars, RewardsAreLimited
  <2> QED BY <1>0, <2>1, <2>2, <2>3 DEF effectVars, EffectsInv
<1>2. ASSUME NEW p \in Calls, ApplyPayment(p)
      PROVE  EffectsInv'
  <2> DEFINE s == call[p].s
             r == RewardOf[s]
             o == OptionOf[s]
  <2>1. /\ s \in Supports
        /\ ~support[s].applied
        /\ RewardAvailable(s)
        /\ UnlockReward(s) /\ RecordVote(s) /\ EnqueueCompleted(s)
        /\ \A t \in Supports :
             support'[t].applied = (support[t].applied \/ t = s)
    BY <1>2, ApplyPaymentDelivers
  <2> HIDE DEF s
  <2>2. /\ r \in Rewards \cup {NoReward} /\ o \in Options \cup {NoOption}
        /\ NoReward \notin Rewards /\ NoOption \notin Options
    BY <2>1, PaymentAssumption
  <2>3. /\ unlocked' = IF r = NoReward THEN unlocked ELSE unlocked \cup {s}
        /\ claimedCount' = IF r = NoReward THEN claimedCount
             ELSE [claimedCount EXCEPT ![r] =
                     Cardinality({t \in unlocked' : RewardOf[t] = r})]
    BY <2>1 DEF UnlockReward
  <2>4. /\ paidVotes' = IF o = NoOption THEN paidVotes ELSE paidVotes \cup {s}
        /\ votes' = IF o = NoOption THEN votes
                      ELSE [votes EXCEPT ![o] = votes[o] + 1]
    BY <2>1 DEF RecordVote
  <2>5. outbox' = outbox \cup ({s} \X EventTypes)
    BY <2>1 DEF EnqueueCompleted
  <2>6. s \notin unlocked /\ s \notin paidVotes
    BY <1>0, <2>1
  <2>7. unlocked' = {t \in Supports : support'[t].applied /\ RewardOf[t] # NoReward}
    BY <1>0, <2>1, <2>3
  <2>8. paidVotes' = {t \in Supports : support'[t].applied /\ OptionOf[t] # NoOption}
    BY <1>0, <2>1, <2>4
  <2>9. outbox' = {t \in Supports : support'[t].applied} \X EventTypes
    <3>1. {t \in Supports : support'[t].applied}
            = {t \in Supports : support[t].applied} \cup {s}
      BY <2>1
    <3> QED BY <1>0, <2>5, <3>1
  <2>10. votes' \in [Options -> Nat]
    BY <1>0, <2>2, <2>4
  <2>11. ASSUME NEW q \in Options
         PROVE  votes'[q] = Cardinality({t \in paidVotes' : OptionOf[t] = q})
    <3> DEFINE A == {t \in paidVotes : OptionOf[t] = q}
    <3>1. A \in SUBSET Supports /\ s \notin A
      BY <1>0, <2>6
    <3>2. CASE q = o
      <4>1. {t \in paidVotes' : OptionOf[t] = q} = A \cup {s}
        BY <2>2, <2>4, <3>2
      <4>2. votes'[q] = votes[q] + 1
        BY <1>0, <2>2, <2>4, <3>2
      <4>3. votes[q] = Cardinality(A)
        BY <1>0
      <4> HIDE DEF A
      <4> QED BY <2>1, <3>1, <4>1, <4>2, <4>3, CountOneMore
    <3>3. CASE q # o
      <4>1. {t \in paidVotes' : OptionOf[t] = q} = A
        BY <2>4, <3>3
      <4>2. votes'[q] = votes[q]
        BY <1>0, <2>2, <2>4, <3>3
      <4> QED BY <1>0, <4>1, <4>2
    <3> QED BY <3>2, <3>3
  <2>12. ASSUME NEW q \in Rewards
         PROVE  /\ claimedCount'[q] \in Nat
                /\ claimedCount'[q]
                     = Cardinality({t \in unlocked' : RewardOf[t] = q})
                /\ claimedCount'[q] <= MaxQuantity[q]
    <3> DEFINE A == {t \in unlocked : RewardOf[t] = q}
    <3>1. A \in SUBSET Supports /\ s \notin A
      BY <1>0, <2>6
    <3>2. CASE q = r
      <4>1. {t \in unlocked' : RewardOf[t] = q} = A \cup {s}
        BY <2>2, <2>3, <3>2
      <4>2. claimedCount'[q] = Cardinality({t \in unlocked' : RewardOf[t] = q})
        BY <1>0, <2>2, <2>3, <3>2
      <4>3. claimedCount[q] = Cardinality(A)
        BY <1>0
      <4>4. claimedCount[q] < MaxQuantity[q] /\ MaxQuantity[q] \in Nat
        BY <2>1, <2>2, <3>2, PaymentAssumption DEF RewardAvailable
      <4> HIDE DEF A
      <4>5. /\ Cardinality(A) \in Nat
            /\ Cardinality(A \cup {s}) = Cardinality(A) + 1
        BY <2>1, <3>1, CountOneMore
      <4>6. claimedCount'[q] = Cardinality(A) + 1
        BY <4>1, <4>2, <4>5, Zenon
      <4>7. claimedCount'[q] \in Nat /\ claimedCount'[q] <= MaxQuantity[q]
        BY <4>3, <4>4, <4>5, <4>6
      <4> QED BY <4>2, <4>7
    <3>3. CASE q # r
      <4>1. {t \in unlocked' : RewardOf[t] = q} = A
        BY <2>3, <3>3
      <4>2. claimedCount'[q] = claimedCount[q]
        BY <1>0, <2>2, <2>3, <3>3
      <4> QED BY <1>0, <4>1, <4>2
    <3> QED BY <3>2, <3>3
  <2>13. claimedCount' \in [Rewards -> Nat]
    <3>1. claimedCount' \in [Rewards -> {claimedCount'[q] : q \in Rewards}]
      BY <1>0, <2>3
    <3> QED BY <2>12, <3>1
  <2>14. ASSUME NEW t \in unlocked', NEW u \in unlocked',
                RewardOf[t] = RewardOf[u], Supporter[t] = Supporter[u]
         PROVE  t = u
    <3>1. r # NoReward => \A v \in unlocked :
                            ~(RewardOf[v] = r /\ Supporter[v] = Supporter[s])
      BY <2>1 DEF RewardAvailable, AlreadyUnlocked
    <3> QED BY <1>0, <2>3, <2>14, <3>1
  <2> QED
    BY <2>7, <2>8, <2>9, <2>10, <2>11, <2>12, <2>13, <2>14
       DEF EffectsInv, EffectsMatchCredit, RewardsAreLimited
<1> QED BY <1>1, <1>2

\* At the start nothing is bought and nothing counted.
LEMMA InitEffects ==
  ASSUME IsFiniteSet(Supports)
  PROVE  PaymentInit => EffectsInv
<1> SUFFICES ASSUME PaymentInit PROVE EffectsInv
  OBVIOUS
<1>1. \A s \in Supports : ~support[s].applied
  BY DEF PaymentInit, Init
<1>2. /\ unlocked = {} /\ paidVotes = {} /\ outbox = {}
      /\ claimedCount = [r \in Rewards |-> 0] /\ votes = [o \in Options |-> 0]
  BY DEF PaymentInit
<1>3. Cardinality({}) = 0
  BY FS_EmptySet
<1>4. EffectsMatchCredit
  <2>1. \A o \in Options : {s \in paidVotes : OptionOf[s] = o} = {}
    BY <1>2
  <2> QED BY <1>1, <1>2, <1>3, <2>1 DEF EffectsMatchCredit
<1>5. RewardsAreLimited
  <2>1. \A r \in Rewards : {s \in unlocked : RewardOf[s] = r} = {}
    BY <1>2
  <2>2. \A r \in Rewards : MaxQuantity[r] >= 0
    BY PaymentAssumption
  <2> QED BY <1>2, <1>3, <2>1, <2>2 DEF RewardsAreLimited
<1> QED BY <1>2, <1>4, <1>5 DEF EffectsInv

\* The counts stay those of the rows.
LEMMA EffectsInvHolds ==
  ASSUME IsFiniteSet(Supports)
  PROVE  PaymentSpec => []EffectsInv
BY InitEffects, EffectsStep, PayInvHolds, PTL DEF PaymentSpec

\* Reward, vote and events come with the credit and never without it.
THEOREM EffectsMatch ==
  ASSUME IsFiniteSet(Supports)
  PROVE  PaymentSpec => []EffectsMatchCredit
<1>1. EffectsInv => EffectsMatchCredit
  BY DEF EffectsInv
<1> QED BY <1>1, EffectsInvHolds, PTL

\* A reward is never oversold, nor sold twice to one user, though its supply is
\* checked at checkout and used up at the payment.
THEOREM RewardsLimited ==
  ASSUME IsFiniteSet(Supports)
  PROVE  PaymentSpec => []RewardsAreLimited
<1>1. EffectsInv => RewardsAreLimited
  BY DEF EffectsInv
<1> QED BY <1>1, EffectsInvHolds, PTL

\* The rows that no call decides on.
OtherRowsOK ==
  /\ checkout \in [Supports -> {"none", "opening", "open"}]
  /\ unlocked \subseteq Supports
  /\ paidVotes \subseteq Supports
  /\ outbox \subseteq Supports \X EventTypes
  /\ crashes \in 0..MaxCrashes

LEMMA OtherRowsStep ==
  ASSUME PayInv, OtherRowsOK, [PaymentNext]_payVars
  PROVE  OtherRowsOK'
<1> USE DEF OtherRowsOK
<1>1. ASSUME NEW s \in Supports,
             \/ Initiate(s) \/ CreateSupport(s) \/ AbandonCheckout(s)
             \/ ProviderDecides(s) \/ Settle(s)
      PROVE  OtherRowsOK'
  BY <1>1 DEF Initiate, CreateSupport, AbandonCheckout, ProviderDecides, Settle,
              effectVars
<1>2. ASSUME NEW p \in Calls, NEW next, Reads(p, next)
      PROVE  OtherRowsOK'
  BY <1>2 DEF Reads, effectVars
<1>3. ASSUME NEW p \in Calls, NEW s \in Supports, Verify(p, s) \/ Webhook(p, s)
      PROVE  OtherRowsOK'
  BY <1>2, <1>3 DEF Verify, Webhook
<1>4. ASSUME NEW p \in Calls, Crash(p)
      PROVE  OtherRowsOK'
  BY <1>4, PaymentAssumption DEF Crash, effectVars
<1>5. ASSUME NEW p \in Calls, ApplyPayment(p)
      PROVE  OtherRowsOK'
  <2> DEFINE s == call[p].s
  <2>1. s \in Supports /\ UnlockReward(s) /\ RecordVote(s) /\ EnqueueCompleted(s)
    BY <1>5, ApplyPaymentDelivers
  <2>2. UNCHANGED <<checkout, crashes>>
    BY <1>5 DEF ApplyPayment
  <2> HIDE DEF s
  <2>3. unlocked' \subseteq Supports /\ paidVotes' \subseteq Supports
    BY <2>1 DEF UnlockReward, RecordVote
  <2>4. outbox' \subseteq Supports \X EventTypes
    BY <2>1 DEF EnqueueCompleted
  <2> QED BY <2>2, <2>3, <2>4
<1>6. ASSUME NEW p \in Calls, MarkFailed(p) \/ RecordWebhook(p) \/ FinishWebhook(p)
      PROVE  OtherRowsOK'
  BY <1>6 DEF MarkFailed, RecordWebhook, FinishWebhook, effectVars
<1>7. ASSUME NEW p \in Calls,
             \/ RecheckWebhook(p) \/ LookUp(p) \/ LoadSupport(p)
             \/ LoadIntent(p) \/ ChapaAnswers(p) \/ ChapaUnavailable(p)
             \/ AlreadyApplied(p) \/ RewardRefused(p) \/ TransitionRefused(p)
      PROVE  OtherRowsOK'
  BY <1>2, <1>7 DEF RecheckWebhook, LookUp, LoadSupport, LoadIntent,
                    ChapaAnswers, ChapaUnavailable, AlreadyApplied,
                    RewardRefused, TransitionRefused
<1>8. CASE UNCHANGED payVars
  BY <1>8 DEF payVars, effectVars
<1> QED
  BY <1>1, <1>3, <1>4, <1>5, <1>6, <1>7, <1>8 DEF PaymentNext, CallStep

\* The rows and the calls keep their shape, and a running call has a support.
THEOREM PaymentTyping ==
  ASSUME IsFiniteSet(Supports)
  PROVE  PaymentSpec => []PaymentTypeOK
<1>1. PaymentInit => OtherRowsOK
  BY PaymentAssumption DEF PaymentInit, OtherRowsOK
<1>2. PayInv /\ EffectsInv /\ OtherRowsOK => PaymentTypeOK
  BY HasSupport DEF PayInv, RowsOK, EffectsInv, OtherRowsOK, PaymentTypeOK,
     CallTypeOK, CallRow, Pcs, Results, RunningHasSupport
<1> QED
  BY <1>1, <1>2, OtherRowsStep, PayInvHolds, EffectsInvHolds, PTL DEF PaymentSpec

-----------------------------------------------------------------------------
(* Payment implements PaymentContract. *)

\* Which steps are neither a decision of the provider, nor a settlement, nor
\* the transaction of a captured payment.
Other == /\ \A s \in Supports : ~ProviderDecides(s) /\ ~Settle(s)
         /\ \A p \in Calls : ~ApplyPayment(p)

\* They are none of the contract's business.
LEMMA OtherStepsStutter ==
  ASSUME PayInv, [PaymentNext]_payVars, Other
  PROVE  UNCHANGED Contract!contractVars
<1> DEFINE Same == /\ provider' = provider
                   /\ \A s \in Supports :
                        support'[s].settlement = support[s].settlement
<1>0. /\ RunningHasSupport
      /\ support \in [Supports -> [status     : PaymentStatus,
                                    applied    : BOOLEAN,
                                    settlement : {"PENDING", "AVAILABLE"}]]
  BY HasSupport DEF PayInv, RowsOK, TypeOK, SupportTypeOK
<1>1. ASSUME UNCHANGED <<ledgerVars, provider>>
      PROVE  Same
  BY <1>1 DEF ledgerVars, vars
<1>2. ASSUME NEW s \in Supports,
             Initiate(s) \/ CreateSupport(s) \/ AbandonCheckout(s)
      PROVE  Same
  BY <1>1, <1>2 DEF Initiate, CreateSupport, AbandonCheckout
<1>3. ASSUME NEW p \in Calls, NEW next, Reads(p, next)
      PROVE  Same
  BY <1>1, <1>3 DEF Reads
<1>4. ASSUME NEW p \in Calls, NEW s \in Supports, Verify(p, s) \/ Webhook(p, s)
      PROVE  Same
  BY <1>3, <1>4 DEF Verify, Webhook
<1>5. ASSUME NEW p \in Calls, Crash(p)
      PROVE  Same
  BY <1>1, <1>5 DEF Crash
<1>6. ASSUME NEW p \in Calls, CallStep(p)
      PROVE  Same
  <2>1. CASE MarkFailed(p)
    BY <1>0, <2>1 DEF MarkFailed, MarkPaymentFailed
  <2>2. CASE RecordWebhook(p) \/ FinishWebhook(p)
    BY <1>1, <2>2 DEF RecordWebhook, FinishWebhook
  <2>3. CASE \/ RecheckWebhook(p) \/ LookUp(p) \/ LoadSupport(p)
             \/ LoadIntent(p) \/ ChapaAnswers(p) \/ ChapaUnavailable(p)
             \/ AlreadyApplied(p) \/ RewardRefused(p) \/ TransitionRefused(p)
    BY <2>3, <1>3 DEF RecheckWebhook, LookUp, LoadSupport, LoadIntent,
                      ChapaAnswers, ChapaUnavailable, AlreadyApplied,
                      RewardRefused, TransitionRefused
  <2>4. ~ApplyPayment(p)
    BY DEF Other
  <2> QED BY <1>6, <2>1, <2>2, <2>3, <2>4 DEF CallStep
<1>7. ASSUME UNCHANGED payVars
      PROVE  Same
  BY <1>1, <1>7 DEF payVars
<1>8. Same
  <2>1. \A s \in Supports : ~ProviderDecides(s) /\ ~Settle(s)
    BY DEF Other
  <2> HIDE DEF Same
  <2>2. CASE PaymentNext
    BY <1>2, <1>4, <1>5, <1>6, <2>1, <2>2 DEF PaymentNext
  <2> QED BY <1>7, <2>2
<1>9. /\ UNCHANGED effectVars
      /\ UNCHANGED totalEarned
      /\ \A s \in Supports : support'[s].applied = support[s].applied
  BY OnlyApplyPaymentDelivers DEF Other
<1>10. /\ {s \in Supports : provider'[s] = "success"}
           = {s \in Supports : provider[s] = "success"}
       /\ {s \in Supports : support'[s].applied}
           = {s \in Supports : support[s].applied}
       /\ {s \in Supports : support'[s].settlement = "AVAILABLE"}
           = {s \in Supports : support[s].settlement = "AVAILABLE"}
       /\ unlocked' = unlocked
       /\ totalEarned' = totalEarned
  BY <1>8, <1>9 DEF effectVars
<1> QED BY <1>10 DEF Contract!contractVars

\* Every other step is one of the contract's.
LEMMA ContractStep ==
  ASSUME PayInv, EffectsInv, PostingsMatchRows, [PaymentNext]_payVars
  PROVE  [Contract!ContractNext]_(Contract!contractVars)
<1>0. support \in [Supports -> [status     : PaymentStatus,
                                applied    : BOOLEAN,
                                settlement : {"PENDING", "AVAILABLE"}]]
  BY DEF PayInv, RowsOK, TypeOK, SupportTypeOK
<1>1. ASSUME NEW p \in Calls, ApplyPayment(p)
      PROVE  Contract!ContractNext
  <2>0. PICK s \in Supports : s = call[p].s
    BY <1>1, ApplyPaymentDelivers
  <2> DEFINE r == RewardOf[s]
  <2>1. /\ s \in Supports
        /\ ~support[s].applied
        /\ provider[s] = "success" /\ UNCHANGED provider
        /\ RewardAvailable(s) /\ UnlockReward(s)
        /\ \A t \in Supports :
             /\ support'[t].applied = (support[t].applied \/ t = s)
             /\ t # s => support'[t] = support[t]
        /\ support'[s].settlement = "PENDING"
        /\ totalEarned' = [totalEarned EXCEPT ![CreatorOf[s]] = @ + Net[s]]
    BY <1>1, <2>0, ApplyPaymentDelivers
  <2>2. /\ s \in {t \in Supports : provider[t] = "success"}
                  \ {t \in Supports : support[t].applied}
        /\ {t \in Supports : support'[t].applied}
             = {t \in Supports : support[t].applied} \cup {s}
        /\ {t \in Supports : provider'[t] = "success"}
             = {t \in Supports : provider[t] = "success"}
    BY <2>1
  <2>3. {t \in Supports : support'[t].settlement = "AVAILABLE"}
          = {t \in Supports : support[t].settlement = "AVAILABLE"}
    <3>1. support[s].settlement # "AVAILABLE"
      BY <2>1 DEF PostingsMatchRows
    <3> QED BY <2>1, <3>1
  <2>4. r \in Rewards \cup {NoReward} /\ NoReward \notin Rewards
    BY <2>1, PaymentAssumption
  <2>5. IF r \in Rewards
          THEN /\ Cardinality({t \in unlocked : RewardOf[t] = r}) < MaxQuantity[r]
               /\ unlocked' = unlocked \cup {s}
          ELSE UNCHANGED unlocked
    <3>1. CASE r \in Rewards
      <4>1. claimedCount[r] < MaxQuantity[r]
        BY <2>1, <2>4, <3>1 DEF RewardAvailable
      <4>2. claimedCount[r] = Cardinality({t \in unlocked : RewardOf[t] = r})
        BY <3>1 DEF EffectsInv, RewardsAreLimited
      <4>3. unlocked' = unlocked \cup {s}
        BY <2>1, <2>4, <3>1 DEF UnlockReward
      <4> QED BY <3>1, <4>1, <4>2, <4>3
    <3>2. CASE r \notin Rewards
      BY <2>1, <2>4, <3>2 DEF UnlockReward
    <3> QED BY <3>1, <3>2
  <2>6. Contract!Credit(s)
    <3>1. CASE r \in Rewards
      <4>1. /\ Cardinality({t \in unlocked : RewardOf[t] = r}) < MaxQuantity[r]
            /\ unlocked' = unlocked \cup {s}
        BY <2>5, <3>1
      <4>2. \A S : Contract!Cardinality(S) = Cardinality(S)
        BY DEF Contract!Cardinality, Cardinality
      <4> QED BY <2>1, <2>2, <2>3, <3>1, <4>1, <4>2 DEF Contract!Credit, Contract!Owners
    <3>2. CASE r \notin Rewards
      <4>1. UNCHANGED unlocked
        BY <2>5, <3>2
      <4> QED BY <2>1, <2>2, <2>3, <3>2, <4>1 DEF Contract!Credit
    <3> QED BY <3>1, <3>2
  <2> QED BY <2>6 DEF Contract!ContractNext
<1>2. ASSUME NEW s \in Supports, ProviderDecides(s)
      PROVE  [Contract!ContractNext]_(Contract!contractVars)
  <2>1. /\ support' = support /\ totalEarned' = totalEarned
        /\ unlocked' = unlocked
        /\ provider[s] = "pending"
        /\ \E outcome \in {"success", "mismatch", "failed"} :
             provider' = [provider EXCEPT ![s] = outcome]
    BY <1>2 DEF ProviderDecides, ledgerVars, vars, effectVars
  <2>2. /\ provider \in [Supports -> {"pending", "success", "mismatch", "failed"}]
    BY DEF PayInv, RowsOK
  <2>3. CASE provider'[s] = "success"
    <3>1. {t \in Supports : provider'[t] = "success"}
            = {t \in Supports : provider[t] = "success"} \cup {s}
      BY <2>1, <2>2, <2>3
    <3>2. Contract!Capture(s)
      BY <2>1, <3>1 DEF Contract!Capture
    <3> QED BY <3>2 DEF Contract!ContractNext
  <2>4. CASE provider'[s] # "success"
    <3>1. {t \in Supports : provider'[t] = "success"}
            = {t \in Supports : provider[t] = "success"}
      BY <2>1, <2>2, <2>4
    <3> QED BY <2>1, <3>1 DEF Contract!contractVars
  <2> QED BY <2>3, <2>4
<1>3. ASSUME NEW s \in Supports, Settle(s)
      PROVE  Contract!ContractNext
  <2>1. /\ support[s].settlement = "PENDING" /\ support[s].applied
        /\ support' = [support EXCEPT ![s].settlement = "AVAILABLE"]
        /\ totalEarned' = totalEarned
        /\ unlocked' = unlocked /\ provider' = provider
    BY <1>3 DEF Settle, SettleSupport, effectVars
  <2>2. {t \in Supports : support'[t].applied} = {t \in Supports : support[t].applied}
    BY <1>0, <2>1
  <2>3. /\ s \in {t \in Supports : support[t].applied}
                 \ {t \in Supports : support[t].settlement = "AVAILABLE"}
        /\ {t \in Supports : support'[t].settlement = "AVAILABLE"}
             = {t \in Supports : support[t].settlement = "AVAILABLE"} \cup {s}
    BY <1>0, <2>1
  <2>4. Contract!Release(s)
    BY <2>1, <2>2, <2>3 DEF Contract!Release
  <2> QED BY <2>4 DEF Contract!ContractNext
<1>4. CASE Other
  BY <1>4, OtherStepsStutter
<1> QED BY <1>1, <1>2, <1>3, <1>4 DEF Other

\* Whatever calls, deliveries and crashes a payment goes through, it is one to
\* its supporter and creator that was captured, credited once with what it
\* buys, and released after that.
THEOREM PaymentsKeepContract ==
  ASSUME IsFiniteSet(Supports)
  PROVE  PaymentSpec => KeepsContract
<1>1. PaymentInit => Contract!ContractInit
  BY DEF PaymentInit, Init, Contract!ContractInit
<1>2. PaymentSpec => []PostingsMatchRows
  BY PaymentsImplementLedger, PostingsOnce, PTL
<1>3. PayInv /\ EffectsInv /\ PostingsMatchRows /\ [PaymentNext]_payVars
        => [Contract!ContractNext]_(Contract!contractVars)
  BY ContractStep
<1> QED
  BY <1>1, <1>2, <1>3, PayInvHolds, EffectsInvHolds, PTL
     DEF PaymentSpec, KeepsContract, Contract!ContractSpec

-----------------------------------------------------------------------------
(* When an outcome is wrong, and when it changes. *)

\* A support is marked as failed only on the provider's word: that the payment
\* failed, or that it was still pending.
THEOREM FailuresAreTrue == PaymentSpec => []FailureIsTrue
<1>1. PayInv => FailureIsTrue
  BY DEF PayInv, RowsTrue, Marked, MarkedEarly, FailureIsTrue
<1> QED BY <1>1, PayInvHolds, PTL

\* The two transactions of a payment are the only steps that write a status,
\* and each overwrites the other's only after a mark made too early: a call
\* with the report of a failure finds no completed support, since completed
\* supports were paid, and one with the report of a success no support that
\* was marked on the report of a failure.
LEMMA OutcomeStep ==
  ASSUME PayInv, [PaymentNext]_payVars, NEW s \in Supports
  PROVE  (CompletedStays(s) /\ FailedStays(s)) \/ MarkedEarly(s)'
<1> DEFINE Goal == (CompletedStays(s) /\ FailedStays(s)) \/ MarkedEarly(s)'
<1>0. /\ RunningHasSupport
      /\ \A p \in Calls : CallTrue(p)
      /\ RowsTrue
      /\ support \in [Supports -> [status     : PaymentStatus,
                                    applied    : BOOLEAN,
                                    settlement : {"PENDING", "AVAILABLE"}]]
  BY HasSupport DEF PayInv, RowsOK, TypeOK, SupportTypeOK
<1>1. ASSUME support'[s].status = support[s].status
      PROVE  Goal
  BY <1>1 DEF CompletedStays, FailedStays
<1>2. ASSUME NEW t \in Supports,
             \/ Initiate(t) \/ CreateSupport(t) \/ AbandonCheckout(t)
             \/ ProviderDecides(t)
      PROVE  Goal
  BY <1>1, <1>2 DEF Initiate, CreateSupport, AbandonCheckout, ProviderDecides,
                    ledgerVars, vars
<1>3. ASSUME NEW t \in Supports, Settle(t)
      PROVE  Goal
  BY <1>0, <1>1, <1>3 DEF Settle, SettleSupport
<1>4. ASSUME NEW p \in Calls, NEW next, Reads(p, next)
      PROVE  Goal
  BY <1>1, <1>4 DEF Reads, ledgerVars, vars
<1>5. ASSUME NEW p \in Calls, NEW t \in Supports, Verify(p, t) \/ Webhook(p, t)
      PROVE  Goal
  BY <1>4, <1>5 DEF Verify, Webhook
<1>6. ASSUME NEW p \in Calls, Crash(p)
      PROVE  Goal
  BY <1>1, <1>6 DEF Crash, ledgerVars, vars
<1>7. ASSUME NEW p \in Calls, CallStep(p)
      PROVE  Goal
  <2> DEFINE t == call[p].s
  <2>1. CASE ApplyPayment(p)
    <3>1. t \in Supports /\ provider[t] = "success"
      BY <1>0, <2>1 DEF ApplyPayment, RunningHasSupport, CallTrue
    <3>2. /\ support'[t].status = "COMPLETED" /\ marked' = marked
          /\ \A u \in Supports \ {t} : support'[u] = support[u]
      BY <1>0, <2>1, <3>1 DEF ApplyPayment, CompletePayment
    <3> HIDE DEF t
    <3>3. support[t].status = "FAILED" => <<t, "pending">> \in marked'
      BY <1>0, <3>1, <3>2 DEF RowsTrue, Marked, MarkedEarly
    <3> QED BY <3>1, <3>2, <3>3 DEF CompletedStays, FailedStays, MarkedEarly
  <2>2. CASE MarkFailed(p)
    <3>1. /\ t \in Supports
          /\ call[p].report \in {"pending", "failed"}
          /\ call[p].report = "failed" => provider[t] = "failed"
      BY <1>0, <2>2 DEF MarkFailed, RunningHasSupport, CallTrue
    <3>2. /\ support'[t].status = "FAILED"
          /\ marked' = marked \cup {<<t, call[p].report>>}
          /\ \A u \in Supports \ {t} : support'[u] = support[u]
      BY <1>0, <2>2, <3>1 DEF MarkFailed, MarkPaymentFailed
    <3> HIDE DEF t
    <3>3. support[t].status = "COMPLETED" => <<t, "pending">> \in marked'
      BY <1>0, <3>1, <3>2 DEF RowsTrue, MarkedEarly
    <3> QED BY <3>1, <3>2, <3>3 DEF CompletedStays, FailedStays, MarkedEarly
  <2>3. CASE RecordWebhook(p) \/ FinishWebhook(p)
    BY <1>1, <2>3 DEF RecordWebhook, FinishWebhook, ledgerVars, vars
  <2>4. CASE \/ RecheckWebhook(p) \/ LookUp(p) \/ LoadSupport(p)
             \/ LoadIntent(p) \/ ChapaAnswers(p) \/ ChapaUnavailable(p)
             \/ AlreadyApplied(p) \/ RewardRefused(p) \/ TransitionRefused(p)
    BY <2>4, <1>4 DEF RecheckWebhook, LookUp, LoadSupport, LoadIntent,
                      ChapaAnswers, ChapaUnavailable, AlreadyApplied,
                      RewardRefused, TransitionRefused
  <2> QED BY <1>7, <2>1, <2>2, <2>3, <2>4 DEF CallStep
<1>8. ASSUME UNCHANGED payVars
      PROVE  Goal
  BY <1>1, <1>8 DEF payVars, ledgerVars, vars
<1> HIDE DEF Goal
<1>9. ASSUME PaymentNext
      PROVE  Goal
  BY <1>2, <1>3, <1>5, <1>6, <1>7, <1>9 DEF PaymentNext
<1>10. Goal
  BY <1>8, <1>9
<1> QED BY <1>10 DEF Goal

\* No overlap of calls, retry or crash overwrites an outcome with another,
\* unless a call took a pending payment for a failed one.
THEOREM OutcomesAreFinal == PaymentSpec => DecidedOnce
<1>1. PayInv /\ [PaymentNext]_payVars
        => [\A s \in Supports : \/ CompletedStays(s) /\ FailedStays(s)
                                \/ MarkedEarly(s)']_payVars
  BY OutcomeStep
<1> QED BY <1>1, PayInvHolds, PTL DEF PaymentSpec, DecidedOnce
=============================================================================
