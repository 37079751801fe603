------------------------------- MODULE Outbox -------------------------------
(***************************************************************************)
(* What happens after a payment was captured: the two outbox events of a   *)
(* support are picked up by the cron job support-outbox-processor, one is  *)
(* projected into the creator's statistics, notifications and fan badges   *)
(* (support-projection), the other sent to the creator over Telegram.      *)
(*                                                                         *)
(* A run of the job is a process.  Several overlap: the job starts every   *)
(* minute, whether or not the last run has ended, in every instance of the *)
(* server.  Each step is one await.  Runs keep off each other by a claim   *)
(* on the event, a time that lapses after five minutes and that names no   *)
(* owner.  Times are counted in ticks since the claim, or since the start  *)
(* of the run.                                                             *)
(***************************************************************************)
EXTENDS Naturals, FiniteSets

CONSTANTS
  Supports,    \* supports of one creator, numbered as their events are created
  Messages,    \* those whose Telegram event is followed as well
  Early,       \* those a call was told are pending and is still at work on
  SupporterOf, \* the identity a support is counted under
  SignedIn,    \* the supporters who have an account
  TopFan,      \* completed supports that make a TOP_FAN (3)
  Runs,        \* runs of the job, reused once ended
  NoEvent,     \* the event of a run that has claimed none
  NoClaim,     \* processingStartedAt is null
  StaleAfter,  \* SUPPORT_OUTBOX_STALE_CLAIM_MS, in ticks
  MaxRun       \* bound on the duration of a run, in ticks

\* The rows the model follows.  A Telegram event that is left out would only
\* take the time of a run, and time may pass anyway.
Events == (Supports \X {"PROJECTIONS"}) \cup (Messages \X {"TELEGRAM"})
MaxAge == MaxRun + StaleAfter + 1

ASSUME OutboxAssumption ==
  /\ Supports \subseteq Nat
  /\ Messages \subseteq Supports
  /\ NoEvent \notin Events
  /\ NoClaim \notin Nat
  /\ TopFan \in Nat \ {0}
  /\ {StaleAfter, MaxRun} \subseteq Nat

VARIABLES
  completed,       \* supports whose payment is COMPLETED
  overwritten,     \* supports that were COMPLETED and are FAILED now
  event,           \* "absent", "pending" or, with processedAt, "processed"
  claim,           \* ticks since processingStartedAt, or NoClaim
  totalSupports,   \* of the creator's profile
  totalSupporters,
  notices,         \* SUPPORT_RECEIVED notifications per support
  badges,          \* supporters with a TOP_FAN badge
  answered,        \* supports whose message Telegram accepted, or refused
                   \* for good
  run              \* what each run has read and where it is

statistics == <<totalSupports, totalSupporters, notices, badges>>
payments   == <<completed, overwritten>>
vars == <<payments, event, claim, statistics, answered, run>>

Paid == completed \cup overwritten

Idle == [pc |-> "idle", queue |-> {}, event |-> NoEvent, age |-> 0,
         total |-> 0, previous |-> 0]

Init ==
  /\ completed       = {}
  /\ overwritten     = {}
  /\ event           = [e \in Events |-> "absent"]
  /\ claim           = [e \in Events |-> NoClaim]
  /\ totalSupports   = 0
  /\ totalSupporters = 0
  /\ notices         = [s \in Supports |-> 0]
  /\ badges          = {}
  /\ answered        = {}
  /\ run             = [r \in Runs |-> Idle]

-----------------------------------------------------------------------------
(* Payments and time. *)

\* A payment commits, and with it its events (enqueuePaymentCompleted).
Complete(s) ==
  /\ s \notin Paid
  /\ completed' = completed \cup {s}
  /\ event' = [e \in Events |-> IF e[1] = s THEN "pending" ELSE event[e]]
  /\ UNCHANGED <<overwritten, claim, statistics, answered, run>>

\* A call that was told earlier that the payment is pending marks it as failed
\* (MarkFailed of Payment).  The events stay; no call completes it again.
Overwrite(s) ==
  /\ s \in Early \cap completed
  /\ completed'   = completed \ {s}
  /\ overwritten' = overwritten \cup {s}
  /\ UNCHANGED <<event, claim, statistics, answered, run>>

\* One tick later: running runs and claims are older.
Older(c) == IF c = NoClaim \/ c = MaxAge THEN c ELSE c + 1

\* Time passes while a run waits for Telegram or is between two events.  The
\* queries from a claim to the end of its projection take no tick: Prisma
\* gives a transaction up after two seconds of waiting and five of running.
Tick ==
  /\ \E r \in Runs : run[r].pc # "idle"
     \/ \E e \in Events : claim[e] # NoClaim
  /\ \A r \in Runs : /\ run[r].pc \in {"idle", "next", "send"}
                     /\ run[r].age < MaxRun
  /\ claim' = [e \in Events |-> Older(claim[e])]
  /\ run' = [r \in Runs |-> IF run[r].pc = "idle" THEN run[r]
                              ELSE [run[r] EXCEPT !.age = @ + 1]]
  /\ UNCHANGED <<payments, event, statistics, answered>>

-----------------------------------------------------------------------------
(* processPendingEvents *)

Goto(r, pc) == [run EXCEPT ![r].pc = pc]

\* The loop goes on with the rest of the queue; after the last event the run
\* has ended.
Continue(r, rest) ==
  [run EXCEPT ![r] = IF rest = {} THEN Idle
                       ELSE [Idle EXCEPT !.pc    = "next",
                                         !.queue = rest,
                                         !.age   = run[r].age]]
NextEvent(r) == Continue(r, run[r].queue)

\* Faulty variant: whatever was listed may be claimed.
Claimable_AnyClaim(e, age) == event[e] = "pending"

\* Unprocessed, and unclaimed or claimed before staleBefore, which is computed
\* once, when the run starts; age is how long that is ago.
Claimable(e, age) ==
  /\ event[e] = "pending"
  /\ claim[e] # NoClaim => claim[e] > age + StaleAfter

\* The job lists the events.  The limit of fifty is left out: what it cuts off
\* is listed by a later run.
Start(r) ==
  /\ run[r].pc = "idle"
  /\ \E e \in Events : Claimable(e, 0)
  /\ run' = [run EXCEPT ![r].pc    = "next",
                        ![r].queue = {e \in Events : Claimable(e, 0)}]
  /\ UNCHANGED <<payments, event, claim, statistics, answered>>

\* Oldest first; the two events of a support are of the same time.
Oldest(queue) == {e \in queue : \A f \in queue : e[1] <= f[1]}

\* The conditional update that claims the event of the next iteration; an event
\* that is no longer claimable is skipped.
Claim(r) ==
  /\ run[r].pc = "next"
  /\ \E e \in Oldest(run[r].queue) :
       IF Claimable(e, run[r].age)
         THEN /\ claim' = [claim EXCEPT ![e] = 0]
              /\ run' = [run EXCEPT
                           ![r].queue = @ \ {e},
                           ![r].event = e,
                           ![r].pc    = IF e[2] = "TELEGRAM" THEN "load"
                                                             ELSE "project"]
         ELSE /\ run' = Continue(r, run[r].queue \ {e})
              /\ UNCHANGED claim
  /\ UNCHANGED <<payments, event, statistics, answered>>

\* The row is marked as processed and loses its claim, whoever holds it.
Processed(e) ==
  /\ event' = [event EXCEPT ![e] = "processed"]
  /\ claim' = [claim EXCEPT ![e] = NoClaim]

\* The catch block: the claim is removed, whoever holds it.
Release(r) ==
  /\ run[r].pc = "release"
  /\ claim' = [claim EXCEPT ![run[r].event] = NoClaim]
  /\ run' = NextEvent(r)
  /\ UNCHANGED <<payments, event, statistics, answered>>

\* Server restart.
Crash(r) ==
  /\ run[r].pc # "idle"
  /\ run' = [run EXCEPT ![r] = Idle]
  /\ UNCHANGED <<payments, event, claim, statistics, answered>>

-----------------------------------------------------------------------------
(* The transaction of a projection.  It reads committed data, query by query, *)
(* until the update of the creator's profile locks that row; from there on    *)
(* transactions for one creator follow each other.                            *)

\* Skipped if the event was processed in the meantime.
CountSupports(r) ==
  /\ run[r].pc = "project"
  /\ run' = IF event[run[r].event] = "processed"
              THEN NextEvent(r)
              ELSE [run EXCEPT ![r].pc    = "previous",
                               ![r].total = Cardinality(completed)]
  /\ UNCHANGED <<payments, event, claim, statistics, answered>>

\* Faulty variant: the support itself is counted among the previous ones.
Previous_Inclusive(s) ==
  Cardinality({t \in completed : SupporterOf[t] = SupporterOf[s]})

\* Faulty variant: only supports that were projected are counted.
Previous_Projected(s) ==
  Cardinality({t \in completed : /\ SupporterOf[t] = SupporterOf[s]
                                 /\ event[<<t, "PROJECTIONS">>] = "processed"})

\* previousCompletedSupport.  Who counts as the same supporter is taken to be
\* settled by SupporterOf.  The code compares the account of a support that has
\* one, else the email, else the name, with that field of all the others.
Previous(s) ==
  Cardinality({t \in completed \ {s} : SupporterOf[t] = SupporterOf[s]})

CountPrevious(r) ==
  /\ run[r].pc = "previous"
  /\ run' = [run EXCEPT ![r].pc       = "commit",
                        ![r].previous = Previous(run[r].event[1])]
  /\ UNCHANGED <<payments, event, claim, statistics, answered>>

\* The writes, with the numbers counted before.  Campaigns, deep links and
\* feature requests, which a support may name, are written like the notice.
CommitProjection(r) ==
  LET s == run[r].event[1] IN
  /\ run[r].pc = "commit"
  /\ totalSupports' = run[r].total
  /\ totalSupporters' = totalSupporters + (IF run[r].previous = 0 THEN 1 ELSE 0)
  /\ notices' = [notices EXCEPT ![s] = @ + 1]
  /\ badges' = IF SupporterOf[s] \in SignedIn /\ run[r].previous + 1 >= TopFan
                 THEN badges \cup {SupporterOf[s]} ELSE badges
  /\ Processed(run[r].event)
  /\ run' = NextEvent(r)
  /\ UNCHANGED <<payments, answered>>

\* The transaction fails and leaves no trace, whichever query it fails at; so
\* let it be the first.
FailProjection(r) ==
  /\ run[r].pc = "project"
  /\ run' = Goto(r, "release")
  /\ UNCHANGED <<payments, event, claim, statistics, answered>>

-----------------------------------------------------------------------------
(* processTelegramEvent *)

\* Skipped, too, if the event was processed in the meantime.
LoadMessage(r) ==
  /\ run[r].pc = "load"
  /\ run' = IF event[run[r].event] = "processed" THEN NextEvent(r)
                                                 ELSE Goto(r, "send")
  /\ UNCHANGED <<payments, event, claim, statistics, answered>>

\* Telegram answers: the message was delivered, or (400, 403, 404) never will.
\* Nobody is asked, and the message never will be delivered, if there is no bot
\* or the creator has not linked an account.
Deliver(r) ==
  /\ run[r].pc = "send"
  /\ answered' = answered \cup {run[r].event[1]}
  /\ run' = Goto(r, "mark")
  /\ UNCHANGED <<payments, event, claim, statistics>>

\* Faulty variant: any failure counts as final.
DeliveryFails_Final(r) ==
  /\ run[r].pc = "send"
  /\ run' = Goto(r, "mark")
  /\ UNCHANGED <<payments, event, claim, statistics, answered>>

\* No answer or a temporary failure; or a query fails, or the payload lacks one
\* of its fields, as it always does if the supporter left the name empty.
DeliveryFails(r) ==
  /\ run[r].pc \in {"load", "send", "mark"}
  /\ run' = Goto(r, "release")
  /\ UNCHANGED <<payments, event, claim, statistics, answered>>

MarkDelivered(r) ==
  /\ run[r].pc = "mark"
  /\ Processed(run[r].event)
  /\ run' = NextEvent(r)
  /\ UNCHANGED <<payments, statistics, answered>>

-----------------------------------------------------------------------------

\* What a run that has started does by itself.
RunStep(r) ==
  \/ Claim(r) \/ Release(r)
  \/ CountSupports(r) \/ CountPrevious(r)
  \/ CommitProjection(r) \/ FailProjection(r)
  \/ LoadMessage(r) \/ Deliver(r) \/ DeliveryFails(r) \/ MarkDelivered(r)

Next ==
  \/ \E s \in Supports : Complete(s) \/ Overwrite(s)
  \/ \E r \in Runs : Start(r) \/ RunStep(r) \/ Crash(r)
  \/ Tick

\* The server runs what it has started, the job starts again and again, time
\* passes; crashes come to an end; and no event fails for ever: the database and
\* Telegram answer sooner or later, and the supporters of Messages gave a name.
Fairness ==
  /\ SF_vars(Tick)
  /\ SF_vars(\E r \in Runs : Start(r))
  /\ \A r \in Runs : WF_vars(RunStep(r)) /\ <>[][~Crash(r)]_vars
  /\ \A e \in Events, r \in Runs :
       <>[][run[r].event = e => ~FailProjection(r) /\ ~DeliveryFails(r)]_vars

Spec     == Init /\ [][Next]_vars
FairSpec == Spec /\ Fairness
-----------------------------------------------------------------------------
(* Properties. *)

ProjectedSupports == {s \in Supports : event[<<s, "PROJECTIONS">>] = "processed"}

\* A support is projected at most once, and as a whole: its notification exists
\* exactly when its event is marked, although claims lapse, are taken over and
\* are removed by whoever fails.
ProjectedOnce ==
  \A s \in Supports : notices[s] = IF s \in ProjectedSupports THEN 1 ELSE 0

SupportsOf(f) == {s \in Supports : SupporterOf[s] = f}

\* A TOP_FAN badge is given for supports that were paid, and none is forgotten:
\* whatever the projections of a supporter's supports overlap with, the badge
\* is there once the last of those that are still completed is projected.
BadgesAreEarned ==
  \A f \in {SupporterOf[s] : s \in Supports} :
    /\ f \in badges => /\ f \in SignedIn
                       /\ Cardinality(SupportsOf(f) \cap Paid) >= TopFan
    /\ /\ f \in SignedIn
       /\ SupportsOf(f) \cap completed \subseteq ProjectedSupports
       /\ Cardinality(SupportsOf(f) \cap completed) >= TopFan
       => f \in badges

\* Nobody is counted twice in totalSupporters, except for supports of theirs
\* that were marked as failed after they had been completed; and totalSupports
\* never exceeds the supports that were paid.  The opposite fails: see the
\* README.
NeverOvercounted ==
  /\ totalSupporters <=
       Cardinality({SupporterOf[s] : s \in ProjectedSupports \cap completed})
         + Cardinality(ProjectedSupports \ completed)
  /\ totalSupports <= Cardinality(Paid)

\* The events as the contract sees them.
Contract == INSTANCE OutboxContract WITH
  captured <- Paid,
  closed   <- {s \in Messages : event[<<s, "TELEGRAM">>] = "processed"}

\* Each captured support is projected once, and its message is delivered or
\* refused before its event is closed; both happen eventually, in spite of
\* overlapping runs, lapsed claims, crashes and a failing Telegram.
KeepsOutboxContract == Contract!ContractSpec
=============================================================================
