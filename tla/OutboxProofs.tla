---------------------------- MODULE OutboxProofs ----------------------------
(***************************************************************************)
(* Proofs about Outbox for any number of supports, supporters and runs of  *)
(* the job, whenever claims lapse.                                         *)
(***************************************************************************)
EXTENDS Outbox, FiniteSetTheorems, TLAPS

Projecting == {"project", "previous", "commit"}
Informing  == {"load", "send", "mark"}

RunState ==
  [pc       : {"idle", "next", "release"} \cup Projecting \cup Informing,
   queue    : SUBSET Events,
   event    : Events \cup {NoEvent},
   age      : Nat,
   total    : Nat,
   previous : Nat]

OutboxTypeOK ==
  /\ completed \in SUBSET Supports /\ IsFiniteSet(completed)
  /\ overwritten \in SUBSET Supports /\ IsFiniteSet(overwritten)
  /\ completed \cap overwritten = {}
  /\ event \in [Events -> {"absent", "pending", "processed"}]
  /\ claim \in [Events -> Nat \cup {NoClaim}]
  /\ totalSupports \in Nat
  /\ totalSupporters \in Nat
  /\ notices \in [Supports -> Nat]
  /\ run \in [Runs -> RunState]

\* An event is written with the payment it belongs to.
EventsFollowPayments ==
  \A e \in Events : event[e] # "absent" => e[1] \in Paid

\* What a run works on: it goes through the steps of the event's kind.
KeepsToItsEvent(r) ==
  /\ run[r].pc \in Projecting => run[r].event \in Supports \X {"PROJECTIONS"}
  /\ run[r].pc \in Informing  => run[r].event \in Messages \X {"TELEGRAM"}
  /\ run[r].pc \notin {"idle", "next"} => /\ run[r].event \in Events
                                          /\ event[run[r].event] # "absent"
  /\ run[r].pc = "mark" => run[r].event[1] \in answered

RunsKeepToTheirEvent == \A r \in Runs : KeepsToItsEvent(r)

\* A run that projects an event, or is about to release it.
Holds(r, e) ==
  /\ run[r].event = e
  /\ \/ run[r].pc \in Projecting
     \/ run[r].pc = "release" /\ e[2] = "PROJECTIONS"

\* The claim works as a lock for as long as it does not lapse.
OneProjector ==
  \A r \in Runs, e \in Events :
    Holds(r, e) => /\ event[e] = "pending"
                   /\ claim[e] = 0
                   /\ \A q \in Runs : Holds(q, e) => q = r

Locked == OutboxTypeOK /\ EventsFollowPayments /\ RunsKeepToTheirEvent /\ OneProjector

-----------------------------------------------------------------------------
(* Facts about single steps. *)

\* Where a run goes when it is done with an event.
LEMMA ContinueLemma ==
  ASSUME OutboxTypeOK, NEW r \in Runs, NEW rest \in SUBSET Events
  PROVE  /\ Continue(r, rest) \in [Runs -> RunState]
         /\ Continue(r, rest)[r].pc \in {"idle", "next"}
         /\ \A q \in Runs \ {r} : Continue(r, rest)[q] = run[q]
<1> DEFINE new == IF rest = {} THEN Idle
                  ELSE [Idle EXCEPT !.pc = "next", !.queue = rest, !.age = run[r].age]
<1>1. run[r].age \in Nat
  BY DEF OutboxTypeOK, RunState
<1>2. new \in RunState /\ new.pc \in {"idle", "next"}
  BY <1>1 DEF Idle, RunState, Projecting, Informing
<1>3. Continue(r, rest) = [run EXCEPT ![r] = new]
  BY DEF Continue
<1> QED BY <1>2, <1>3 DEF OutboxTypeOK

\* The components of an event.
LEMMA EventLemma ==
  /\ \A e \in Events : e[1] \in Supports /\ e = <<e[1], e[2]>>
  /\ \A s \in Supports : <<s, "PROJECTIONS">> \in Events
  /\ \A s \in Messages : <<s, "TELEGRAM">> \in Events
<1>1. Messages \subseteq Supports
  BY OutboxAssumption
<1>2. ASSUME NEW e \in Supports \X {"PROJECTIONS"}
      PROVE  e[1] \in Supports /\ e = <<e[1], e[2]>>
  OBVIOUS
<1>3. ASSUME NEW e \in Messages \X {"TELEGRAM"}
      PROVE  e[1] \in Supports /\ e = <<e[1], e[2]>>
  BY <1>1
<1> QED BY <1>2, <1>3 DEF Events

\* The previous supports of a supporter are finitely many.
LEMMA PreviousLemma ==
  ASSUME OutboxTypeOK, NEW s
  PROVE  Previous(s) \in Nat
<1> DEFINE others == {t \in completed \ {s} : SupporterOf[t] = SupporterOf[s]}
<1>1. others \in SUBSET completed
  OBVIOUS
<1>2. IsFiniteSet(others)
  BY <1>1, FS_Subset DEF OutboxTypeOK
<1> QED BY <1>2, FS_CardinalityType DEF Previous

\* Types are kept by every step of a run that is where it can be.
LEMMA TypeStep ==
  ASSUME OutboxTypeOK, RunsKeepToTheirEvent, [Next]_vars
  PROVE  OutboxTypeOK'
<1> USE DEF OutboxTypeOK, payments
<1>1. ASSUME NEW s \in Supports, Complete(s)
      PROVE  OutboxTypeOK'
  BY <1>1, FS_AddElement DEF Complete, Paid, statistics
<1>1a. ASSUME NEW s \in Supports, Overwrite(s)
       PROVE  OutboxTypeOK'
  <2>1. IsFiniteSet(completed \ {s}) /\ IsFiniteSet(overwritten \cup {s})
    BY FS_RemoveElement, FS_AddElement
  <2> QED BY <2>1, <1>1a DEF Overwrite, statistics
<1>2. ASSUME NEW r \in Runs, Start(r)
      PROVE  OutboxTypeOK'
  <2> DEFINE list == {e \in Events : Claimable(e, 0)}
  <2>1. list \in SUBSET Events
    OBVIOUS
  <2>2. run' = [run EXCEPT ![r].pc = "next", ![r].queue = list]
    BY <1>2 DEF Start
  <2> HIDE DEF list
  <2>3. run' \in [Runs -> RunState]
    <3> DEFINE new == [run[r] EXCEPT !.pc = "next", !.queue = list]
    <3>1. new \in RunState
      BY <2>1 DEF RunState
    <3>2. run' = [run EXCEPT ![r] = new]
      BY <2>2
    <3> QED BY <3>1, <3>2
  <2> QED BY <2>3, <1>2 DEF Start, statistics
<1>3. ASSUME NEW r \in Runs, Claim(r)
      PROVE  OutboxTypeOK'
  <2>1. PICK e \in Oldest(run[r].queue) :
          IF Claimable(e, run[r].age)
            THEN /\ claim' = [claim EXCEPT ![e] = 0]
                 /\ run' = [run EXCEPT
                              ![r].queue = @ \ {e},
                              ![r].event = e,
                              ![r].pc    = IF e[2] = "TELEGRAM" THEN "load"
                                                                ELSE "project"]
            ELSE /\ run' = Continue(r, run[r].queue \ {e})
                 /\ UNCHANGED claim
    BY <1>3 DEF Claim
  <2>2. run[r].queue \in SUBSET Events /\ e \in Events
    BY DEF RunState, Oldest
  <2>3. UNCHANGED <<payments, event, statistics, answered>>
    BY <1>3 DEF Claim
  <2>4. CASE Claimable(e, run[r].age)
    <3>1. run' \in [Runs -> RunState]
      BY <2>1, <2>2, <2>4 DEF RunState, Projecting, Informing
    <3> QED BY <3>1, <2>1, <2>2, <2>3, <2>4 DEF statistics
  <2>5. CASE ~Claimable(e, run[r].age)
    BY <2>1, <2>2, <2>3, <2>5, ContinueLemma DEF statistics
  <2> QED BY <2>4, <2>5
<1>4. ASSUME NEW r \in Runs, Release(r)
      PROVE  OutboxTypeOK'
  <2>1. run' \in [Runs -> RunState]
    BY <1>4, ContinueLemma DEF Release, NextEvent, RunState
  <2> QED BY <2>1, <1>4 DEF Release, statistics
<1>5. ASSUME NEW r \in Runs, Crash(r)
      PROVE  OutboxTypeOK'
  BY <1>5 DEF Crash, statistics, Idle, RunState
<1>6. ASSUME NEW r \in Runs, CountSupports(r)
      PROVE  OutboxTypeOK'
  <2>1. Cardinality(completed) \in Nat
    BY FS_CardinalityType
  <2>2. CASE event[run[r].event] = "processed"
    BY <1>6, <2>2, ContinueLemma DEF CountSupports, NextEvent, RunState, statistics
  <2>3. CASE event[run[r].event] # "processed"
    <3>1. run' \in [Runs -> RunState]
      <4> DEFINE new == [run[r] EXCEPT !.pc    = "previous",
                                       !.total = Cardinality(completed)]
      <4>1. new \in RunState
        BY <2>1 DEF RunState, Projecting
      <4>2. run' = [run EXCEPT ![r] = new]
        BY <1>6, <2>3 DEF CountSupports
      <4> QED BY <4>1, <4>2
    <3> QED BY <3>1, <1>6 DEF CountSupports, statistics
  <2> QED BY <2>2, <2>3
<1>7. ASSUME NEW r \in Runs, CountPrevious(r)
      PROVE  OutboxTypeOK'
  <2>1. Previous(run[r].event[1]) \in Nat
    BY PreviousLemma
  <2>2. run' \in [Runs -> RunState]
    <3> DEFINE new == [run[r] EXCEPT !.pc       = "commit",
                                     !.previous = Previous(run[r].event[1])]
    <3>1. new \in RunState
      BY <2>1 DEF RunState, Projecting
    <3>2. run' = [run EXCEPT ![r] = new]
      BY <1>7 DEF CountPrevious
    <3> QED BY <3>1, <3>2
  <2> QED BY <2>2, <1>7 DEF CountPrevious, statistics
<1>8. ASSUME NEW r \in Runs, CommitProjection(r)
      PROVE  OutboxTypeOK'
  <2>1. run[r].event \in Events /\ run[r].event[1] \in Supports
    BY <1>8, EventLemma DEF CommitProjection, RunsKeepToTheirEvent, KeepsToItsEvent
  <2>2. run' \in [Runs -> RunState]
    BY <1>8, ContinueLemma DEF CommitProjection, NextEvent, RunState
  <2>3. run[r].total \in Nat
    BY DEF RunState
  <2> QED BY <2>1, <2>2, <2>3, <1>8 DEF CommitProjection, Processed
<1>9. ASSUME NEW r \in Runs, FailProjection(r) \/ DeliveryFails(r)
      PROVE  OutboxTypeOK'
  <2>1. run' = Goto(r, "release")
    BY <1>9 DEF FailProjection, DeliveryFails
  <2>2. run' \in [Runs -> RunState]
    BY <2>1 DEF Goto, RunState
  <2> QED BY <2>2, <1>9 DEF FailProjection, DeliveryFails, statistics
<1>10. ASSUME NEW r \in Runs, LoadMessage(r)
       PROVE  OutboxTypeOK'
  <2>1. run' \in [Runs -> RunState]
    BY <1>10, ContinueLemma DEF LoadMessage, NextEvent, Goto, RunState, Informing
  <2> QED BY <2>1, <1>10 DEF LoadMessage, statistics
<1>11. ASSUME NEW r \in Runs, Deliver(r)
       PROVE  OutboxTypeOK'
  <2>1. run' \in [Runs -> RunState]
    BY <1>11 DEF Deliver, Goto, RunState, Informing
  <2> QED BY <2>1, <1>11 DEF Deliver, statistics
<1>12. ASSUME NEW r \in Runs, MarkDelivered(r)
       PROVE  OutboxTypeOK'
  <2>1. run' \in [Runs -> RunState]
    BY <1>12, ContinueLemma DEF MarkDelivered, NextEvent, RunState
  <2> QED BY <2>1, <1>12 DEF MarkDelivered, Processed, statistics
<1>13. CASE Tick
  <2>1. \A e \in Events : Older(claim[e]) \in Nat \cup {NoClaim}
    BY OutboxAssumption DEF Older
  <2>2. run' \in [Runs -> RunState]
    BY <1>13 DEF Tick, RunState
  <2> QED BY <2>1, <2>2, <1>13 DEF Tick, statistics
<1>14. CASE UNCHANGED vars
  BY <1>14 DEF vars, statistics
<1> QED
  BY <1>1, <1>1a, <1>2, <1>3, <1>4, <1>5, <1>6, <1>7, <1>8, <1>9, <1>10, <1>11,
     <1>12, <1>13, <1>14 DEF Next, RunStep

-----------------------------------------------------------------------------
(* The claim as a lock. *)

\* What a step of one run can change, if it ends up where it holds no event.
LEMMA LeaveLemma ==
  ASSUME Locked, OutboxTypeOK', NEW r \in Runs,
         \A q \in Runs \ {r} : run'[q] = run[q],
         run'[r].pc \in {"idle", "next"},
         UNCHANGED payments, answered' = answered,
         \/ UNCHANGED <<event, claim>>
         \/ UNCHANGED event /\ run[r].pc = "release"
            /\ claim' = [claim EXCEPT ![run[r].event] = NoClaim]
         \/ run[r].pc \in {"commit", "mark"} /\ Processed(run[r].event)
  PROVE  Locked'
<1> USE DEF Locked
<1>1. ASSUME NEW e \in Events, event'[e] # "absent"
      PROVE  e[1] \in Paid'
  <2>1. event[e] # "absent"
    BY <1>1 DEF OutboxTypeOK, RunsKeepToTheirEvent, KeepsToItsEvent, Processed
  <2> QED BY <2>1 DEF EventsFollowPayments, payments, Paid
<1>2. \A e \in Events : event[e] # "absent" => event'[e] # "absent"
  BY DEF OutboxTypeOK, RunsKeepToTheirEvent, KeepsToItsEvent, Processed
<1>3. RunsKeepToTheirEvent'
  <2> SUFFICES ASSUME NEW q \in Runs PROVE KeepsToItsEvent(q)'
    BY DEF RunsKeepToTheirEvent
  <2>1. CASE q = r
    BY <2>1 DEF KeepsToItsEvent, Projecting, Informing
  <2>2. CASE q # r
    BY <2>2, <1>2 DEF RunsKeepToTheirEvent, KeepsToItsEvent
  <2> QED BY <2>1, <2>2
<1>4. OneProjector'
  <2> SUFFICES ASSUME NEW q \in Runs, NEW e \in Events, Holds(q, e)'
               PROVE  /\ event'[e] = "pending"
                      /\ claim'[e] = 0
                      /\ \A p \in Runs : Holds(p, e)' => p = q
    BY DEF OneProjector
  <2>1. q # r
    BY DEF Holds, Projecting
  <2>2. Holds(q, e)
    BY <2>1 DEF Holds
  <2>3. event[e] = "pending" /\ claim[e] = 0 /\ \A p \in Runs : Holds(p, e) => p = q
    BY <2>2 DEF OneProjector
  <2>4. \A p \in Runs : Holds(p, e)' => p = q
    <3> SUFFICES ASSUME NEW p \in Runs, Holds(p, e)'
                 PROVE  p = q
      OBVIOUS
    <3>1. p # r
      BY DEF Holds, Projecting
    <3>2. Holds(p, e)
      BY <3>1 DEF Holds
    <3> QED BY <3>2, <2>3
  <2>5. e[2] = "PROJECTIONS"
    BY <2>2 DEF Holds, RunsKeepToTheirEvent, KeepsToItsEvent
  <2>6. run[r].pc \in {"commit", "mark", "release"} => run[r].event # e
    BY <2>1, <2>3, <2>5 DEF Holds, RunsKeepToTheirEvent, KeepsToItsEvent, Projecting, Informing
  <2> QED BY <2>3, <2>4, <2>6 DEF Processed, OutboxTypeOK
<1> QED BY <1>1, <1>3, <1>4 DEF EventsFollowPayments

\* What a step of one run can change, if it goes on with its event.
LEMMA StayLemma ==
  ASSUME Locked, OutboxTypeOK', NEW r \in Runs,
         \A q \in Runs \ {r} : run'[q] = run[q],
         run'[r].event = run[r].event,
         UNCHANGED <<payments, event, claim>>,
         answered \subseteq answered',
         \/ /\ run[r].pc \in Projecting
            /\ run'[r].pc \in Projecting \cup {"release"}
         \/ /\ run[r].pc \in Informing
            /\ run'[r].pc \in Informing \cup {"release"}
            /\ run'[r].pc = "mark" => run[r].event[1] \in answered'
  PROVE  Locked'
<1> USE DEF Locked
<1>1. EventsFollowPayments'
  BY DEF EventsFollowPayments, payments, Paid
<1>2. RunsKeepToTheirEvent'
  <2> SUFFICES ASSUME NEW q \in Runs PROVE KeepsToItsEvent(q)'
    BY DEF RunsKeepToTheirEvent
  <2>1. CASE q = r
    BY <2>1 DEF RunsKeepToTheirEvent, KeepsToItsEvent, Projecting, Informing
  <2>2. CASE q # r
    BY <2>2 DEF RunsKeepToTheirEvent, KeepsToItsEvent
  <2> QED BY <2>1, <2>2
<1>3. ASSUME NEW q \in Runs, NEW e \in Events, Holds(q, e)'
      PROVE  Holds(q, e)
  <2>1. CASE q = r
    BY <1>3, <2>1 DEF Holds, RunsKeepToTheirEvent, KeepsToItsEvent, Projecting, Informing
  <2>2. CASE q # r
    BY <1>3, <2>2 DEF Holds
  <2> QED BY <2>1, <2>2
<1>4. OneProjector'
  BY <1>3 DEF OneProjector
<1> QED BY <1>1, <1>2, <1>4

\* A claim that succeeds was not held by anyone.
LEMMA ClaimLemma ==
  ASSUME Locked, OutboxTypeOK', NEW r \in Runs, NEW e \in Events,
         run[r].pc = "next", Claimable(e, run[r].age),
         claim' = [claim EXCEPT ![e] = 0],
         \A q \in Runs \ {r} : run'[q] = run[q],
         run'[r].event = e,
         run'[r].pc = IF e[2] = "TELEGRAM" THEN "load" ELSE "project",
         UNCHANGED <<payments, event, answered>>
  PROVE  Locked'
<1> USE DEF Locked
<1>1. EventsFollowPayments'
  BY DEF EventsFollowPayments, payments, Paid
<1>2. /\ event[e] = "pending"
      /\ claim[e] # 0
  BY OutboxAssumption DEF Claimable, OutboxTypeOK, RunState
<1>3. \/ e \in Supports \X {"PROJECTIONS"} /\ e[2] = "PROJECTIONS"
      \/ e \in Messages \X {"TELEGRAM"} /\ e[2] = "TELEGRAM"
  BY DEF Events
<1>4. RunsKeepToTheirEvent'
  <2> SUFFICES ASSUME NEW q \in Runs PROVE KeepsToItsEvent(q)'
    BY DEF RunsKeepToTheirEvent
  <2>1. CASE q = r
    BY <2>1, <1>2, <1>3 DEF KeepsToItsEvent, Projecting, Informing
  <2>2. CASE q # r
    BY <2>2 DEF RunsKeepToTheirEvent, KeepsToItsEvent
  <2> QED BY <2>1, <2>2
<1>5. OneProjector'
  <2> SUFFICES ASSUME NEW q \in Runs, NEW f \in Events, Holds(q, f)'
               PROVE  /\ event'[f] = "pending"
                      /\ claim'[f] = 0
                      /\ \A p \in Runs : Holds(p, f)' => p = q
    BY DEF OneProjector
  <2>1. \A p \in Runs \ {r}, g \in Events : Holds(p, g)' => Holds(p, g)
    BY DEF Holds
  <2>2. \A p \in Runs : ~Holds(p, e)
    BY <1>2 DEF OneProjector
  <2>3. \A g \in Events : Holds(r, g)' => g = e
    BY DEF Holds
  <2>4. CASE f = e
    BY <2>1, <2>2, <2>4, <1>2 DEF OutboxTypeOK
  <2>5. CASE f # e
    <3>1. q # r /\ Holds(q, f)
      BY <2>1, <2>3, <2>5
    <3> QED BY <3>1, <2>1, <2>3, <2>5 DEF OneProjector, OutboxTypeOK
  <2> QED BY <2>4, <2>5
<1> QED BY <1>1, <1>4, <1>5

LEMMA LockedInit == Init => Locked
<1> SUFFICES ASSUME Init PROVE Locked
  OBVIOUS
<1>1. OutboxTypeOK
  <2>1. Idle \in RunState
    BY DEF Idle, RunState
  <2> QED BY <2>1, FS_EmptySet DEF Init, OutboxTypeOK
<1>2. EventsFollowPayments
  BY DEF Init, EventsFollowPayments
<1>3. RunsKeepToTheirEvent /\ OneProjector
  BY DEF Init, Idle, RunsKeepToTheirEvent, KeepsToItsEvent, OneProjector,
         Holds, Projecting, Informing
<1> QED BY <1>1, <1>2, <1>3 DEF Locked

LEMMA LockedStep ==
  ASSUME Locked, [Next]_vars
  PROVE  Locked'
<1>1. OutboxTypeOK'
  BY TypeStep DEF Locked
<1>2. ASSUME NEW s \in Supports, Complete(s)
      PROVE  Locked'
  <2> USE <1>2 DEF Complete
  <2>1. \A e \in Events : e[1] = s => event[e] = "absent"
    BY DEF Locked, EventsFollowPayments, OutboxTypeOK
  <2>2. \A e \in Events : event'[e] = IF e[1] = s THEN "pending" ELSE event[e]
    OBVIOUS
  <2>3. EventsFollowPayments'
    BY <2>2 DEF Locked, EventsFollowPayments, Paid
  <2>4. RunsKeepToTheirEvent'
    BY <2>2 DEF Locked, RunsKeepToTheirEvent, KeepsToItsEvent
  <2>5. OneProjector'
    BY <2>1, <2>2 DEF Locked, OneProjector, Holds
  <2> QED BY <1>1, <2>3, <2>4, <2>5 DEF Locked
<1>2a. ASSUME NEW s \in Supports, Overwrite(s)
       PROVE  Locked'
  <2>1. UNCHANGED <<event, claim, answered, run>> /\ Paid' = Paid
    BY <1>2a DEF Overwrite, Paid
  <2>2. EventsFollowPayments' /\ RunsKeepToTheirEvent' /\ OneProjector'
    BY <2>1 DEF Locked, EventsFollowPayments, RunsKeepToTheirEvent, KeepsToItsEvent,
                OneProjector, Holds
  <2> QED BY <1>1, <2>2 DEF Locked
<1>3. ASSUME NEW r \in Runs, Start(r)
      PROVE  Locked'
  <2>1. run'[r].pc = "next" /\ \A q \in Runs \ {r} : run'[q] = run[q]
    BY <1>3 DEF Start, Locked, OutboxTypeOK, RunState
  <2> QED BY <2>1, <1>1, <1>3, LeaveLemma DEF Start
<1>4. ASSUME NEW r \in Runs, Claim(r)
      PROVE  Locked'
  <2>1. PICK e \in Oldest(run[r].queue) :
          IF Claimable(e, run[r].age)
            THEN /\ claim' = [claim EXCEPT ![e] = 0]
                 /\ run' = [run EXCEPT
                              ![r].queue = @ \ {e},
                              ![r].event = e,
                              ![r].pc    = IF e[2] = "TELEGRAM" THEN "load"
                                                                ELSE "project"]
            ELSE /\ run' = Continue(r, run[r].queue \ {e})
                 /\ UNCHANGED claim
    BY <1>4 DEF Claim
  <2>2. run[r].queue \in SUBSET Events /\ e \in Events
    BY DEF Locked, OutboxTypeOK, RunState, Oldest
  <2>3. run[r].pc = "next" /\ UNCHANGED <<payments, event, statistics, answered>>
    BY <1>4 DEF Claim
  <2>4. CASE Claimable(e, run[r].age)
    <3>1. /\ run'[r].event = e
          /\ run'[r].pc = IF e[2] = "TELEGRAM" THEN "load" ELSE "project"
          /\ \A q \in Runs \ {r} : run'[q] = run[q]
      BY <2>1, <2>4 DEF Locked, OutboxTypeOK, RunState
    <3> QED BY <3>1, <1>1, <2>1, <2>2, <2>3, <2>4, ClaimLemma
  <2>5. CASE ~Claimable(e, run[r].age)
    <3>1. /\ run'[r].pc \in {"idle", "next"}
          /\ \A q \in Runs \ {r} : run'[q] = run[q]
      BY <2>1, <2>2, <2>5, ContinueLemma DEF Locked
    <3> QED BY <3>1, <1>1, <2>1, <2>3, <2>5, LeaveLemma
  <2> QED BY <2>4, <2>5
<1>5. ASSUME NEW r \in Runs, run' = NextEvent(r)
      PROVE  run'[r].pc \in {"idle", "next"} /\ \A q \in Runs \ {r} : run'[q] = run[q]
  <2>1. run[r].queue \in SUBSET Events
    BY DEF Locked, OutboxTypeOK, RunState
  <2> QED BY <2>1, <1>5, ContinueLemma DEF NextEvent, Locked
<1>6. ASSUME NEW r \in Runs, Release(r)
      PROVE  Locked'
  BY <1>1, <1>5, <1>6, LeaveLemma DEF Release
<1>7. ASSUME NEW r \in Runs, Crash(r)
      PROVE  Locked'
  <2>1. run'[r].pc = "idle" /\ \A q \in Runs \ {r} : run'[q] = run[q]
    BY <1>7 DEF Crash, Idle, Locked, OutboxTypeOK
  <2> QED BY <2>1, <1>1, <1>7, LeaveLemma DEF Crash
<1>8. ASSUME NEW r \in Runs, CommitProjection(r)
      PROVE  Locked'
  BY <1>1, <1>5, <1>8, LeaveLemma DEF CommitProjection
<1>9. ASSUME NEW r \in Runs, MarkDelivered(r)
      PROVE  Locked'
  BY <1>1, <1>5, <1>9, LeaveLemma DEF MarkDelivered
<1>10. ASSUME NEW r \in Runs, CountSupports(r)
       PROVE  Locked'
  <2>1. CASE event[run[r].event] = "processed"
    BY <1>1, <1>5, <1>10, <2>1, LeaveLemma DEF CountSupports
  <2>2. CASE event[run[r].event] # "processed"
    <3>1. /\ run'[r].pc = "previous" /\ run'[r].event = run[r].event
          /\ \A q \in Runs \ {r} : run'[q] = run[q]
      BY <1>10, <2>2 DEF CountSupports, Locked, OutboxTypeOK, RunState
    <3> QED BY <3>1, <1>1, <1>10, StayLemma DEF CountSupports, Projecting
  <2> QED BY <2>1, <2>2
<1>11. ASSUME NEW r \in Runs, LoadMessage(r)
       PROVE  Locked'
  <2>1. CASE event[run[r].event] = "processed"
    BY <1>1, <1>5, <1>11, <2>1, LeaveLemma DEF LoadMessage
  <2>2. CASE event[run[r].event] # "processed"
    <3>1. /\ run'[r].pc = "send" /\ run'[r].event = run[r].event
          /\ \A q \in Runs \ {r} : run'[q] = run[q]
      BY <1>11, <2>2 DEF LoadMessage, Goto, Locked, OutboxTypeOK, RunState
    <3> QED BY <3>1, <1>1, <1>11, StayLemma DEF LoadMessage, Informing
  <2> QED BY <2>1, <2>2
<1>12. ASSUME NEW r \in Runs, CountPrevious(r)
       PROVE  Locked'
  <2>1. /\ run'[r].pc = "commit" /\ run'[r].event = run[r].event
        /\ \A q \in Runs \ {r} : run'[q] = run[q]
    BY <1>12 DEF CountPrevious, Locked, OutboxTypeOK, RunState
  <2> QED BY <2>1, <1>1, <1>12, StayLemma DEF CountPrevious, Projecting
<1>13. ASSUME NEW r \in Runs, FailProjection(r) \/ DeliveryFails(r)
       PROVE  Locked'
  <2>1. /\ run'[r].pc = "release" /\ run'[r].event = run[r].event
        /\ \A q \in Runs \ {r} : run'[q] = run[q]
    BY <1>13 DEF FailProjection, DeliveryFails, Goto, Locked, OutboxTypeOK, RunState
  <2> QED BY <2>1, <1>1, <1>13, StayLemma
             DEF FailProjection, DeliveryFails, Projecting, Informing
<1>14. ASSUME NEW r \in Runs, Deliver(r)
       PROVE  Locked'
  <2>1. /\ run'[r].pc = "mark" /\ run'[r].event = run[r].event
        /\ \A q \in Runs \ {r} : run'[q] = run[q]
    BY <1>14 DEF Deliver, Goto, Locked, OutboxTypeOK, RunState
  <2>2. run[r].pc = "send" /\ run[r].event[1] \in answered' /\ answered \subseteq answered'
        /\ UNCHANGED <<payments, event, claim>>
    BY <1>14 DEF Deliver
  <2> QED BY <2>1, <2>2, <1>1, StayLemma DEF Informing
<1>15. CASE Tick
  <2>1. \A q \in Runs : run'[q].pc = run[q].pc /\ run'[q].event = run[q].event
    BY <1>15 DEF Tick, Locked, OutboxTypeOK, RunState
  <2>2. \A q \in Runs : run[q].pc \notin Projecting \cup {"release"}
    BY <1>15 DEF Tick, Projecting
  <2>3. UNCHANGED <<payments, event, answered>>
    BY <1>15 DEF Tick
  <2>4. OneProjector'
    BY <2>1, <2>2 DEF OneProjector, Holds
  <2>5. RunsKeepToTheirEvent' /\ EventsFollowPayments'
    BY <2>1, <2>3 DEF Locked, RunsKeepToTheirEvent, KeepsToItsEvent,
                     EventsFollowPayments, payments, Paid
  <2> QED BY <1>1, <2>4, <2>5 DEF Locked
<1>16. CASE UNCHANGED vars
  BY <1>1, <1>16 DEF vars, payments, Paid, Locked, EventsFollowPayments,
     RunsKeepToTheirEvent, KeepsToItsEvent, OneProjector, Holds
<1> QED
  BY <1>2, <1>2a, <1>3, <1>4, <1>6, <1>7, <1>8, <1>9, <1>10, <1>11, <1>12, <1>13, <1>14,
     <1>15, <1>16 DEF Next, RunStep

-----------------------------------------------------------------------------
(* What the projections count. *)

\* The supports of a supporter that are completed, and that ever were.
Completed(f) == SupportsOf(f) \cap completed
PaidBy(f)    == SupportsOf(f) \cap Paid

SupporterIn(r) == SupporterOf[run[r].event[1]]

\* The counts never run ahead of the supports there are.
CountsAreTrue ==
  /\ \A r \in Runs :
       /\ run[r].pc \in {"previous", "commit"} => run[r].total <= Cardinality(Paid)
       /\ run[r].pc = "commit" =>
            run[r].previous + 1 <= Cardinality(PaidBy(SupporterIn(r)))
  /\ totalSupports <= Cardinality(Paid)
  /\ \A f \in badges : /\ f \in SignedIn
                       /\ Cardinality(PaidBy(f)) >= TopFan

\* The completed supports of a supporter that can bring no badge any more: they
\* were projected, or too few previous ones were counted for them.
Spent(f) ==
  {s \in Completed(f) :
     \/ s \in ProjectedSupports
     \/ \E r \in Runs : /\ run[r].pc = "commit"
                        /\ run[r].event = <<s, "PROJECTIONS">>
                        /\ run[r].previous + 1 < TopFan}

\* Of enough completed supports, one can still bring the badge, or one did.
BadgesAreNotForgotten ==
  \A f \in SignedIn \ badges : Cardinality(Spent(f)) < TopFan

\* The runs about to count their supporter as a new one, for a support that is
\* still completed.
Newcomers == {r \in Runs : /\ run[r].pc = "commit"
                           /\ run[r].previous = 0
                           /\ run[r].event[1] \in completed}
Announced == {SupporterIn(r) : r \in Newcomers}
Seen      == {SupporterOf[s] : s \in ProjectedSupports \cap completed}
Gone      == ProjectedSupports \ completed

\* A supporter is announced by one run at most, and was not counted before,
\* except for supports that were overwritten.
CountedOnce ==
  /\ IsFiniteSet(Seen) /\ IsFiniteSet(Gone)
  /\ \A r, q \in Newcomers : SupporterIn(r) = SupporterIn(q) => r = q
  /\ totalSupporters <= Cardinality(Seen \ Announced) + Cardinality(Gone)

\* Steps that neither count nor are counted.
Quiet ==
  /\ UNCHANGED <<payments, statistics>>
  /\ \A s \in Supports : event'[<<s, "PROJECTIONS">>] = event[<<s, "PROJECTIONS">>]
  /\ \A r \in Runs :
       /\ run'[r].pc = "commit" => /\ run[r].pc = "commit"
                                   /\ run'[r].event    = run[r].event
                                   /\ run'[r].total    = run[r].total
                                   /\ run'[r].previous = run[r].previous
       /\ run'[r].pc = "previous" => \/ run'[r].total = Cardinality(completed)
                                     \/ /\ run[r].pc = "previous"
                                        /\ run'[r].total = run[r].total

\* The supports of a supporter are finitely many, and the previous ones are all
\* the completed ones but the support itself.
LEMMA CompletedLemma ==
  ASSUME OutboxTypeOK, NEW f
  PROVE  /\ IsFiniteSet(Completed(f)) /\ Cardinality(Completed(f)) \in Nat
         /\ IsFiniteSet(PaidBy(f)) /\ Cardinality(PaidBy(f)) \in Nat
         /\ IsFiniteSet(Paid) /\ Cardinality(Paid) \in Nat
         /\ Cardinality(completed) \in Nat /\ Cardinality(completed) <= Cardinality(Paid)
         /\ IsFiniteSet(Spent(f)) /\ Cardinality(Spent(f)) \in Nat
         /\ \A s \in Completed(f) : Previous(s) + 1 = Cardinality(Completed(f))
         /\ \A s \in PaidBy(f) : Previous(s) + 1 <= Cardinality(PaidBy(f))
<1>1. IsFiniteSet(Paid)
  BY FS_Union DEF OutboxTypeOK, Paid
<1>2. /\ Completed(f) \in SUBSET Paid
      /\ PaidBy(f) \in SUBSET Paid
      /\ completed \in SUBSET Paid
      /\ Spent(f) \in SUBSET Paid
  BY DEF Completed, PaidBy, Paid, Spent
<1>3. ASSUME NEW S \in SUBSET Paid
      PROVE  /\ IsFiniteSet(S) /\ Cardinality(S) \in Nat
             /\ Cardinality(S) <= Cardinality(Paid)
  BY <1>1, FS_Subset, FS_CardinalityType
<1>4. ASSUME NEW s \in Completed(f)
      PROVE  Previous(s) + 1 = Cardinality(Completed(f))
  <2>1. {t \in completed \ {s} : SupporterOf[t] = SupporterOf[s]} = Completed(f) \ {s}
    BY <1>4 DEF Completed, SupportsOf, OutboxTypeOK
  <2>2. Previous(s) = Cardinality(Completed(f) \ {s})
    BY <2>1 DEF Previous
  <2>3. Cardinality(Completed(f) \ {s}) = Cardinality(Completed(f)) - 1
    BY <1>2, <1>3, <1>4, FS_RemoveElement
  <2> QED BY <2>2, <2>3, <1>2, <1>3
<1>5. ASSUME NEW s \in PaidBy(f)
      PROVE  Previous(s) + 1 <= Cardinality(PaidBy(f))
  <2> DEFINE others == {t \in completed \ {s} : SupporterOf[t] = SupporterOf[s]}
             rest   == PaidBy(f) \ {s}
  <2>1. others \in SUBSET rest
    BY <1>5 DEF PaidBy, SupportsOf, Paid, OutboxTypeOK
  <2>2. Previous(s) = Cardinality(others)
    BY DEF Previous
  <2>3. IsFiniteSet(PaidBy(f)) /\ Cardinality(PaidBy(f)) \in Nat
    BY <1>2, <1>3
  <2>4. IsFiniteSet(rest) /\ Cardinality(rest) = Cardinality(PaidBy(f)) - 1
    BY <2>3, <1>5, FS_RemoveElement
  <2> HIDE DEF others, rest
  <2>5. Cardinality(others) <= Cardinality(rest) /\ Cardinality(others) \in Nat
    BY <2>1, <2>4, FS_Subset, FS_CardinalityType
  <2> QED BY <2>2, <2>3, <2>4, <2>5
<1>6. Cardinality(Paid) \in Nat
  BY <1>1, FS_CardinalityType
<1> QED BY <1>1, <1>2, <1>3, <1>4, <1>5, <1>6

\* Every other step is quiet.
LEMMA QuietLemma ==
  ASSUME Locked, [Next]_vars
  PROVE  \/ \E s \in Supports : Complete(s) \/ Overwrite(s)
         \/ \E r \in Runs : CountPrevious(r) \/ CommitProjection(r)
         \/ Quiet
<1> USE DEF Locked
<1>1. ASSUME NEW r \in Runs, UNCHANGED <<payments, statistics, event>>,
             \A q \in Runs \ {r} : run'[q] = run[q],
             run'[r].pc \notin {"previous", "commit"}
      PROVE  Quiet
  BY <1>1 DEF Quiet
<1>2. ASSUME NEW r \in Runs, NEW rest \in SUBSET Events, run' = Continue(r, rest)
      PROVE  run'[r].pc \notin {"previous", "commit"} /\ \A q \in Runs \ {r} : run'[q] = run[q]
  BY <1>2, ContinueLemma
<1>3. \A r \in Runs : run[r].queue \in SUBSET Events
  BY DEF OutboxTypeOK, RunState
<1>4. ASSUME NEW r \in Runs, Start(r)
      PROVE  Quiet
  <2>1. run'[r].pc = "next" /\ \A q \in Runs \ {r} : run'[q] = run[q]
    BY <1>4 DEF Start, OutboxTypeOK, RunState
  <2> QED BY <2>1, <1>1, <1>4 DEF Start
<1>5. ASSUME NEW r \in Runs, Claim(r)
      PROVE  Quiet
  <2>1. run'[r].pc \notin {"previous", "commit"} /\ \A q \in Runs \ {r} : run'[q] = run[q]
    <3>1. PICK e \in Oldest(run[r].queue) :
            \/ run' = [run EXCEPT
                         ![r].queue = @ \ {e},
                         ![r].event = e,
                         ![r].pc    = IF e[2] = "TELEGRAM" THEN "load"
                                                           ELSE "project"]
            \/ run' = Continue(r, run[r].queue \ {e})
      BY <1>5 DEF Claim
    <3>2. CASE run' = Continue(r, run[r].queue \ {e})
      <4>1. run[r].queue \ {e} \in SUBSET Events
        BY <1>3
      <4> QED BY <4>1, <3>2, <1>2
    <3>3. CASE run' = [run EXCEPT
                         ![r].queue = @ \ {e},
                         ![r].event = e,
                         ![r].pc    = IF e[2] = "TELEGRAM" THEN "load"
                                                           ELSE "project"]
      BY <3>3 DEF OutboxTypeOK, RunState
    <3> QED BY <3>1, <3>2, <3>3
  <2> QED BY <2>1, <1>1, <1>5 DEF Claim
<1>6. ASSUME NEW r \in Runs, Release(r)
      PROVE  Quiet
  BY <1>1, <1>2, <1>3, <1>6 DEF Release, NextEvent
<1>7. ASSUME NEW r \in Runs, Crash(r)
      PROVE  Quiet
  <2>1. run'[r].pc = "idle" /\ \A q \in Runs \ {r} : run'[q] = run[q]
    BY <1>7 DEF Crash, Idle, OutboxTypeOK
  <2> QED BY <2>1, <1>1, <1>7 DEF Crash
<1>8. ASSUME NEW r \in Runs, CountSupports(r)
      PROVE  Quiet
  <2>1. CASE event[run[r].event] = "processed"
    BY <1>1, <1>2, <1>3, <1>8, <2>1 DEF CountSupports, NextEvent
  <2>2. CASE event[run[r].event] # "processed"
    <3>1. /\ run'[r].pc = "previous" /\ run'[r].total = Cardinality(completed)
          /\ \A q \in Runs \ {r} : run'[q] = run[q]
      BY <1>8, <2>2 DEF CountSupports, OutboxTypeOK, RunState
    <3> QED BY <3>1, <1>8 DEF CountSupports, Quiet
  <2> QED BY <2>1, <2>2
<1>9. ASSUME NEW r \in Runs, LoadMessage(r)
      PROVE  Quiet
  <2>1. CASE event[run[r].event] = "processed"
    BY <1>1, <1>2, <1>3, <1>9, <2>1 DEF LoadMessage, NextEvent
  <2>2. CASE event[run[r].event] # "processed"
    <3>1. run'[r].pc = "send" /\ \A q \in Runs \ {r} : run'[q] = run[q]
      BY <1>9, <2>2 DEF LoadMessage, Goto, OutboxTypeOK, RunState
    <3> QED BY <3>1, <1>1, <1>9 DEF LoadMessage
  <2> QED BY <2>1, <2>2
<1>10. ASSUME NEW r \in Runs, FailProjection(r) \/ DeliveryFails(r)
       PROVE  Quiet
  <2>1. run'[r].pc = "release" /\ \A q \in Runs \ {r} : run'[q] = run[q]
    BY <1>10 DEF FailProjection, DeliveryFails, Goto, OutboxTypeOK, RunState
  <2> QED BY <2>1, <1>1, <1>10 DEF FailProjection, DeliveryFails
<1>11. ASSUME NEW r \in Runs, Deliver(r)
       PROVE  Quiet
  <2>1. run'[r].pc = "mark" /\ \A q \in Runs \ {r} : run'[q] = run[q]
    BY <1>11 DEF Deliver, Goto, OutboxTypeOK, RunState
  <2> QED BY <2>1, <1>1, <1>11 DEF Deliver
<1>12. ASSUME NEW r \in Runs, MarkDelivered(r)
       PROVE  Quiet
  <2>1. \A s \in Supports : <<s, "PROJECTIONS">> \in Events /\ run[r].event # <<s, "PROJECTIONS">>
    BY <1>12, EventLemma DEF MarkDelivered, RunsKeepToTheirEvent, KeepsToItsEvent, Informing
  <2>2. \A s \in Supports : event'[<<s, "PROJECTIONS">>] = event[<<s, "PROJECTIONS">>]
    BY <2>1, <1>12 DEF MarkDelivered, Processed, OutboxTypeOK
  <2>3. run'[r].pc \notin {"previous", "commit"} /\ \A q \in Runs \ {r} : run'[q] = run[q]
    BY <1>2, <1>3, <1>12 DEF MarkDelivered, NextEvent
  <2> QED BY <2>2, <2>3, <1>12 DEF MarkDelivered, Quiet
<1>13. CASE Tick
  BY <1>13 DEF Tick, Quiet, OutboxTypeOK, RunState
<1>14. CASE UNCHANGED vars
  BY <1>14 DEF vars, Quiet
<1> QED
  BY <1>4, <1>5, <1>6, <1>7, <1>8, <1>9, <1>10, <1>11, <1>12, <1>13, <1>14
     DEF Next, RunStep

\* What a payment changes for the counts.
LEMMA PaymentLemma ==
  ASSUME Locked, OutboxTypeOK', NEW s \in Supports, Complete(s)
  PROVE  /\ UNCHANGED <<run, totalSupports, totalSupporters, notices, badges, overwritten>>
         /\ completed' = completed \cup {s} /\ s \notin ProjectedSupports
         /\ ProjectedSupports' = ProjectedSupports
         /\ \A r \in Runs : run[r].pc = "commit" => /\ run[r].event # <<s, "PROJECTIONS">>
                                                  /\ run[r].event[1] # s
<1> USE DEF Locked, Complete, statistics
<1>1. \A t \in Supports : event'[<<t, "PROJECTIONS">>] =
        IF t = s THEN "pending" ELSE event[<<t, "PROJECTIONS">>]
  BY EventLemma
<1>2. event[<<s, "PROJECTIONS">>] = "absent"
  BY EventLemma DEF EventsFollowPayments, OutboxTypeOK
<1>3. ProjectedSupports' = ProjectedSupports /\ s \notin ProjectedSupports
  BY <1>1, <1>2 DEF ProjectedSupports
<1>4. \A r \in Runs : run[r].pc = "commit" => run[r].event # <<s, "PROJECTIONS">>
  BY <1>2 DEF RunsKeepToTheirEvent, KeepsToItsEvent
<1>5. \A r \in Runs : run[r].pc = "commit" => run[r].event = <<run[r].event[1], "PROJECTIONS">>
  BY DEF RunsKeepToTheirEvent, KeepsToItsEvent, Projecting
<1> QED BY <1>3, <1>4, <1>5

\* Supports that were ever paid only grow in number.
LEMMA PaidLemma ==
  ASSUME Locked, Locked', [Next]_vars
  PROVE  /\ Cardinality(Paid) <= Cardinality(Paid')
         /\ \A f : Cardinality(PaidBy(f)) <= Cardinality(PaidBy(f)')
<1>1. Paid \subseteq Paid'
  <2>1. \A s \in Supports : Complete(s) \/ Overwrite(s) => Paid \subseteq Paid'
    BY DEF Complete, Overwrite, Paid
  <2>2. UNCHANGED payments => Paid' = Paid
    BY DEF payments, Paid
  <2>3. \A r \in Runs : CountPrevious(r) \/ CommitProjection(r) => UNCHANGED payments
    BY DEF CountPrevious, CommitProjection
  <2> QED BY <2>1, <2>2, <2>3, QuietLemma DEF Quiet
<1>2. IsFiniteSet(Paid')
  BY FS_Union DEF Locked, OutboxTypeOK, Paid
<1>3. ASSUME NEW f
      PROVE  Cardinality(PaidBy(f)) <= Cardinality(PaidBy(f)')
  <2>1. PaidBy(f) \subseteq PaidBy(f)' /\ PaidBy(f)' \subseteq Paid'
    BY <1>1 DEF PaidBy
  <2> QED BY <2>1, <1>2, FS_Subset
<1> QED BY <1>1, <1>2, <1>3, FS_Subset

\* What the commit of a projection changes.
LEMMA CommitLemma ==
  ASSUME Locked, OutboxTypeOK', NEW r \in Runs, CommitProjection(r)
  PROVE  /\ run[r].pc = "commit" /\ UNCHANGED <<payments, completed>>
         /\ run[r].event = <<run[r].event[1], "PROJECTIONS">>
         /\ run[r].event[1] \in Paid
         /\ run[r].event[1] \in Supports \ ProjectedSupports
         /\ ProjectedSupports' = ProjectedSupports \cup {run[r].event[1]}
         /\ event[run[r].event] = "pending"
         /\ \A s \in Supports : event'[<<s, "PROJECTIONS">>] =
              IF s = run[r].event[1] THEN "processed" ELSE event[<<s, "PROJECTIONS">>]
         /\ \A q \in Runs : Holds(q, run[r].event) => q = r
         /\ run'[r].pc \in {"idle", "next"}
         /\ \A q \in Runs \ {r} : run'[q] = run[q]
<1> USE DEF Locked
<1>1. run[r].pc = "commit" /\ Holds(r, run[r].event)
  BY DEF CommitProjection, Holds, Projecting
<1>2. run[r].event \in Supports \X {"PROJECTIONS"} /\ run[r].event \in Events
  BY <1>1 DEF RunsKeepToTheirEvent, KeepsToItsEvent, Projecting
<1>3. run[r].event = <<run[r].event[1], "PROJECTIONS">> /\ run[r].event[1] \in Supports
  BY <1>2
<1>4. event[run[r].event] = "pending" /\ \A q \in Runs : Holds(q, run[r].event) => q = r
  BY <1>1, <1>2 DEF OneProjector
<1>5. run[r].event[1] \in Paid
  BY <1>2, <1>4 DEF EventsFollowPayments
<1>6. \A s \in Supports : event'[<<s, "PROJECTIONS">>] =
        IF s = run[r].event[1] THEN "processed" ELSE event[<<s, "PROJECTIONS">>]
  <2>1. event' = [event EXCEPT ![run[r].event] = "processed"]
    BY DEF CommitProjection, Processed
  <2>2. \A s \in Supports : <<s, "PROJECTIONS">> \in Events
                            /\ (<<s, "PROJECTIONS">> = run[r].event <=> s = run[r].event[1])
    BY <1>3, EventLemma
  <2> QED BY <2>1, <2>2 DEF OutboxTypeOK
<1>7. run'[r].pc \in {"idle", "next"} /\ \A q \in Runs \ {r} : run'[q] = run[q]
  <2>1. run[r].queue \in SUBSET Events
    BY DEF OutboxTypeOK, RunState
  <2> QED BY <2>1, ContinueLemma DEF CommitProjection, NextEvent
<1>8. /\ run[r].event[1] \in Supports \ ProjectedSupports
      /\ ProjectedSupports' = ProjectedSupports \cup {run[r].event[1]}
  BY <1>3, <1>4, <1>6 DEF ProjectedSupports
<1>9. UNCHANGED <<payments, completed>>
  BY DEF CommitProjection, payments
<1> QED BY <1>1, <1>3, <1>4, <1>5, <1>6, <1>7, <1>8, <1>9

\* What counting the previous supports changes.
LEMMA CountLemma ==
  ASSUME Locked, NEW r \in Runs, CountPrevious(r)
  PROVE  /\ UNCHANGED <<payments, completed, event, statistics>>
         /\ run[r].pc = "previous" /\ run'[r].pc = "commit"
         /\ run'[r].event = run[r].event /\ run'[r].total = run[r].total
         /\ run[r].event = <<run[r].event[1], "PROJECTIONS">>
         /\ event[run[r].event] = "pending"
         /\ run[r].event[1] \in PaidBy(SupporterIn(r)) \ ProjectedSupports
         /\ run'[r].previous \in Nat
         /\ run'[r].previous + 1 <= Cardinality(PaidBy(SupporterIn(r)))
         /\ run[r].event[1] \in completed =>
              /\ run[r].event[1] \in Completed(SupporterIn(r))
              /\ run'[r].previous + 1 = Cardinality(Completed(SupporterIn(r)))
         /\ \A q \in Runs : Holds(q, run[r].event) => q = r
         /\ \A q \in Runs \ {r} : run'[q] = run[q]
<1> USE DEF Locked
<1>1. run[r].pc = "previous" /\ UNCHANGED <<payments, completed, event, statistics>>
  BY DEF CountPrevious, payments
<1>2. /\ run'[r].pc = "commit" /\ run'[r].event = run[r].event
      /\ run'[r].total = run[r].total
      /\ run'[r].previous = Previous(run[r].event[1])
      /\ \A q \in Runs \ {r} : run'[q] = run[q]
  BY DEF CountPrevious, OutboxTypeOK, RunState
<1>3. /\ run[r].event \in Supports \X {"PROJECTIONS"}
      /\ run[r].event \in Events
      /\ Holds(r, run[r].event)
  BY <1>1 DEF RunsKeepToTheirEvent, KeepsToItsEvent, Projecting, Holds
<1>4. event[run[r].event] = "pending" /\ \A q \in Runs : Holds(q, run[r].event) => q = r
  BY <1>3 DEF OneProjector
<1>5. run[r].event = <<run[r].event[1], "PROJECTIONS">> /\ run[r].event[1] \in Supports
  BY <1>3
<1>6. run[r].event[1] \in PaidBy(SupporterIn(r)) \ ProjectedSupports
  BY <1>3, <1>4, <1>5
     DEF EventsFollowPayments, PaidBy, SupportsOf, SupporterIn, ProjectedSupports
<1>7. /\ Previous(run[r].event[1]) \in Nat
      /\ Previous(run[r].event[1]) + 1 <= Cardinality(PaidBy(SupporterIn(r)))
  BY <1>6, PreviousLemma, CompletedLemma
<1>8. run[r].event[1] \in completed =>
        /\ run[r].event[1] \in Completed(SupporterIn(r))
        /\ Previous(run[r].event[1]) + 1 = Cardinality(Completed(SupporterIn(r)))
  BY <1>5, CompletedLemma DEF Completed, SupportsOf, SupporterIn
<1> QED BY <1>1, <1>2, <1>4, <1>5, <1>6, <1>7, <1>8

-----------------------------------------------------------------------------
(* The invariants, step by step. *)

LEMMA ProjectedOnceStep ==
  ASSUME Locked, Locked', ProjectedOnce, [Next]_vars
  PROVE  ProjectedOnce'
<1>1. ASSUME NEW s \in Supports, Complete(s)
      PROVE  ProjectedOnce'
  BY <1>1, PaymentLemma DEF Locked, ProjectedOnce
<1>1a. ASSUME NEW s \in Supports, Overwrite(s)
       PROVE  ProjectedOnce'
  BY <1>1a DEF Overwrite, statistics, ProjectedOnce, ProjectedSupports
<1>2. ASSUME NEW r \in Runs, CountPrevious(r)
      PROVE  ProjectedOnce'
  BY <1>2 DEF CountPrevious, statistics, ProjectedOnce, ProjectedSupports
<1>3. ASSUME NEW r \in Runs, CommitProjection(r)
      PROVE  ProjectedOnce'
  <2> DEFINE p == run[r].event[1]
  <2>1. p \in Supports \ ProjectedSupports /\ ProjectedSupports' = ProjectedSupports \cup {p}
    BY <1>3, CommitLemma DEF Locked
  <2>2. notices' = [notices EXCEPT ![p] = @ + 1]
    BY <1>3 DEF CommitProjection
  <2> HIDE DEF p
  <2> QED BY <2>1, <2>2 DEF ProjectedOnce, Locked, OutboxTypeOK
<1>4. ASSUME Quiet
      PROVE  ProjectedOnce'
  BY <1>4 DEF Quiet, statistics, ProjectedOnce, ProjectedSupports
<1> QED BY <1>1, <1>1a, <1>2, <1>3, <1>4, QuietLemma

LEMMA CountsStep ==
  ASSUME Locked, Locked', CountsAreTrue, [Next]_vars
  PROVE  CountsAreTrue'
<1>1. /\ Cardinality(Paid) \in Nat /\ Cardinality(Paid') \in Nat
      /\ \A f : Cardinality(PaidBy(f)) \in Nat /\ Cardinality(PaidBy(f)') \in Nat
  <2>1. Cardinality(Paid) \in Nat /\ \A f : Cardinality(PaidBy(f)) \in Nat
    BY CompletedLemma DEF Locked
  <2>2. IsFiniteSet(Paid')
    BY FS_Union DEF Locked, OutboxTypeOK, Paid
  <2>3. ASSUME NEW f
        PROVE  Cardinality(PaidBy(f)') \in Nat
    <3>1. PaidBy(f)' \in SUBSET Paid'
      BY DEF PaidBy
    <3> QED BY <3>1, <2>2, FS_Subset, FS_CardinalityType
  <2> QED BY <2>1, <2>2, <2>3, FS_CardinalityType
<1>2. /\ totalSupports \in Nat
      /\ \A r \in Runs : run[r].total \in Nat /\ run[r].previous \in Nat
  BY DEF Locked, OutboxTypeOK, RunState
<1>3. /\ Cardinality(Paid) <= Cardinality(Paid')
      /\ \A f : Cardinality(PaidBy(f)) <= Cardinality(PaidBy(f)')
  BY PaidLemma
<1>4. ASSUME UNCHANGED <<run, totalSupports, badges>>
      PROVE  CountsAreTrue'
  BY <1>1, <1>2, <1>3, <1>4, OutboxAssumption DEF CountsAreTrue, SupporterIn
<1>5. ASSUME UNCHANGED <<payments, totalSupports, badges>>,
             \A q \in Runs :
               /\ run'[q].pc \in {"previous", "commit"} => run'[q].total <= Cardinality(Paid)
               /\ run'[q].pc = "commit" =>
                    run'[q].previous + 1 <= Cardinality(PaidBy(SupporterIn(q)'))
      PROVE  CountsAreTrue'
  <2>1. Paid' = Paid
    BY <1>5 DEF payments, Paid
  <2>2. \A f : PaidBy(f)' = PaidBy(f)
    BY <2>1 DEF PaidBy
  <2> QED BY <2>1, <2>2, <1>5 DEF CountsAreTrue
<1>6. ASSUME NEW s \in Supports, Complete(s) \/ Overwrite(s)
      PROVE  CountsAreTrue'
  BY <1>4, <1>6 DEF Complete, Overwrite, statistics
<1>7. ASSUME NEW r \in Runs, CountPrevious(r)
      PROVE  CountsAreTrue'
  <2>1. ASSUME NEW q \in Runs
        PROVE  /\ run'[q].pc \in {"previous", "commit"} => run'[q].total <= Cardinality(Paid)
               /\ run'[q].pc = "commit" =>
                    run'[q].previous + 1 <= Cardinality(PaidBy(SupporterIn(q)'))
    <3>1. CASE q = r
      BY <3>1, <1>1, <1>7, CountLemma DEF CountsAreTrue, SupporterIn
    <3>2. CASE q # r
      BY <3>2, <1>7, CountLemma DEF CountsAreTrue, SupporterIn
    <3> QED BY <3>1, <3>2
  <2> QED BY <2>1, <1>5, <1>7 DEF CountPrevious, statistics
<1>8. ASSUME NEW r \in Runs, CommitProjection(r)
      PROVE  CountsAreTrue'
  <2>1. /\ UNCHANGED payments /\ run[r].pc = "commit"
        /\ run'[r].pc \in {"idle", "next"}
        /\ \A q \in Runs \ {r} : run'[q] = run[q]
    BY <1>8, CommitLemma DEF Locked
  <2>2. Paid' = Paid /\ \A f : PaidBy(f)' = PaidBy(f)
    BY <2>1 DEF payments, Paid, PaidBy
  <2>3. totalSupports' <= Cardinality(Paid)
    BY <2>1, <1>8 DEF CommitProjection, CountsAreTrue
  <2>4. ASSUME NEW f \in badges'
        PROVE  f \in SignedIn /\ Cardinality(PaidBy(f)) >= TopFan
    <3>1. CASE f \in badges
      BY <3>1 DEF CountsAreTrue
    <3>2. CASE f \notin badges
      <4>1. f = SupporterIn(r) /\ f \in SignedIn /\ run[r].previous + 1 >= TopFan
        BY <1>8, <2>4, <3>2 DEF CommitProjection, SupporterIn
      <4> QED BY <4>1, <2>1, <1>1, <1>2, OutboxAssumption DEF CountsAreTrue
    <3> QED BY <3>1, <3>2
  <2>5. ASSUME NEW q \in Runs
        PROVE  /\ run'[q].pc \in {"previous", "commit"} => run'[q].total <= Cardinality(Paid)
               /\ run'[q].pc = "commit" =>
                    run'[q].previous + 1 <= Cardinality(PaidBy(SupporterIn(q)'))
    <3>1. CASE q = r
      BY <3>1, <2>1
    <3>2. CASE q # r
      BY <3>2, <2>1 DEF CountsAreTrue, SupporterIn
    <3> QED BY <3>1, <3>2
  <2> QED BY <2>2, <2>3, <2>4, <2>5 DEF CountsAreTrue
<1>9. ASSUME Quiet
      PROVE  CountsAreTrue'
  <2>1. Cardinality(completed) \in Nat /\ Cardinality(completed) <= Cardinality(Paid)
    BY CompletedLemma DEF Locked
  <2>2. ASSUME NEW q \in Runs
        PROVE  /\ run'[q].pc \in {"previous", "commit"} => run'[q].total <= Cardinality(Paid)
               /\ run'[q].pc = "commit" =>
                    run'[q].previous + 1 <= Cardinality(PaidBy(SupporterIn(q)'))
    BY <1>9, <2>1, <1>1 DEF Quiet, CountsAreTrue, SupporterIn
  <2> QED BY <2>2, <1>5, <1>9 DEF Quiet, statistics
<1> QED BY <1>6, <1>7, <1>8, <1>9, QuietLemma

LEMMA BadgesStep ==
  ASSUME Locked, Locked', BadgesAreNotForgotten, [Next]_vars
  PROVE  BadgesAreNotForgotten'
<1> SUFFICES ASSUME NEW f \in SignedIn, f \notin badges'
             PROVE  Cardinality(Spent(f)') < TopFan
  BY DEF BadgesAreNotForgotten
<1> USE DEF Locked
<1>1. badges \subseteq badges'
  <2>1. \A s \in Supports : Complete(s) \/ Overwrite(s) => UNCHANGED badges
    BY DEF Complete, Overwrite, statistics
  <2>2. \A r \in Runs : CountPrevious(r) => UNCHANGED badges
    BY DEF CountPrevious, statistics
  <2>3. \A r \in Runs : CommitProjection(r) => badges \subseteq badges'
    BY DEF CommitProjection
  <2>4. Quiet => UNCHANGED badges
    BY DEF Quiet, statistics
  <2> QED BY <2>1, <2>2, <2>3, <2>4, QuietLemma
<1>2. /\ IsFiniteSet(Spent(f)) /\ Cardinality(Spent(f)) \in Nat
      /\ Cardinality(Spent(f)) < TopFan
  BY <1>1, CompletedLemma DEF BadgesAreNotForgotten
<1>3. ASSUME Spent(f)' \subseteq Spent(f)
      PROVE  Cardinality(Spent(f)') < TopFan
  <2>1. IsFiniteSet(Spent(f)') /\ Cardinality(Spent(f)') <= Cardinality(Spent(f))
    BY <1>2, <1>3, FS_Subset
  <2> QED BY <2>1, <1>2, OutboxAssumption, FS_CardinalityType
<1>4. ASSUME NEW s \in Supports, Complete(s)
      PROVE  Cardinality(Spent(f)') < TopFan
  <2>1. /\ run' = run /\ ProjectedSupports' = ProjectedSupports
        /\ completed' = completed \cup {s} /\ s \notin ProjectedSupports
        /\ \A r \in Runs : run[r].pc = "commit" => run[r].event # <<s, "PROJECTIONS">>
    BY <1>4, PaymentLemma
  <2>2. Spent(f)' \subseteq Spent(f)
    BY <2>1 DEF Spent, Completed
  <2> QED BY <2>2, <1>3
<1>5. ASSUME NEW s \in Supports, Overwrite(s)
      PROVE  Cardinality(Spent(f)') < TopFan
  <2>1. UNCHANGED <<run, event>> /\ completed' = completed \ {s}
    BY <1>5 DEF Overwrite
  <2>2. Spent(f)' \subseteq Spent(f)
    BY <2>1 DEF Spent, Completed, ProjectedSupports
  <2> QED BY <2>2, <1>3
<1>6. ASSUME NEW r \in Runs, CountPrevious(r)
      PROVE  Cardinality(Spent(f)') < TopFan
  <2> DEFINE p == run[r].event[1]
  <2>1. /\ UNCHANGED <<completed, event>>
        /\ \A q \in Runs \ {r} : run'[q] = run[q]
        /\ run'[r].event = <<p, "PROJECTIONS">>
        /\ run'[r].previous \in Nat
    BY <1>6, CountLemma
  <2>2. ProjectedSupports' = ProjectedSupports /\ Completed(f)' = Completed(f)
    BY <2>1 DEF ProjectedSupports, Completed
  <2>3. CASE p \in Completed(f) /\ run'[r].previous + 1 < TopFan
    <3>1. p \in completed /\ SupporterIn(r) = f
      BY <2>3 DEF Completed, SupportsOf, SupporterIn
    <3>2. Cardinality(Completed(f)) < TopFan
      BY <3>1, <2>3, <1>6, CountLemma
    <3>3. Spent(f)' \subseteq Completed(f)
      BY <2>2 DEF Spent
    <3>4. IsFiniteSet(Completed(f)) /\ Cardinality(Completed(f)) \in Nat
      BY CompletedLemma
    <3>5. IsFiniteSet(Spent(f)') /\ Cardinality(Spent(f)') <= Cardinality(Completed(f))
      BY <3>3, <3>4, FS_Subset
    <3> QED BY <3>2, <3>4, <3>5, OutboxAssumption, FS_CardinalityType
  <2>4. CASE ~(p \in Completed(f) /\ run'[r].previous + 1 < TopFan)
    <3>1. ASSUME NEW s \in Spent(f)'
          PROVE  s \in Spent(f)
      <4>1. s \in Completed(f)
        BY <2>2 DEF Spent
      <4>2. CASE s \in ProjectedSupports
        BY <4>1, <4>2 DEF Spent
      <4>3. CASE s \notin ProjectedSupports
        <5>1. PICK q \in Runs : /\ run'[q].pc = "commit"
                                /\ run'[q].event = <<s, "PROJECTIONS">>
                                /\ run'[q].previous + 1 < TopFan
          BY <2>2, <4>3 DEF Spent
        <5>2. q # r
          BY <5>1, <4>1, <2>1, <2>4
        <5> QED BY <5>1, <5>2, <4>1, <2>1 DEF Spent
      <4> QED BY <4>2, <4>3
    <3> QED BY <3>1, <1>3
  <2> QED BY <2>3, <2>4
<1>7. ASSUME NEW r \in Runs, CommitProjection(r)
      PROVE  Cardinality(Spent(f)') < TopFan
  <2> DEFINE p == run[r].event[1]
  <2>1. /\ completed' = completed /\ run[r].pc = "commit"
        /\ run[r].event = <<p, "PROJECTIONS">>
        /\ ProjectedSupports' = ProjectedSupports \cup {p}
        /\ run'[r].pc \in {"idle", "next"}
        /\ \A q \in Runs \ {r} : run'[q] = run[q]
    BY <1>7, CommitLemma
  <2>2. run[r].previous \in Nat
    BY DEF OutboxTypeOK, RunState
  <2>3. SupporterOf[p] = f => run[r].previous + 1 < TopFan
    BY <1>7, <2>2, OutboxAssumption DEF CommitProjection
  <2>4. ASSUME NEW s \in Spent(f)'
        PROVE  s \in Spent(f)
    <3>1. s \in Completed(f)
      BY <2>1 DEF Spent, Completed
    <3>2. CASE s = p
      <4>1. run[r].previous + 1 < TopFan
        BY <3>1, <3>2, <2>3 DEF Completed, SupportsOf
      <4> QED BY <4>1, <3>1, <3>2, <2>1 DEF Spent
    <3>3. CASE s # p
      BY <3>1, <3>3, <2>1 DEF Spent
    <3> QED BY <3>2, <3>3
  <2> QED BY <2>4, <1>3
<1>8. ASSUME Quiet
      PROVE  Cardinality(Spent(f)') < TopFan
  <2>1. ProjectedSupports' = ProjectedSupports /\ Completed(f)' = Completed(f)
    BY <1>8 DEF Quiet, payments, ProjectedSupports, Completed
  <2>2. \A q \in Runs : run'[q].pc = "commit" => /\ run[q].pc = "commit"
                                                 /\ run'[q].event    = run[q].event
                                                 /\ run'[q].previous = run[q].previous
    BY <1>8 DEF Quiet
  <2>3. Spent(f)' \subseteq Spent(f)
    BY <2>1, <2>2 DEF Spent
  <2> QED BY <2>3, <1>3
<1> QED BY <1>4, <1>5, <1>6, <1>7, <1>8, QuietLemma

LEMMA CountedOnceStep ==
  ASSUME Locked, Locked', CountedOnce, [Next]_vars
  PROVE  CountedOnce'
<1> USE DEF Locked
<1>1. /\ totalSupporters \in Nat /\ totalSupporters' \in Nat
      /\ IsFiniteSet(Seen) /\ IsFiniteSet(Gone)
      /\ totalSupporters <= Cardinality(Seen \ Announced) + Cardinality(Gone)
      /\ \A r, q \in Newcomers : SupporterIn(r) = SupporterIn(q) => r = q
  BY DEF OutboxTypeOK, CountedOnce
<1>2. ASSUME NEW X, NEW Y \in SUBSET X, IsFiniteSet(X)
      PROVE  /\ IsFiniteSet(Y) /\ Cardinality(Y) \in Nat
             /\ Cardinality(X) \in Nat /\ Cardinality(Y) <= Cardinality(X)
  BY <1>2, FS_Subset, FS_CardinalityType
\* A step that counts nobody, and leaves no fewer to be counted.
<1>3. ASSUME totalSupporters' = totalSupporters, Gone' = Gone,
             Seen \subseteq Seen', IsFiniteSet(Seen'),
             Newcomers' \subseteq Newcomers,
             \A q \in Newcomers' : SupporterIn(q)' = SupporterIn(q)
      PROVE  CountedOnce'
  <2>1. Announced' \subseteq Announced
    BY <1>3 DEF Announced
  <2>2. Seen \ Announced \in SUBSET (Seen' \ Announced') /\ Seen' \ Announced' \in SUBSET Seen'
    BY <2>1, <1>3
  <2>3. /\ Cardinality(Seen \ Announced) \in Nat /\ Cardinality(Seen' \ Announced') \in Nat
        /\ Cardinality(Seen \ Announced) <= Cardinality(Seen' \ Announced')
    BY <2>2, <1>2, <1>3
  <2>4. Cardinality(Gone) \in Nat
    BY <1>1, FS_CardinalityType
  <2>5. totalSupporters' <= Cardinality(Seen' \ Announced') + Cardinality(Gone')
    BY <2>3, <2>4, <1>1, <1>3
  <2> QED BY <2>5, <1>1, <1>3 DEF CountedOnce
<1>4. ASSUME NEW s \in Supports, Complete(s)
      PROVE  CountedOnce'
  <2>1. /\ UNCHANGED <<run, totalSupporters>> /\ ProjectedSupports' = ProjectedSupports
        /\ completed' = completed \cup {s} /\ s \notin ProjectedSupports
        /\ \A r \in Runs : run[r].pc = "commit" => run[r].event[1] # s
    BY <1>4, PaymentLemma
  <2>2. Seen' = Seen /\ Gone' = Gone
    BY <2>1 DEF Seen, Gone
  <2>3. Newcomers' \subseteq Newcomers /\ \A q \in Runs : SupporterIn(q)' = SupporterIn(q)
    BY <2>1 DEF Newcomers, SupporterIn
  <2> QED BY <2>1, <2>2, <2>3, <1>1, <1>3 DEF Newcomers
<1>5. ASSUME NEW s \in Supports, Overwrite(s)
      PROVE  CountedOnce'
  <2>1. /\ UNCHANGED <<run, totalSupporters>> /\ ProjectedSupports' = ProjectedSupports
        /\ completed' = completed \ {s} /\ s \in completed
    BY <1>5 DEF Overwrite, statistics, ProjectedSupports
  <2>2. Newcomers' \subseteq Newcomers /\ \A q \in Runs : SupporterIn(q)' = SupporterIn(q)
    BY <2>1 DEF Newcomers, SupporterIn
  <2>3. CASE s \notin ProjectedSupports
    <3>1. Seen' = Seen /\ Gone' = Gone
      BY <2>1, <2>3 DEF Seen, Gone
    <3> QED BY <3>1, <2>1, <2>2, <1>1, <1>3 DEF Newcomers
  <2>4. CASE s \in ProjectedSupports
    <3> DEFINE f   == SupporterOf[s]
               old == Seen \ Announced
               new == Seen' \ Announced'
    <3>1. Gone' = Gone \cup {s} /\ s \notin Gone
      BY <2>1, <2>4 DEF Gone
    <3>2. Seen' \in SUBSET Seen /\ Seen \ {f} \subseteq Seen'
      BY <2>1 DEF Seen
    <3>3. Announced' \subseteq Announced
      BY <2>2 DEF Announced, Newcomers
    <3>4. IsFiniteSet(Gone') /\ Cardinality(Gone') = Cardinality(Gone) + 1
      BY <3>1, <1>1, FS_AddElement
    <3>5. IsFiniteSet(Seen')
      BY <3>2, <1>1, <1>2
    <3>6. old \in SUBSET (new \cup {f}) /\ new \in SUBSET Seen'
      BY <3>2, <3>3
    <3> HIDE DEF f, old, new
    <3>7. IsFiniteSet(new) /\ IsFiniteSet(new \cup {f}) /\ Cardinality(new) \in Nat
      BY <3>5, <3>6, <1>2, FS_AddElement
    <3>8. Cardinality(new \cup {f}) <= Cardinality(new) + 1
      BY <3>7, FS_AddElement
    <3>9. /\ Cardinality(old) \in Nat /\ Cardinality(new \cup {f}) \in Nat
          /\ Cardinality(old) <= Cardinality(new \cup {f})
      BY <3>6, <3>7, <1>2
    <3>10. Cardinality(Gone) \in Nat
      BY <1>1, FS_CardinalityType
    <3>11. totalSupporters' <= Cardinality(Seen' \ Announced') + Cardinality(Gone')
      BY <3>4, <3>7, <3>8, <3>9, <3>10, <2>1, <1>1 DEF old, new
    <3> QED BY <3>4, <3>5, <3>11, <2>2, <1>1 DEF CountedOnce, Newcomers
  <2> QED BY <2>3, <2>4
<1>6. ASSUME NEW r \in Runs, CountPrevious(r)
      PROVE  CountedOnce'
  <2> DEFINE f == SupporterIn(r)
             p == run[r].event[1]
  <2>1. /\ UNCHANGED <<completed, event>> /\ run'[r].event = run[r].event
        /\ p \notin ProjectedSupports
        /\ \A q \in Runs \ {r} : run'[q] = run[q]
    BY <1>6, CountLemma
  <2>2. Seen' = Seen /\ Gone' = Gone /\ totalSupporters' = totalSupporters
    BY <2>1, <1>6 DEF CountPrevious, statistics, Seen, Gone, ProjectedSupports
  <2>3. \A q \in Runs : SupporterIn(q)' = SupporterIn(q)
    BY <2>1 DEF SupporterIn
  <2>4. r \notin Newcomers
    BY <1>6 DEF CountPrevious, Newcomers
  <2>5. CASE run'[r].previous # 0 \/ p \notin completed
    <3>1. Newcomers' \subseteq Newcomers
      BY <2>1, <2>5 DEF Newcomers
    <3> QED BY <3>1, <2>2, <2>3, <1>1, <1>3 DEF Newcomers
  <2>6. CASE run'[r].previous = 0 /\ p \in completed
    <3>1. p \in Completed(f) /\ Cardinality(Completed(f)) = 1
      BY <2>6, <1>6, CountLemma
    <3>2. Completed(f) = {p}
      <4>1. IsFiniteSet(Completed(f))
        BY CompletedLemma
      <4>2. \E x : Completed(f) = {x}
        BY <4>1, <3>1, FS_Singleton
      <4> QED BY <4>2, <3>1
    <3>3. f \notin Seen
      <4>1. ASSUME NEW s \in ProjectedSupports \cap completed, SupporterOf[s] = f
            PROVE  FALSE
        <5>1. s \in Completed(f)
          BY <4>1 DEF ProjectedSupports, Completed, SupportsOf
        <5> QED BY <5>1, <3>2, <2>1
      <4> QED BY <4>1 DEF Seen
    <3>4. \A q \in Newcomers : SupporterIn(q) # f
      <4> SUFFICES ASSUME NEW q \in Newcomers, SupporterIn(q) = f
                   PROVE  FALSE
        OBVIOUS
      <4>1. /\ run[q].pc = "commit" /\ run[q].event \in Supports \X {"PROJECTIONS"}
            /\ run[q].event[1] \in completed
        BY DEF Newcomers, RunsKeepToTheirEvent, KeepsToItsEvent, Projecting
      <4>2. run[q].event[1] \in Completed(f)
        BY <4>1 DEF Completed, SupportsOf, SupporterIn
      <4>3. run[q].event = run[r].event
        BY <4>1, <4>2, <3>2, <1>6, CountLemma
      <4>4. Holds(q, run[r].event)
        BY <4>1, <4>3 DEF Holds, Projecting
      <4>5. q = r
        BY <4>4, <1>6, CountLemma DEF Newcomers
      <4> QED BY <4>5, <2>4
    <3>5. Newcomers' = Newcomers \cup {r}
      BY <2>1, <2>6, <1>6, CountLemma DEF Newcomers
    <3>6. Announced' = Announced \cup {f}
      BY <3>5, <2>3 DEF Announced, Newcomers
    <3>7. Seen' \ Announced' = Seen \ Announced
      BY <3>3, <3>6, <2>2
    <3> HIDE DEF f
    <3>8. \A a, b \in Newcomers' : SupporterIn(a)' = SupporterIn(b)' => a = b
      BY <3>4, <3>5, <2>3, <1>1 DEF f, Newcomers
    <3> QED BY <3>7, <3>8, <2>2, <1>1 DEF CountedOnce
  <2> QED BY <2>5, <2>6
<1>7. ASSUME NEW r \in Runs, CommitProjection(r)
      PROVE  CountedOnce'
  <2> DEFINE f == SupporterIn(r)
             p == run[r].event[1]
  <2>1. /\ completed' = completed /\ run[r].pc = "commit"
        /\ p \in Supports \ ProjectedSupports
        /\ ProjectedSupports' = ProjectedSupports \cup {p}
        /\ run'[r].pc \in {"idle", "next"}
        /\ \A q \in Runs \ {r} : run'[q] = run[q]
    BY <1>7, CommitLemma
  <2>2. Newcomers' = Newcomers \ {r} /\ \A q \in Newcomers' : SupporterIn(q)' = SupporterIn(q)
    BY <2>1 DEF Newcomers, SupporterIn
  <2>3. totalSupporters' = totalSupporters + (IF run[r].previous = 0 THEN 1 ELSE 0)
    BY <1>7 DEF CommitProjection
  <2>4. Cardinality(Gone) \in Nat
    BY <1>1, FS_CardinalityType
  <2>5. CASE p \in completed
    <3>1. Seen' = Seen \cup {f} /\ Gone' = Gone
      BY <2>1, <2>5 DEF Seen, Gone, SupporterIn
    <3>2. IsFiniteSet(Seen')
      BY <3>1, <1>1, FS_AddElement
    <3>3. CASE run[r].previous # 0
      BY <3>1, <3>2, <3>3, <2>2, <2>3, <1>1, <1>3
    <3>4. CASE run[r].previous = 0
      <4> DEFINE old == Seen \ Announced
      <4>1. r \in Newcomers
        BY <2>1, <2>5, <3>4 DEF Newcomers
      <4>2. f \in Announced /\ Announced' = Announced \ {f}
        BY <4>1, <2>2, <1>1 DEF Announced
      <4>3. Seen' \ Announced' = old \cup {f} /\ f \notin old /\ old \in SUBSET Seen
        BY <4>2, <3>1
      <4> HIDE DEF f, old
      <4>4. /\ Cardinality(old \cup {f}) = Cardinality(old) + 1
            /\ Cardinality(old) \in Nat
        BY <4>3, <1>1, <1>2, FS_AddElement
      <4>5. totalSupporters' <= Cardinality(Seen' \ Announced') + Cardinality(Gone')
        <5>1. Cardinality(Seen' \ Announced') = Cardinality(old) + 1
          BY <4>3, <4>4
        <5>2. totalSupporters <= Cardinality(old) + Cardinality(Gone)
          BY <1>1 DEF old
        <5>3. totalSupporters' = totalSupporters + 1 /\ Gone' = Gone
          BY <3>1, <3>4, <2>3
        <5> QED BY <5>1, <5>2, <5>3, <4>4, <2>4, <1>1
      <4> QED BY <4>5, <3>1, <3>2, <2>2, <1>1 DEF CountedOnce
    <3> QED BY <3>3, <3>4
  <2>6. CASE p \notin completed
    <3>1. Seen' = Seen /\ Gone' = Gone \cup {p} /\ p \notin Gone
      BY <2>1, <2>6 DEF Seen, Gone
    <3>2. Newcomers' = Newcomers
      BY <2>2, <2>6 DEF Newcomers
    <3>3. Announced' = Announced
      BY <3>2, <2>2 DEF Announced
    <3> HIDE DEF p
    <3>4. IsFiniteSet(Gone') /\ Cardinality(Gone') = Cardinality(Gone) + 1
      BY <3>1, <1>1, FS_AddElement
    <3>5. Cardinality(Seen \ Announced) \in Nat
      BY <1>1, <1>2
    <3>6. totalSupporters' <= Cardinality(Seen' \ Announced') + Cardinality(Gone')
      BY <3>1, <3>3, <3>4, <3>5, <2>3, <2>4, <1>1
    <3> QED BY <3>1, <3>4, <3>6, <2>2, <1>1 DEF CountedOnce
  <2> QED BY <2>5, <2>6
<1>8. ASSUME Quiet
      PROVE  CountedOnce'
  <2>1. Seen' = Seen /\ Gone' = Gone /\ totalSupporters' = totalSupporters
    BY <1>8 DEF Quiet, payments, statistics, Seen, Gone, ProjectedSupports
  <2>2. Newcomers' \subseteq Newcomers /\ \A q \in Newcomers' : SupporterIn(q)' = SupporterIn(q)
    BY <1>8 DEF Quiet, payments, Newcomers, SupporterIn
  <2> QED BY <2>1, <2>2, <1>1, <1>3
<1> QED BY <1>4, <1>5, <1>6, <1>7, <1>8, QuietLemma

-----------------------------------------------------------------------------
(* Theorems. *)

LEMMA LockedAlways == Spec => []Locked
BY LockedInit, LockedStep, PTL DEF Spec

\* Each support is projected at most once and as a whole, however many runs
\* overlap, fail, crash or take a lapsed claim over
\* (processPendingEvents, applyPaymentCompletedProjection).
THEOREM ProjectionsHappenOnce == Spec => []ProjectedOnce
<1>1. Init => ProjectedOnce
  <2> SUFFICES ASSUME Init PROVE ProjectedOnce
    OBVIOUS
  <2>1. ProjectedSupports = {}
    BY EventLemma DEF Init, ProjectedSupports
  <2> QED BY <2>1 DEF Init, ProjectedOnce
<1> QED BY <1>1, LockedAlways, ProjectedOnceStep, PTL DEF Spec

\* A TOP_FAN badge is given to the supporters who earned it, and to all who keep
\* enough completed supports once those are projected, whatever the projections
\* overlapped with and whichever supports are overwritten meanwhile
\* (previousCompletedSupport, markPaymentFailed).
THEOREM BadgesFollowSupports == Spec => []BadgesAreEarned
<1>1. Init => CountsAreTrue /\ BadgesAreNotForgotten
  <2> SUFFICES ASSUME Init PROVE CountsAreTrue /\ BadgesAreNotForgotten
    OBVIOUS
  <2>1. Cardinality(Paid) = 0 /\ \A f : Cardinality(Spent(f)) = 0
    <3>1. Paid = {} /\ \A f : Spent(f) = {}
      BY DEF Init, Paid, Completed, Spent
    <3> QED BY <3>1, FS_EmptySet
  <2>2. CountsAreTrue
    BY <2>1 DEF Init, Idle, CountsAreTrue
  <2>3. BadgesAreNotForgotten
    BY <2>1, OutboxAssumption DEF BadgesAreNotForgotten
  <2> QED BY <2>2, <2>3
<1>2. Locked /\ CountsAreTrue /\ BadgesAreNotForgotten => BadgesAreEarned
  <2> SUFFICES ASSUME Locked, CountsAreTrue, BadgesAreNotForgotten,
                      NEW f \in {SupporterOf[s] : s \in Supports}
               PROVE  /\ f \in badges => /\ f \in SignedIn
                                         /\ Cardinality(PaidBy(f)) >= TopFan
                      /\ /\ f \in SignedIn
                         /\ Completed(f) \subseteq ProjectedSupports
                         /\ Cardinality(Completed(f)) >= TopFan
                         => f \in badges
    BY DEF BadgesAreEarned, Completed, PaidBy
  <2>1. f \in badges => f \in SignedIn /\ Cardinality(PaidBy(f)) >= TopFan
    BY DEF CountsAreTrue
  <2>2. ASSUME f \in SignedIn, Completed(f) \subseteq ProjectedSupports,
               Cardinality(Completed(f)) >= TopFan
        PROVE  f \in badges
    <3> SUFFICES ASSUME f \notin badges PROVE FALSE
      OBVIOUS
    <3>1. Spent(f) = Completed(f)
      BY <2>2 DEF Spent
    <3>2. Cardinality(Completed(f)) < TopFan
      BY <3>1, <2>2 DEF BadgesAreNotForgotten
    <3>3. Cardinality(Completed(f)) \in Nat
      BY CompletedLemma DEF Locked
    <3> QED BY <3>2, <3>3, <2>2, OutboxAssumption
  <2> QED BY <2>1, <2>2
<1> QED BY <1>1, <1>2, LockedAlways, CountsStep, BadgesStep, PTL DEF Spec

\* The creator's statistics never count a supporter twice, but for supports that
\* were overwritten, nor more supports than were paid, although each projection
\* writes numbers it read earlier (totalSupports, totalSupporters).
THEOREM StatisticsAreBounded == Spec => []NeverOvercounted
<1>1. Init => CountsAreTrue /\ CountedOnce
  <2> SUFFICES ASSUME Init PROVE CountsAreTrue /\ CountedOnce
    OBVIOUS
  <2>1. Cardinality(Paid) = 0 /\ badges = {} /\ totalSupports = 0 /\ totalSupporters = 0
    BY FS_EmptySet DEF Init, Paid
  <2>2. \A r \in Runs : run[r].pc = "idle"
    BY DEF Init, Idle
  <2>3. CountsAreTrue
    BY <2>1, <2>2 DEF CountsAreTrue
  <2>4. Seen = {} /\ Gone = {} /\ Newcomers = {}
    BY <2>2, EventLemma DEF Init, Seen, Gone, ProjectedSupports, Newcomers
  <2>5. Seen \ Announced = {}
    BY <2>4
  <2> QED BY <2>1, <2>3, <2>4, <2>5, FS_EmptySet DEF CountedOnce
<1>2. CountsAreTrue /\ CountedOnce /\ Locked => NeverOvercounted
  <2> SUFFICES ASSUME CountsAreTrue, CountedOnce, Locked PROVE NeverOvercounted
    OBVIOUS
  <2>1. Seen \ Announced \in SUBSET Seen /\ IsFiniteSet(Seen) /\ IsFiniteSet(Gone)
    BY DEF CountedOnce
  <2>2. /\ Cardinality(Seen \ Announced) \in Nat /\ Cardinality(Seen) \in Nat
        /\ Cardinality(Seen \ Announced) <= Cardinality(Seen)
    BY <2>1, FS_Subset, FS_CardinalityType
  <2>3. Cardinality(Gone) \in Nat
    BY <2>1, FS_CardinalityType
  <2>4. totalSupporters <= Cardinality(Seen) + Cardinality(Gone)
    BY <2>2, <2>3 DEF CountedOnce, Locked, OutboxTypeOK
  <2> QED BY <2>4 DEF NeverOvercounted, Seen, Gone, CountsAreTrue
<1> QED BY <1>1, <1>2, LockedAlways, CountsStep, CountedOnceStep, PTL DEF Spec

\* The safety part of KeepsOutboxContract: every step projects a paid support
\* for the first time, learns the fate of a message, closes a message whose
\* fate is known, or changes nothing the contract speaks of.
THEOREM OutboxImplementsContract ==
  Spec => Contract!Init /\ [][Contract!Next]_(Contract!vars)
<1>1. Init => Contract!Init
  BY EventLemma DEF Init, Paid, Contract!Init
<1>2. ASSUME Locked, Locked', ProjectedOnce, [Next]_vars
      PROVE  Contract!Next \/ UNCHANGED Contract!vars
  <2> DEFINE closed == {s \in Messages : event[<<s, "TELEGRAM">>] = "processed"}
  <2>0. OutboxTypeOK' /\ Messages \subseteq Supports
    BY <1>2, OutboxAssumption DEF Locked
  <2>1. ASSUME NEW s \in Supports, Complete(s)
        PROVE  Contract!Next
    <3>1. closed' = closed
      <4>1. \A t \in Messages : event'[<<t, "TELEGRAM">>] =
              IF t = s THEN "pending" ELSE event[<<t, "TELEGRAM">>]
        BY <2>1, EventLemma DEF Complete
      <4>2. s \in Messages => event[<<s, "TELEGRAM">>] = "absent"
        BY <1>2, <2>1, EventLemma
           DEF Complete, Locked, EventsFollowPayments, OutboxTypeOK
      <4> QED BY <4>1, <4>2
    <3>2. Contract!Capture(s)
      BY <2>1, <3>1 DEF Complete, Paid, statistics, Contract!Capture
    <3> QED BY <3>2 DEF Contract!Next
  <2>2. ASSUME NEW r \in Runs, CommitProjection(r)
        PROVE  Contract!Next
    <3> DEFINE p == run[r].event[1]
    <3>1. /\ p \in Paid /\ p \in Supports \ ProjectedSupports
          /\ run[r].event = <<p, "PROJECTIONS">>
          /\ Paid' = Paid
      BY <1>2, <2>0, <2>2, CommitLemma DEF payments, Paid
    <3>2. notices[p] = 0
      BY <1>2, <3>1 DEF ProjectedOnce
    <3>3. event' = [event EXCEPT ![<<p, "PROJECTIONS">>] = "processed"]
      BY <2>2, <3>1 DEF CommitProjection, Processed
    <3>4. notices' = [notices EXCEPT ![p] = 1]
      BY <1>2, <2>2, <3>2 DEF CommitProjection
    <3> HIDE DEF p
    <3>5. closed' = closed
      <4>1. \A t \in Messages : <<t, "TELEGRAM">> \in Events
                                /\ <<t, "TELEGRAM">> # <<p, "PROJECTIONS">>
        BY EventLemma
      <4> QED BY <1>2, <3>3, <4>1 DEF Locked, OutboxTypeOK
    <3>6. Contract!Project(p)
      BY <2>2, <3>1, <3>2, <3>4, <3>5 DEF CommitProjection, Contract!Project
    <3> QED BY <3>1, <3>6 DEF Contract!Next
  <2>3. ASSUME NEW r \in Runs, Deliver(r)
        PROVE  Contract!Next
    <3> DEFINE p == run[r].event[1]
    <3>1. run[r].event \in Messages \X {"TELEGRAM"} /\ p \in Paid /\ Paid' = Paid
      BY <1>2, <2>3
         DEF Deliver, Locked, RunsKeepToTheirEvent, KeepsToItsEvent, EventsFollowPayments,
             Informing, payments, Paid
    <3>2. p \in Messages /\ Contract!Inform(p)
      BY <2>3, <3>1 DEF Deliver, statistics, Contract!Inform
    <3> QED BY <2>0, <3>2 DEF Contract!Next
  <2>4. ASSUME NEW r \in Runs, MarkDelivered(r)
        PROVE  Contract!Next
    <3>1. PICK s \in Messages : run[r].event = <<s, "TELEGRAM">> /\ s \in answered
      BY <1>2, <2>4 DEF MarkDelivered, Locked, RunsKeepToTheirEvent, KeepsToItsEvent, Informing
    <3>2. event' = [event EXCEPT ![<<s, "TELEGRAM">>] = "processed"]
      BY <2>4, <3>1 DEF MarkDelivered, Processed
    <3>3. closed' = closed \cup {s}
      <4>1. \A t \in Messages : <<t, "TELEGRAM">> \in Events
                                /\ (<<t, "TELEGRAM">> = <<s, "TELEGRAM">> <=> t = s)
        BY EventLemma
      <4> QED BY <1>2, <3>1, <3>2, <4>1 DEF Locked, OutboxTypeOK
    <3>4. Contract!Close(s)
      BY <2>4, <3>1, <3>3 DEF MarkDelivered, payments, Paid, statistics, Contract!Close
    <3> QED BY <2>0, <3>4 DEF Contract!Next
  <2>5. ASSUME \/ \E s \in Supports : Overwrite(s)
               \/ \E r \in Runs : \/ Start(r) \/ Claim(r) \/ Release(r) \/ Crash(r)
                                  \/ CountSupports(r) \/ CountPrevious(r) \/ FailProjection(r)
                                  \/ LoadMessage(r) \/ DeliveryFails(r)
               \/ Tick
               \/ UNCHANGED vars
        PROVE  UNCHANGED Contract!vars
    <3>1. UNCHANGED <<Paid, event, notices, answered>>
      BY <2>5
         DEF Overwrite, Start, Claim, Release, Crash, CountSupports, CountPrevious,
             FailProjection, LoadMessage, DeliveryFails, Tick, vars, statistics,
             payments, Paid
    <3> QED BY <3>1 DEF Contract!vars
  <2> QED BY <1>2, <2>1, <2>2, <2>3, <2>4, <2>5 DEF Next, RunStep
<1> QED BY <1>1, <1>2, LockedAlways, ProjectionsHappenOnce, PTL DEF Spec
=============================================================================
