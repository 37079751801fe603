------------------------ MODULE ReconciliationProofs ------------------------
(* Proofs of the properties of Reconciliation.  The books balance beside the *)
(* job as they do without it, since the job writes none of their rows; that  *)
(* is what makes a report about a wallet at rest impossible.                 *)
EXTENDS Reconciliation, LedgerProofs, FiniteSetTheorems

JobTypeOK ==
  /\ job \in [Jobs -> [pc       : {"asleep", "entries", "report"},
                       read     : [Checked -> [Buckets -> Int]],
                       todo     : SUBSET Checked,
                       alerting : SUBSET Checked]]
  /\ alerts \in [Checked -> Nat]

\* What ReadWallets has read is only looked at by ReadEntries, which starts with
\* nothing to report.
NothingToReport ==
  \A j \in Jobs : job[j].pc # "report" => job[j].todo = {} /\ job[j].alerting = {}

\* The runs that are about to write an alert about a wallet.
Alerting(c) == {j \in Jobs : c \in job[j].alerting}

\* Every recent alert was written by a run that was not about to write another:
\* a run starts to write only when there is none.
AlertsAreCounted ==
  \A c \in Checked : alerts[c] + Cardinality(Alerting(c)) <= Cardinality(Jobs)

JobInv == TypeOK /\ Reconciled /\ JobTypeOK /\ NothingToReport

-----------------------------------------------------------------------------
\* Each step of the system is a step of the ledger or leaves it alone.
LEMMA LedgerStep == [ReconNext]_reconVars => [Next]_vars
  BY DEF ReconNext, reconVars, ReadWallets, ReadEntries, CountAlerts,
         CreateAlerts, Abort, CooldownEnds

\* The job writes no row of the ledger: all that is proved of Ledger, its
\* contract included, holds while the job runs.
THEOREM ReconciliationImplementsLedger == ReconSpec => Spec
  BY LedgerStep, PTL DEF ReconSpec, ReconInit, Spec

\* The job's state is of its type initially.
LEMMA InitJobInv == ReconInit => JobInv
<1> SUFFICES ASSUME ReconInit PROVE JobInv
  OBVIOUS
<1>1. TypeOK /\ Reconciled
  BY InitTypeOK, InitReconciled DEF ReconInit
<1>2. JobTypeOK
  BY ReconciliationAssumption DEF ReconInit, JobTypeOK, Asleep, Zero, Buckets
<1>3. NothingToReport
  BY DEF ReconInit, NothingToReport, Asleep
<1> QED BY <1>1, <1>2, <1>3 DEF JobInv

\* Dealing with a mismatch leaves a state of the right shape.
LEMMA ReportedLemma ==
  ASSUME JobTypeOK, NothingToReport, NEW j \in Jobs, NEW c \in job[j].todo
  PROVE  /\ Reported(j, c) \in [pc       : {"asleep", "entries", "report"},
                                read     : [Checked -> [Buckets -> Int]],
                                todo     : SUBSET Checked,
                                alerting : SUBSET Checked]
         /\ Reported(j, c).pc # "report" => Reported(j, c).todo = {}
         /\ Reported(j, c).alerting = {}
<1>1. Asleep \in [pc : {"asleep", "entries", "report"},
                  read : [Checked -> [Buckets -> Int]],
                  todo : SUBSET Checked, alerting : SUBSET Checked]
  BY DEF Asleep, Zero, Buckets
<1>2. job[j].pc = "report"
  BY DEF NothingToReport
<1> QED BY <1>1, <1>2 DEF Reported, JobTypeOK, Asleep

\* The inductive step of the job's part of the invariant.
LEMMA NextJobTypeOK ==
  ASSUME JobInv, [ReconNext]_reconVars
  PROVE  JobTypeOK' /\ NothingToReport'
<1> DEFINE J == [pc       : {"asleep", "entries", "report"},
                 read     : [Checked -> [Buckets -> Int]],
                 todo     : SUBSET Checked,
                 alerting : SUBSET Checked]
<1> USE DEF JobInv
<1>0. Asleep \in J
  BY DEF Asleep, Zero, Buckets
<1>1. ASSUME NEW j \in Jobs, ReadWallets(j)
      PROVE  JobTypeOK' /\ NothingToReport'
  <2>1. [c \in Checked |-> wallet[c]] \in [Checked -> [Buckets -> Int]]
    BY ReconciliationAssumption DEF TypeOK, MoneyTypeOK
  <2>2. job[j].todo = {} /\ job[j].alerting = {}
    BY <1>1 DEF ReadWallets, NothingToReport
  <2> QED BY <1>1, <2>1, <2>2 DEF ReadWallets, JobTypeOK, NothingToReport
<1>2. ASSUME NEW j \in Jobs, ReadEntries(j)
      PROVE  JobTypeOK' /\ NothingToReport'
  <2> DEFINE M == {c \in Checked : job[j].read[c] # Expected(c)}
  <2>1. job' = [job EXCEPT ![j] =
                  IF M = {} THEN Asleep
                  ELSE [Asleep EXCEPT !.pc = "report", !.todo = M]]
        /\ alerts' = alerts
    BY <1>2 DEF ReadEntries
  <2>2. [Asleep EXCEPT !.pc = "report", !.todo = M] \in J
    BY <1>0 DEF Asleep
  <2>3. job' \in [Jobs -> J]
    BY <2>1, <2>2, <1>0 DEF JobTypeOK
  <2>4. NothingToReport'
    BY <2>1, <1>0 DEF NothingToReport, JobTypeOK, Asleep
  <2> QED BY <2>1, <2>3, <2>4 DEF JobTypeOK
<1>3. ASSUME NEW j \in Jobs, NEW c \in Checked, CountAlerts(j, c)
      PROVE  JobTypeOK' /\ NothingToReport'
  <2>1. job[j].pc = "report"
    BY <1>3 DEF CountAlerts, NothingToReport
  <2>2. c \in job[j].todo
    BY <1>3 DEF CountAlerts
  <2>3. CASE CoolingDown(c)
    BY <1>3, <2>2, <2>3, ReportedLemma DEF CountAlerts, JobTypeOK, NothingToReport
  <2>4. CASE ~CoolingDown(c)
    BY <1>3, <2>1, <2>4 DEF CountAlerts, JobTypeOK, NothingToReport
  <2> QED BY <2>3, <2>4
<1>4. ASSUME NEW j \in Jobs, NEW c \in Checked, CreateAlerts(j, c)
      PROVE  JobTypeOK' /\ NothingToReport'
  <2>1. alerts' \in [Checked -> Nat]
    BY <1>4 DEF CreateAlerts, JobTypeOK
  <2>2. Reported(j, c) \in J /\ (Reported(j, c).pc # "report"
          => Reported(j, c).todo = {} /\ Reported(j, c).alerting = {})
    <3>1. job[j].pc = "report"
      BY <1>4 DEF CreateAlerts, NothingToReport
    <3> QED BY <3>1, <1>0 DEF Reported, JobTypeOK, Asleep
  <2> QED BY <1>4, <2>1, <2>2 DEF CreateAlerts, JobTypeOK, NothingToReport
<1>5. ASSUME NEW j \in Jobs, Abort(j)
      PROVE  JobTypeOK' /\ NothingToReport'
  BY <1>5, <1>0 DEF Abort, JobTypeOK, NothingToReport, Asleep
<1>6. ASSUME NEW c \in Checked, CooldownEnds(c)
      PROVE  JobTypeOK' /\ NothingToReport'
  BY <1>6 DEF CooldownEnds, JobTypeOK, NothingToReport
<1>7. ASSUME UNCHANGED <<job, alerts>>
      PROVE  JobTypeOK' /\ NothingToReport'
  BY <1>7 DEF JobTypeOK, NothingToReport
<1> QED BY <1>1, <1>2, <1>3, <1>4, <1>5, <1>6, <1>7 DEF ReconNext, reconVars

\* Every step keeps JobInv.
LEMMA NextJobInv == JobInv /\ [ReconNext]_reconVars => JobInv'
  BY NextJobTypeOK, LedgerStep, NextTypeOK, NextReconciled DEF JobInv

\* Beside the job's invariant, the ledger's.
LEMMA JobInvHolds == ReconSpec => []JobInv
  BY InitJobInv, NextJobInv, PTL DEF ReconSpec

\* The job never reports a wallet that nobody touched while it was reading
\* (AlarmsNeedMovement), because the wallet and its entries agree after every
\* transaction.
THEOREM NoFalseAlarmAtRest == ReconSpec => AlarmsNeedMovement
<1> DEFINE A == \A j \in Jobs : job[j].pc = "entries"
                  => \A c \in job'[j].todo : wallet[c] # job[j].read[c]
<1>1. JobInv /\ [ReconNext]_reconVars => [A]_reconVars
  <2> SUFFICES ASSUME JobInv, ReconNext,
                      NEW i \in Jobs, job[i].pc = "entries",
                      NEW d \in job'[i].todo
               PROVE  wallet[d] # job[i].read[d]
    OBVIOUS
  <2> USE DEF JobInv
  <2>0. job[i].todo = {}
    BY DEF NothingToReport
  <2>1. PICK j \in Jobs : \/ ReadWallets(j) \/ ReadEntries(j) \/ Abort(j)
                          \/ \E c \in Checked : CountAlerts(j, c)
                                                  \/ CreateAlerts(j, c)
    BY <2>0 DEF ReconNext, CooldownEnds
  <2>2. j = i
    BY <2>0, <2>1 DEF ReadWallets, ReadEntries, Abort, CountAlerts,
                      CreateAlerts, JobTypeOK
  <2>3. ReadEntries(i)
    BY <2>0, <2>1, <2>2
       DEF ReadWallets, Abort, CountAlerts, CreateAlerts, JobTypeOK, Asleep,
           NothingToReport
  <2>4. d \in Checked /\ job[i].read[d] # Expected(d)
    BY <2>3 DEF ReadEntries, Asleep, JobTypeOK
  <2> QED BY <2>4, ReconciliationAssumption DEF Expected, Reconciled
<1> QED BY <1>1, JobInvHolds, PTL DEF ReconSpec, AlarmsNeedMovement

-----------------------------------------------------------------------------
\* Who is about to write is found among finitely many runs.
LEMMA AlertingIsFinite ==
  ASSUME IsFiniteSet(Jobs), NEW c
  PROVE  /\ IsFiniteSet(Alerting(c))
         /\ Cardinality(Alerting(c)) \in Nat
         /\ Cardinality(Jobs) \in Nat
<1>1. Alerting(c) \in SUBSET Jobs
  BY DEF Alerting
<1> QED BY <1>1, FS_Subset, FS_CardinalityType

\* A run that no longer is about to write cannot raise the number.
LEMMA FewerAlerting ==
  ASSUME IsFiniteSet(Jobs), AlertsAreCounted, JobTypeOK,
         NEW c \in Checked, Alerting(c)' \subseteq Alerting(c),
         alerts'[c] \in Nat, alerts'[c] <= alerts[c]
  PROVE  alerts'[c] + Cardinality(Alerting(c)') <= Cardinality(Jobs)
<1>1. /\ IsFiniteSet(Alerting(c)')
      /\ Cardinality(Alerting(c)') <= Cardinality(Alerting(c))
  <2>1. Alerting(c)' \in SUBSET Alerting(c)
    OBVIOUS
  <2> QED BY <2>1, AlertingIsFinite, FS_Subset
<1>2. /\ Cardinality(Alerting(c)') \in Nat
      /\ Cardinality(Alerting(c)) \in Nat
      /\ Cardinality(Jobs) \in Nat
  BY <1>1, AlertingIsFinite, FS_CardinalityType
<1>3. alerts[c] \in Nat /\ alerts[c] + Cardinality(Alerting(c)) <= Cardinality(Jobs)
  BY DEF AlertsAreCounted, JobTypeOK
<1> HIDE DEF Alerting
<1> QED BY <1>1, <1>2, <1>3

\* The inductive step: a run goes from about-to-write to having written, and it
\* is about to write only where there is no recent alert.
LEMMA NextCounted ==
  ASSUME IsFiniteSet(Jobs), JobInv, JobInv', AlertsAreCounted,
         [ReconNext]_reconVars
  PROVE  AlertsAreCounted'
<1> SUFFICES ASSUME NEW d \in Checked
             PROVE  alerts'[d] + Cardinality(Alerting(d)') <= Cardinality(Jobs)
  BY DEF AlertsAreCounted
<1>0. /\ JobTypeOK /\ NothingToReport
      /\ alerts[d] \in Nat /\ alerts'[d] \in Nat
  BY DEF JobInv, JobTypeOK
<1>1. ASSUME NEW j \in Jobs, ReadWallets(j) \/ ReadEntries(j) \/ Abort(j)
      PROVE  Alerting(d)' \subseteq Alerting(d) /\ alerts'[d] <= alerts[d]
  <2>1. job'[j].alerting = job[j].alerting \/ job'[j].alerting = {}
    <3>1. CASE ReadWallets(j)
      BY <3>1, <1>0 DEF ReadWallets, JobTypeOK
    <3>2. CASE ReadEntries(j)
      <4> DEFINE M == {c \in Checked : job[j].read[c] # Expected(c)}
      <4>1. job' = [job EXCEPT ![j] =
                      IF M = {} THEN Asleep
                      ELSE [Asleep EXCEPT !.pc = "report", !.todo = M]]
        BY <3>2 DEF ReadEntries
      <4> HIDE DEF M
      <4> QED BY <4>1, <1>0 DEF Asleep, JobTypeOK
    <3>3. CASE Abort(j)
      BY <3>3, <1>0 DEF Abort, Asleep, JobTypeOK
    <3> QED BY <1>1, <3>1, <3>2, <3>3
  <2>2. \A i \in Jobs \ {j} : job'[i] = job[i]
    BY <1>1, <1>0 DEF ReadWallets, ReadEntries, Abort, JobTypeOK
  <2>3. alerts' = alerts
    BY <1>1 DEF ReadWallets, ReadEntries, Abort
  <2>4. \A i \in Jobs : job'[i].alerting \subseteq job[i].alerting
    BY <2>1, <2>2
  <2> QED BY <2>3, <2>4, <1>0 DEF Alerting
<1>2. ASSUME NEW j \in Jobs, NEW c \in Checked, CountAlerts(j, c),
             CoolingDown(c) \/ c # d
      PROVE  Alerting(d)' \subseteq Alerting(d) /\ alerts'[d] <= alerts[d]
  BY <1>2, <1>0 DEF CountAlerts, Reported, Alerting, Asleep, JobTypeOK
<1>3. ASSUME NEW j \in Jobs, CountAlerts(j, d), ~CoolingDown(d)
      PROVE  alerts'[d] + Cardinality(Alerting(d)') <= Cardinality(Jobs)
  <2>1. alerts'[d] = 0
    BY <1>3, <1>0 DEF CountAlerts, CoolingDown
  <2>2. /\ Alerting(d)' \in SUBSET Jobs
    BY DEF Alerting, CountAlerts, JobInv
  <2>3. /\ Cardinality(Alerting(d)') <= Cardinality(Jobs)
        /\ Cardinality(Alerting(d)') \in Nat /\ Cardinality(Jobs) \in Nat
    BY <2>2, FS_Subset, FS_CardinalityType
  <2> HIDE DEF Alerting
  <2> QED BY <2>1, <2>3
<1>4. ASSUME NEW j \in Jobs, NEW c \in Checked, CreateAlerts(j, c), c # d
      PROVE  Alerting(d)' \subseteq Alerting(d) /\ alerts'[d] <= alerts[d]
  BY <1>4, <1>0 DEF CreateAlerts, Reported, Alerting, Asleep, JobTypeOK
<1>5. ASSUME NEW j \in Jobs, CreateAlerts(j, d)
      PROVE  alerts'[d] + Cardinality(Alerting(d)') <= Cardinality(Jobs)
  <2>1. j \in Alerting(d) /\ alerts'[d] <= alerts[d] + 1
    BY <1>5, <1>0 DEF CreateAlerts, Alerting, JobTypeOK
  <2>2. Alerting(d)' = Alerting(d) \ {j}
    BY <1>5, <1>0 DEF CreateAlerts, Reported, Alerting, Asleep, JobTypeOK
  <2>3. Cardinality(Alerting(d) \ {j}) = Cardinality(Alerting(d)) - 1
    BY <2>1, AlertingIsFinite, FS_RemoveElement
  <2>4. alerts[d] + Cardinality(Alerting(d)) <= Cardinality(Jobs)
    BY DEF AlertsAreCounted
  <2>5. Cardinality(Alerting(d)) \in Nat /\ Cardinality(Jobs) \in Nat
    BY AlertingIsFinite
  <2> HIDE DEF Alerting
  <2> QED BY <1>0, <2>1, <2>2, <2>3, <2>4, <2>5
<1>6. ASSUME NEW c \in Checked, CooldownEnds(c)
      PROVE  Alerting(d)' \subseteq Alerting(d) /\ alerts'[d] <= alerts[d]
  BY <1>6, <1>0 DEF CooldownEnds, Alerting, JobTypeOK
<1>7. ASSUME UNCHANGED <<job, alerts>>
      PROVE  Alerting(d)' \subseteq Alerting(d) /\ alerts'[d] <= alerts[d]
  BY <1>7, <1>0 DEF Alerting
<1> HIDE DEF Alerting
<1> QED BY <1>0, <1>1, <1>2, <1>3, <1>4, <1>5, <1>6, <1>7, FewerAlerting
        DEF ReconNext, reconVars

\* However many servers run the job at once, they raise at most one alert each
\* about a wallet within the cooldown (OneAlarmPerRun).
THEOREM AlarmsAreBounded ==
  ASSUME IsFiniteSet(Jobs)
  PROVE  ReconSpec => []OneAlarmPerRun
<1>1. ReconInit => AlertsAreCounted
  <2> SUFFICES ASSUME ReconInit, NEW c \in Checked
               PROVE  alerts[c] + Cardinality(Alerting(c)) <= Cardinality(Jobs)
    BY DEF AlertsAreCounted
  <2>1. alerts[c] = 0 /\ Alerting(c) = {}
    BY DEF ReconInit, Alerting, Asleep
  <2>2. Cardinality(Alerting(c)) = 0 /\ Cardinality(Jobs) \in Nat
    BY <2>1, FS_EmptySet, FS_CardinalityType
  <2> QED BY <2>1, <2>2
<1>2. JobInv /\ JobInv' /\ AlertsAreCounted /\ [ReconNext]_reconVars
        => AlertsAreCounted'
  BY NextCounted
<1>3. JobInv /\ AlertsAreCounted => OneAlarmPerRun
  <2> SUFFICES ASSUME JobInv, AlertsAreCounted, NEW c \in Checked
               PROVE  alerts[c] <= Cardinality(Jobs)
    BY DEF OneAlarmPerRun
  <2>1. /\ Cardinality(Alerting(c)) \in Nat /\ Cardinality(Jobs) \in Nat
        /\ alerts[c] \in Nat
    BY AlertingIsFinite DEF JobInv, JobTypeOK
  <2> QED BY <2>1 DEF AlertsAreCounted
<1> QED BY <1>1, <1>2, <1>3, JobInvHolds, PTL DEF ReconSpec
=============================================================================
