--------------------------- MODULE Reconciliation ---------------------------
(***************************************************************************)
(* The job of wallet-reconciliation.service.ts beside the transactions of  *)
(* Ledger.  Every six hours it compares each wallet with the accounting    *)
(* entries and alerts the admins of a mismatch, once in 24 hours per       *)
(* wallet.  Each server runs the job on its own.  It runs in no            *)
(* transaction: one query fetches the wallets and a later one their        *)
(* entries, and the number of recent alerts is read before new ones are    *)
(* written.                                                                *)
(***************************************************************************)
EXTENDS Ledger, FiniteSets

CONSTANTS
  Jobs,     \* runs of the job that may overlap: one per server, and those
            \* that admins start (runAdminReconciliation)
  Checked   \* the RECONCILIATION_BATCH_SIZE oldest wallets

ASSUME ReconciliationAssumption == Checked \subseteq Creators

VARIABLES
  job,    \* per run: where it is, the wallets it has read, the mismatched
          \* wallets it has still to report and the one it found unreported
  alerts  \* alerts of each wallet in the last 24 hours, one per batch of
          \* notifications to all admins

reconVars == <<vars, job, alerts>>

Asleep == [pc |-> "asleep", read |-> [c \in Checked |-> Zero], todo |-> {},
           alerting |-> {}]

ReconInit ==
  /\ Init
  /\ job    = [j \in Jobs |-> Asleep]
  /\ alerts = [c \in Checked |-> 0]

-----------------------------------------------------------------------------

\* The wallets, as they are at the first query.
ReadWallets(j) ==
  /\ job[j].pc = "asleep"
  /\ job' = [job EXCEPT ![j].pc   = "entries",
                        ![j].read = [c \in Checked |-> wallet[c]]]
  /\ UNCHANGED <<vars, alerts>>

\* Faulty variant: the entries of the locked balance are not asked for.
Expected_Unlocked(c) == [entrySum[c] EXCEPT !["locked"] = 0]

\* getExpectedBalancesFromAccountingEntries.
Expected(c) == entrySum[c]

\* The entries, as they are at a later query, and the comparison.  The newest
\* wallet transaction, read between the two, only goes into the log.
ReadEntries(j) ==
  /\ job[j].pc = "entries"
  /\ LET mismatches == {c \in Checked : job[j].read[c] # Expected(c)} IN
     job' = [job EXCEPT ![j] =
               IF mismatches = {} THEN Asleep
               ELSE [Asleep EXCEPT !.pc = "report", !.todo = mismatches]]
  /\ UNCHANGED <<vars, alerts>>

\* The next state of a run that has dealt with a mismatch.
Reported(j, c) ==
  IF job[j].todo = {c} THEN Asleep
  ELSE [job[j] EXCEPT !.todo = @ \ {c}, !.alerting = {}]

\* Faulty variant: the cooldown is not looked at.
CoolingDown_Never(c) == FALSE

\* An alert about this wallet was created within the cooldown.
CoolingDown(c) == alerts[c] > 0

\* escalateMismatch up to the count of the recent alerts.
CountAlerts(j, c) ==
  /\ c \in job[j].todo
  /\ job[j].alerting = {}
  /\ job' = [job EXCEPT ![j] = IF CoolingDown(c) THEN Reported(j, c)
                               ELSE [@ EXCEPT !.alerting = {c}]]
  /\ UNCHANGED <<vars, alerts>>

\* The rest of escalateMismatch.
CreateAlerts(j, c) ==
  /\ c \in job[j].alerting
  /\ alerts' = [alerts EXCEPT ![c] = IF Admins = {} THEN @ ELSE @ + 1]
  /\ job'    = [job EXCEPT ![j] = Reported(j, c)]
  /\ UNCHANGED vars

\* A query fails or the server stops; nothing resumes the run.
Abort(j) ==
  /\ job[j].pc # "asleep"
  /\ job' = [job EXCEPT ![j] = Asleep]
  /\ UNCHANGED <<vars, alerts>>

\* An alert gets older than the cooldown.
CooldownEnds(c) ==
  /\ alerts[c] > 0
  /\ alerts' = [alerts EXCEPT ![c] = @ - 1]
  /\ UNCHANGED <<vars, job>>

ReconNext ==
  \/ Next /\ UNCHANGED <<job, alerts>>
  \/ \E j \in Jobs : \/ ReadWallets(j) \/ ReadEntries(j) \/ Abort(j)
                     \/ \E c \in Checked : CountAlerts(j, c) \/ CreateAlerts(j, c)
  \/ \E c \in Checked : CooldownEnds(c)

ReconSpec == ReconInit /\ [][ReconNext]_reconVars
-----------------------------------------------------------------------------
(* Properties. *)

\* A wallet at rest is never reported.  The two queries of the job can disagree
\* although the books agree after every transaction, but only about a wallet in
\* which money moved between them: a false alarm is possible, one about a
\* wallet that nobody touched is not.
AlarmsNeedMovement ==
  [][\A j \in Jobs : job[j].pc = "entries"
       => \A c \in job'[j].todo : wallet[c] # job[j].read[c]]_reconVars

\* The cooldown is checked before the alert is written and nothing holds it
\* meanwhile, so the runs that overlap may each raise an alert about the same
\* wallet, but none of them raises a second one within the cooldown.
OneAlarmPerRun == \A c \in Checked : alerts[c] <= Cardinality(Jobs)
=============================================================================
