---------------------------- MODULE Transactions ----------------------------
(***************************************************************************)
(* The transactions of Ledger as they run side by side in the database.    *)
(* requestWithdrawal, updateWithdrawalStatus and the settlement job run    *)
(* Serializable: what they read they read as it was at their first query,  *)
(* and they fail with P2034 when they update a row that another            *)
(* transaction has updated since.  The service then tries again, three     *)
(* times in all.  A captured payment runs at the default level and only    *)
(* waits for the wallet's row lock.                                        *)
(*                                                                         *)
(* A transaction is two steps, its first query and its end.  The updates   *)
(* before the end hold row locks, which the others wait for or fail on as  *)
(* if they were made at the end.  Beyond row conflicts, Postgres may fail  *)
(* a Serializable transaction for reasons of its own.                      *)
(***************************************************************************)
EXTENDS Ledger

CONSTANTS
  Callers,      \* requests, admins and jobs that can be served at a time
  MaxAttempts,  \* maxAttempts of runSerializableTransaction
  NoOp

VARIABLE txn  \* per caller: the operation, the attempt, what it decided on the
              \* rows it read, and whether a row it will update has been
              \* updated by others since

allVars == <<vars, txn>>

Requests    == [kind    : {"REQUEST"},
                creator : Creators,
                amount  : {amt \in Amounts : amt >= MinWithdrawal},
                key     : Keys \cup {NoKey}]
Reviews     == [kind       : {"PROCESSING", "COMPLETED", "REJECTED"},
                withdrawal : Withdrawals,
                admin      : Admins]
Settlements == [kind : {"SETTLE"}, support : Supports]
Operations  == Requests \cup Reviews \cup Settlements

Idle == [op |-> NoOp, attempt |-> 0, decision |-> "none", stale |-> FALSE]

TxnInit == Init /\ txn = [t \in Callers |-> Idle]

-----------------------------------------------------------------------------
(* What a transaction decides on the rows it reads. *)

\* The withdrawals that carry the key of a request.
BoundTo(op) ==
  {w \in Withdrawals : /\ op.key # NoKey
                       /\ withdrawal[w].owner = op.creator
                       /\ withdrawal[w].key = op.key}

\* The checks before the writes of each operation.
Passes(op) ==
  CASE op.kind = "REQUEST"    -> wallet[op.creator]["available"] >= op.amount
    [] op.kind = "PROCESSING" -> MayMove(op.withdrawal, "PROCESSING")
    [] op.kind \in {"COMPLETED", "REJECTED"} ->
         /\ MayMove(op.withdrawal, op.kind)
         /\ MakerChecker(op.withdrawal, op.admin)
         /\ LET w == withdrawal[op.withdrawal]
            IN  wallet[w.owner]["locked"] >= w.amount
    [] op.kind = "SETTLE" ->
         LET s == support[op.support] IN
         /\ s.status = "COMPLETED" /\ s.settlement = "PENDING" /\ s.applied
         /\ wallet[CreatorOf[op.support]]["pending"] >= Net[op.support]

\* A request whose key is bound answers with that withdrawal, if it is the same
\* request (ensureIdempotentWithdrawalMatches; the amount stands for what it
\* compares), and with a conflict otherwise.
Decide(op) ==
  IF op.kind = "REQUEST" /\ BoundTo(op) # {}
    THEN IF \A w \in BoundTo(op) : withdrawal[w].amount = op.amount
           THEN "replay" ELSE "refuse"
    ELSE IF Passes(op) THEN "write" ELSE "refuse"

\* The rows an operation updates; rows it inserts conflict with nobody.
RowsOf(op) ==
  CASE op.kind = "REQUEST"    -> {<<"wallet", op.creator>>}
    [] op.kind = "PROCESSING" -> {<<"withdrawal", op.withdrawal>>}
    [] op.kind \in {"COMPLETED", "REJECTED"} ->
         {<<"withdrawal", op.withdrawal>>,
          <<"wallet", withdrawal[op.withdrawal].owner>>}
    [] op.kind = "SETTLE" ->
         {<<"support", op.support>>, <<"wallet", CreatorOf[op.support]>>}

-----------------------------------------------------------------------------
(* The steps of a transaction. *)

Attempt(op, n) == [op |-> op, attempt |-> n, decision |-> Decide(op),
                   stale |-> FALSE]

\* The first attempt takes its snapshot.
Begin(t, op) ==
  /\ txn[t] = Idle
  /\ txn' = [txn EXCEPT ![t] = Attempt(op, 1)]
  /\ UNCHANGED vars

\* Rows have been updated: they are stale for the transactions that are about to
\* update them as well.
WithStale(rows) ==
  [u \in Callers |->
     IF txn[u].decision = "write" /\ RowsOf(txn[u].op) \cap rows # {}
       THEN [txn[u] EXCEPT !.stale = TRUE] ELSE txn[u]]

\* Faulty variant: the updates go through whatever happened to the rows, as at
\* the default isolation level.
MayWrite_ReadCommitted(t) == txn[t].decision = "write"

\* The transaction has passed its checks, and its updates find their rows as
\* they were.
MayWrite(t) == txn[t].decision = "write" /\ ~txn[t].stale

\* The writes, as Ledger has them, and the answer.
Commit(t) ==
  LET op == txn[t].op IN
  /\ MayWrite(t)
  /\ \/ /\ op.kind = "REQUEST"
        /\ \E w \in Withdrawals :
             RequestWithdrawal(w, op.creator, op.amount, op.key)
     \/ op.kind = "PROCESSING" /\ MoveToProcessing(op.withdrawal, op.admin)
     \/ op.kind = "COMPLETED"  /\ CompleteWithdrawal(op.withdrawal, op.admin)
     \/ op.kind = "REJECTED"   /\ RejectWithdrawal(op.withdrawal, op.admin)
     \/ op.kind = "SETTLE"     /\ SettleSupport(op.support)
  /\ txn' = [WithStale(RowsOf(op)) EXCEPT ![t] = Idle]

\* Faulty variant: try until it works.
NextAttempt_Endless(t) == Attempt(txn[t].op, 1)

\* The next attempt reads everything again; after the last one the error is the
\* answer.
NextAttempt(t) ==
  IF txn[t].attempt < MaxAttempts THEN Attempt(txn[t].op, txn[t].attempt + 1)
                                  ELSE Idle

\* P2034, because a row to update is stale or because Postgres wants it so.
SerializationFailure(t) ==
  /\ txn[t] # Idle
  /\ txn' = [txn EXCEPT ![t] = NextAttempt(t)]
  /\ UNCHANGED vars

\* A check has failed, or a request is repeated: the answer changes nothing.
AnswerOnly(t) ==
  /\ txn[t].decision \in {"refuse", "replay"}
  /\ txn' = [txn EXCEPT ![t] = Idle]
  /\ UNCHANGED vars

\* A payment is captured or fails meanwhile.
CapturePayment(s) ==
  /\ CompletePayment(s)
  /\ txn' = WithStale({<<"support", s>>, <<"wallet", CreatorOf[s]>>})

FailPayment(s) ==
  /\ MarkPaymentFailed(s)
  /\ txn' = WithStale({<<"support", s>>})

Step(t) == Commit(t) \/ SerializationFailure(t) \/ AnswerOnly(t)

TxnNext ==
  \/ \E t \in Callers : Step(t) \/ \E op \in Operations : Begin(t, op)
  \/ \E s \in Supports : CapturePayment(s) \/ FailPayment(s)

\* A server that has begun a request goes on with it.
TxnFairness == \A t \in Callers : WF_allVars(Step(t))

TxnSpec     == TxnInit /\ [][TxnNext]_allVars
FairTxnSpec == TxnSpec /\ TxnFairness
-----------------------------------------------------------------------------
(* Properties. *)

\* What a transaction decided on its snapshot it would decide again when it
\* commits, although only the rows it updates are protected, not the key it
\* looked up, the audit log and the other rows it read.  So each commit is a
\* step of Ledger, which decides and writes at once, and two requests with one
\* key never get as far as the unique index: the row of the wallet, which both
\* update, sorts them out.
DecisionsHold ==
  \A t \in Callers : MayWrite(t) => Decide(txn[t].op) = "write"

\* Every request is answered, however often its transaction fails.
EveryRequestIsAnswered ==
  \A t \in Callers : txn[t] # Idle ~> txn[t] = Idle
=============================================================================
