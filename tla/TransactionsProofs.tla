------------------------- MODULE TransactionsProofs -------------------------
(* Proofs about Transactions: what runs side by side in the database is a    *)
(* behaviour of Ledger, and what a transaction decided on its snapshot it    *)
(* would decide again when it commits.  The argument for the second is a     *)
(* frame: a decision depends on more rows than the transaction updates, but  *)
(* whoever changes one of the others also updates one of its own.            *)
EXTENDS Transactions, LedgerProofs

TxnRecords == [op       : Operations \cup {NoOp},
               attempt  : Nat,
               decision : {"none", "write", "replay", "refuse"},
               stale    : BOOLEAN]

TxnTypeOK == txn \in [Callers -> TxnRecords]

OperationsAreReal ==
  \A t \in Callers : txn[t] # Idle => txn[t].op \in Operations

\* A step changes nothing of what belongs to other rows: not the balance of
\* another creator or the keys that creator has bound, not an existing
\* withdrawal or its log, and not another support.
TouchesOnly(rows) ==
  /\ \A c \in Creators : <<"wallet", c>> \notin rows
       => /\ wallet'[c] = wallet[c]
          /\ \A w \in Withdrawals : withdrawal'[w].owner = c
               => /\ withdrawal[w].owner = c
                  /\ withdrawal'[w].key = withdrawal[w].key
  /\ \A w \in Withdrawals :
       <<"withdrawal", w>> \notin rows /\ withdrawal[w].status # "NONE"
         => withdrawal'[w] = withdrawal[w] /\ audit'[w] = audit[w]
  /\ \A s \in Supports :
       <<"support", s>> \notin rows => support'[s] = support[s]

-----------------------------------------------------------------------------
(* The callers' records. *)

\* A decision is one of three.
LEMMA DecideType == \A op : Decide(op) \in {"write", "replay", "refuse"}
  BY DEF Decide

TxnInv == TxnTypeOK /\ OperationsAreReal

\* Initially nothing runs.
LEMMA InitTxnInv == TxnInit => TxnInv
  BY DEF TxnInit, TxnInv, TxnTypeOK, TxnRecords, OperationsAreReal, Idle

\* What WithStale does to the callers' records.
LEMMA WithStaleLemma ==
  TxnTypeOK =>
    \A rows :
      /\ WithStale(rows) \in [Callers -> TxnRecords]
      /\ \A u \in Callers :
           /\ WithStale(rows)[u].op = txn[u].op
           /\ WithStale(rows)[u].decision = txn[u].decision
           /\ WithStale(rows)[u].stale = FALSE
                => /\ txn[u].stale = FALSE
                   /\ txn[u].decision = "write"
                        => RowsOf(txn[u].op) \cap rows = {}
           /\ txn[u] = Idle => WithStale(rows)[u] = Idle
<1> SUFFICES ASSUME TxnTypeOK, NEW rows
             PROVE  /\ WithStale(rows) \in [Callers -> TxnRecords]
                    /\ \A u \in Callers :
                         /\ WithStale(rows)[u].op = txn[u].op
                         /\ WithStale(rows)[u].decision = txn[u].decision
                         /\ WithStale(rows)[u].stale = FALSE
                              => /\ txn[u].stale = FALSE
                                 /\ txn[u].decision = "write"
                                      => RowsOf(txn[u].op) \cap rows = {}
                         /\ txn[u] = Idle => WithStale(rows)[u] = Idle
  OBVIOUS
<1>0. ASSUME NEW u \in Callers
      PROVE  /\ WithStale(rows)[u] \in TxnRecords
             /\ WithStale(rows)[u].op = txn[u].op
             /\ WithStale(rows)[u].decision = txn[u].decision
             /\ WithStale(rows)[u].stale = FALSE
                  => /\ txn[u].stale = FALSE
                     /\ txn[u].decision = "write"
                          => RowsOf(txn[u].op) \cap rows = {}
             /\ txn[u] = Idle => WithStale(rows)[u] = Idle
  <2>1. WithStale(rows)[u] =
          IF txn[u].decision = "write" /\ RowsOf(txn[u].op) \cap rows # {}
            THEN [txn[u] EXCEPT !.stale = TRUE] ELSE txn[u]
    BY DEF WithStale
  <2>2. Idle.decision = "none"
    BY DEF Idle
  <2>3. txn[u] \in TxnRecords
    BY DEF TxnTypeOK
  <2>4. CASE txn[u].decision = "write" /\ RowsOf(txn[u].op) \cap rows # {}
    <3>1. WithStale(rows)[u] = [txn[u] EXCEPT !.stale = TRUE]
      BY <2>1, <2>4
    <3>2. txn[u] # Idle
      BY <2>2, <2>4
    <3> QED BY <2>3, <3>1, <3>2 DEF TxnRecords
  <2>5. CASE ~(txn[u].decision = "write" /\ RowsOf(txn[u].op) \cap rows # {})
    <3>1. WithStale(rows)[u] = txn[u]
      BY <2>1, <2>5
    <3> QED BY <2>3, <2>5, <3>1 DEF TxnRecords
  <2> QED BY <2>4, <2>5
<1>1. WithStale(rows) \in [Callers -> TxnRecords]
  BY <1>0 DEF WithStale
<1> QED BY <1>0, <1>1

\* The records keep their shape, and only a real operation has been decided on.
LEMMA NextTxnInv ==
  ASSUME TxnInv, [TxnNext]_allVars
  PROVE  TxnInv'
<1>0. TxnTypeOK /\ OperationsAreReal
  BY DEF TxnInv
<1>1. Idle \in TxnRecords /\ Idle.decision = "none"
  BY DEF Idle, TxnRecords
<1>2. \A op \in Operations, n \in Nat :
        Attempt(op, n) \in TxnRecords /\ Attempt(op, n).op = op
  BY DecideType DEF Attempt, TxnRecords
<1>3. \A rows : txn' = WithStale(rows) => TxnInv'
  <2> SUFFICES ASSUME NEW rows, txn' = WithStale(rows) PROVE TxnInv'
    OBVIOUS
  <2> QED BY <1>0, WithStaleLemma DEF TxnInv, TxnTypeOK, OperationsAreReal
<1>4. ASSUME NEW t \in Callers, NEW STATE r, r \in TxnRecords, r = Idle \/ r.op \in Operations,
             NEW STATE f, f \in [Callers -> TxnRecords],
             \A u \in Callers : f[u] # Idle => f[u].op \in Operations,
             txn' = [f EXCEPT ![t] = r]
      PROVE  TxnInv'
  <2> QED BY <1>4 DEF TxnInv, TxnTypeOK, OperationsAreReal
<1>5. ASSUME NEW t \in Callers, NEW op \in Operations, Begin(t, op)
      PROVE  TxnInv'
  <2>1. Attempt(op, 1) \in TxnRecords /\ Attempt(op, 1).op \in Operations
    BY <1>2
  <2>2. txn' = [txn EXCEPT ![t] = Attempt(op, 1)]
    BY <1>5 DEF Begin
  <2> QED BY <1>0, <1>4, <2>1, <2>2 DEF TxnTypeOK, OperationsAreReal
<1>6. ASSUME NEW t \in Callers, SerializationFailure(t)
      PROVE  TxnInv'
  <2>1. txn[t].op \in Operations /\ txn[t].attempt \in Nat
    BY <1>0, <1>6
       DEF SerializationFailure, TxnTypeOK, TxnRecords, OperationsAreReal
  <2>2. NextAttempt(t) \in TxnRecords
        /\ (NextAttempt(t) = Idle \/ NextAttempt(t).op \in Operations)
    BY <1>1, <1>2, <2>1 DEF NextAttempt
  <2> QED BY <1>0, <1>4, <1>6, <2>2
          DEF SerializationFailure, TxnTypeOK, OperationsAreReal
<1>7. ASSUME NEW t \in Callers, AnswerOnly(t)
      PROVE  TxnInv'
  BY <1>0, <1>1, <1>4, <1>7 DEF AnswerOnly, TxnTypeOK, OperationsAreReal
<1>8. ASSUME NEW t \in Callers, Commit(t)
      PROVE  TxnInv'
  <2> DEFINE f == WithStale(RowsOf(txn[t].op))
  <2>1. \A u \in Callers : f[u] # Idle => f[u].op \in Operations
    BY <1>0, WithStaleLemma DEF OperationsAreReal
  <2>2. f \in [Callers -> TxnRecords]
    BY <1>0, WithStaleLemma
  <2>3. txn' = [f EXCEPT ![t] = Idle]
    BY <1>8 DEF Commit
  <2> HIDE DEF f
  <2> QED BY <1>1, <1>4, <2>1, <2>2, <2>3
<1>9. ASSUME UNCHANGED txn
      PROVE  TxnInv'
  BY <1>0, <1>9 DEF TxnInv, TxnTypeOK, OperationsAreReal
<1> QED BY <1>3, <1>5, <1>6, <1>7, <1>8, <1>9
        DEF TxnNext, Step, allVars, CapturePayment, FailPayment

\* The invariant of open transactions is inductive.
LEMMA TxnInvHolds == TxnSpec => []TxnInv
  BY InitTxnInv, NextTxnInv, PTL DEF TxnSpec

-----------------------------------------------------------------------------
\* A commit is an action of Ledger.
LEMMA CommitIsLedgerStep ==
  ASSUME TxnInv, NEW t \in Callers, Commit(t)
  PROVE  Next
<1> DEFINE op == txn[t].op
<1>1. op \in Operations
  BY DEF TxnInv, OperationsAreReal, Commit, MayWrite, Idle
<1>2. CASE op \in Requests
  <2>1. op.creator \in Creators /\ op.amount \in Amounts
        /\ op.key \in Keys \cup {NoKey} /\ op.kind = "REQUEST"
    BY <1>2 DEF Requests
  <2>2. \E w \in Withdrawals : RequestWithdrawal(w, op.creator, op.amount, op.key)
    BY <2>1 DEF Commit
  <2> QED BY <2>1, <2>2 DEF Next
<1>3. CASE op \in Reviews
  <2>1. op.withdrawal \in Withdrawals /\ op.admin \in Admins
        /\ op.kind \in {"PROCESSING", "COMPLETED", "REJECTED"}
    BY <1>3 DEF Reviews
  <2>2. \/ MoveToProcessing(op.withdrawal, op.admin)
        \/ CompleteWithdrawal(op.withdrawal, op.admin)
        \/ RejectWithdrawal(op.withdrawal, op.admin)
    BY <2>1 DEF Commit
  <2> QED BY <2>1, <2>2 DEF Next
<1>4. CASE op \in Settlements
  <2>1. op.support \in Supports /\ op.kind = "SETTLE"
    BY <1>4 DEF Settlements
  <2>2. SettleSupport(op.support)
    BY <2>1 DEF Commit
  <2> QED BY <2>1, <2>2 DEF Next
<1> QED BY <1>1, <1>2, <1>3, <1>4 DEF Operations

\* So is each step, unless it changes no row.
LEMMA LedgerStep == TxnInv /\ [TxnNext]_allVars => [Next]_vars
<1> SUFFICES ASSUME TxnInv, TxnNext PROVE [Next]_vars
  BY DEF allVars
<1>1. ASSUME NEW t \in Callers, NEW op, Begin(t, op) PROVE [Next]_vars
  BY <1>1 DEF Begin
<1>2. ASSUME NEW t \in Callers, Step(t) PROVE [Next]_vars
  BY <1>2, CommitIsLedgerStep DEF Step, SerializationFailure, AnswerOnly
<1>3. ASSUME NEW s \in Supports, CapturePayment(s) \/ FailPayment(s)
      PROVE  [Next]_vars
  BY <1>3 DEF CapturePayment, FailPayment, Next
<1> QED BY <1>1, <1>2, <1>3 DEF TxnNext

\* What runs side by side is a behaviour of the ledger: each step of a
\* transaction either is an action of Ledger or changes no row.  So all that is
\* proved of Ledger holds beside it.
THEOREM TransactionsImplementLedger == TxnSpec => Spec
<1>1. TxnInit => Init
  BY DEF TxnInit
<1> QED BY <1>1, LedgerStep, TxnInvHolds, PTL DEF TxnSpec, Spec

\* So a transaction that decided on a snapshot others have overtaken neither
\* makes nor loses money, leaves the rows and the balances in step, and finds
\* the money that was locked for the withdrawal it finalizes.
THEOREM SnapshotsKeepTheBooks ==
  TxnSpec => /\ []BalancesMatchRows
             /\ []MoneyIsConserved
             /\ []FundsAreThere
             /\ KeepsLedgerContract
  BY TransactionsImplementLedger, BalancesFollowRows, ConservationHolds,
     FundsAreNeverMissing, LedgerKeepsContract

-----------------------------------------------------------------------------
(* What the actions of Ledger touch. *)

\* A withdrawal request writes only its creator's rows and its own.
LEMMA RequestTouches ==
  ASSUME TypeOK, NEW w \in Withdrawals, NEW c \in Creators, NEW amt, NEW k,
         RequestWithdrawal(w, c, amt, k)
  PROVE  TouchesOnly({<<"wallet", c>>})
<1>1. /\ withdrawal' = [withdrawal EXCEPT ![w] = [status |-> "PENDING",
                           owner |-> c, amount |-> amt, key |-> k]]
      /\ withdrawal[w].status = "NONE"
      /\ wallet' = [wallet EXCEPT ![c] = Move(@, "available", "locked", amt)]
      /\ UNCHANGED <<support, audit>>
  BY DEF RequestWithdrawal
<1>2. /\ DOMAIN withdrawal = Withdrawals
      /\ DOMAIN wallet = Creators
  BY DEF TypeOK, WithdrawalTypeOK, MoneyTypeOK
<1>3. \A d \in Creators : <<"wallet", d>> \notin {<<"wallet", c>>} => d # c
  OBVIOUS
<1> QED BY <1>1, <1>2, <1>3 DEF TouchesOnly

\* A review writes only the withdrawal and its creator's rows.
LEMMA ReviewTouches ==
  ASSUME TypeOK, NEW w \in Withdrawals, NEW a,
         NEW STATE wrows,
         \/ MoveToProcessing(w, a) /\ wrows = {<<"withdrawal", w>>}
         \/ /\ CompleteWithdrawal(w, a) \/ RejectWithdrawal(w, a)
            /\ wrows = {<<"withdrawal", w>>, <<"wallet", withdrawal[w].owner>>}
  PROVE  TouchesOnly(wrows)
<1>1. /\ DOMAIN withdrawal = Withdrawals
      /\ DOMAIN wallet = Creators
      /\ DOMAIN audit = Withdrawals
      /\ \A v \in Withdrawals : withdrawal[v] \in
            [status : WithdrawalStatus \cup {"NONE"}, owner : Creators \cup {NoOne},
             amount : Nat, key : Keys \cup {NoKey}]
  BY DEF TypeOK, WithdrawalTypeOK, MoneyTypeOK
<1>2. \E st : withdrawal' = [withdrawal EXCEPT ![w].status = st]
  BY DEF MoveToProcessing, CompleteWithdrawal, RejectWithdrawal
<1>3. \A v \in Withdrawals : /\ withdrawal'[v].owner = withdrawal[v].owner
                             /\ withdrawal'[v].key = withdrawal[v].key
                             /\ v # w => withdrawal'[v] = withdrawal[v]
  BY <1>1, <1>2
<1>4. /\ support' = support
      /\ \A v \in Withdrawals : v # w => audit'[v] = audit[v]
  BY <1>1 DEF MoveToProcessing, CompleteWithdrawal, RejectWithdrawal, AppendAudit
<1>5. \A c \in Creators : <<"wallet", c>> \notin wrows => wallet'[c] = wallet[c]
  <2>1. CASE MoveToProcessing(w, a)
    BY <2>1 DEF MoveToProcessing, moneyVars
  <2>2. CASE /\ CompleteWithdrawal(w, a) \/ RejectWithdrawal(w, a)
             /\ wrows = {<<"withdrawal", w>>, <<"wallet", withdrawal[w].owner>>}
    BY <1>1, <2>2 DEF CompleteWithdrawal, RejectWithdrawal
  <2> QED BY <2>1, <2>2
<1>6. \A v \in Withdrawals : <<"withdrawal", v>> \notin wrows => v # w
  OBVIOUS
<1> QED BY <1>3, <1>4, <1>5, <1>6 DEF TouchesOnly

\* A completion or a settlement writes only the support's rows and its creator's.
LEMMA SupportTouches ==
  ASSUME TypeOK, NEW s \in Supports,
         CompletePayment(s) \/ SettleSupport(s)
  PROVE  TouchesOnly({<<"support", s>>, <<"wallet", CreatorOf[s]>>})
<1>1. /\ DOMAIN wallet = Creators /\ DOMAIN support = Supports
  BY DEF TypeOK, SupportTypeOK, MoneyTypeOK
<1>2. /\ UNCHANGED <<withdrawal, audit>>
      /\ \A c \in Creators : c # CreatorOf[s] => wallet'[c] = wallet[c]
      /\ \A r \in Supports : r # s => support'[r] = support[r]
  BY <1>1 DEF CompletePayment, SettleSupport
<1> QED BY <1>2 DEF TouchesOnly

\* A failure writes only the support.
LEMMA FailureTouches ==
  ASSUME TypeOK, NEW s \in Supports, MarkPaymentFailed(s)
  PROVE  TouchesOnly({<<"support", s>>})
<1>1. DOMAIN support = Supports
  BY DEF TypeOK, SupportTypeOK
<1>2. /\ UNCHANGED <<withdrawal, audit, wallet>>
      /\ \A r \in Supports : r # s => support'[r] = support[r]
  BY <1>1 DEF MarkPaymentFailed, moneyVars
<1> QED BY <1>2 DEF TouchesOnly

\* So a commit touches the rows of its operation.
LEMMA CommitTouches ==
  ASSUME TypeOK, TxnInv, NEW t \in Callers, Commit(t)
  PROVE  TouchesOnly(RowsOf(txn[t].op))
<1> DEFINE op == txn[t].op
<1>1. op \in Operations
  BY DEF TxnInv, OperationsAreReal, Commit, MayWrite, Idle
<1>2. CASE op \in Requests
  <2>1. op.creator \in Creators /\ op.kind = "REQUEST"
    BY <1>2 DEF Requests
  <2>2. RowsOf(op) = {<<"wallet", op.creator>>}
    BY <2>1 DEF RowsOf
  <2>3. PICK w \in Withdrawals :
               RequestWithdrawal(w, op.creator, op.amount, op.key)
    BY <2>1 DEF Commit
  <2> QED BY <2>1, <2>2, <2>3, RequestTouches
<1>3. CASE op \in Reviews
  <2>1. op.withdrawal \in Withdrawals
        /\ op.kind \in {"PROCESSING", "COMPLETED", "REJECTED"}
    BY <1>3 DEF Reviews
  <2>2. CASE op.kind = "PROCESSING"
    <3>1. RowsOf(op) = {<<"withdrawal", op.withdrawal>>}
      BY <2>2 DEF RowsOf
    <3>2. MoveToProcessing(op.withdrawal, op.admin)
      BY <2>2 DEF Commit
    <3> QED BY <2>1, <3>1, <3>2, ReviewTouches
  <2>3. CASE op.kind \in {"COMPLETED", "REJECTED"}
    <3>1. RowsOf(op) = {<<"withdrawal", op.withdrawal>>,
                        <<"wallet", withdrawal[op.withdrawal].owner>>}
      BY <2>3 DEF RowsOf
    <3>2. \/ CompleteWithdrawal(op.withdrawal, op.admin)
          \/ RejectWithdrawal(op.withdrawal, op.admin)
      BY <2>3 DEF Commit
    <3> QED BY <2>1, <3>1, <3>2, ReviewTouches
  <2> QED BY <2>1, <2>2, <2>3
<1>4. CASE op \in Settlements
  <2>1. op.support \in Supports /\ op.kind = "SETTLE"
    BY <1>4 DEF Settlements
  <2>2. RowsOf(op) = {<<"support", op.support>>, <<"wallet", CreatorOf[op.support]>>}
    BY <2>1 DEF RowsOf
  <2>3. SettleSupport(op.support)
    BY <2>1 DEF Commit
  <2> QED BY <2>1, <2>2, <2>3, SupportTouches
<1> QED BY <1>1, <1>2, <1>3, <1>4 DEF Operations

-----------------------------------------------------------------------------
(* What a decision depends on. *)

\* An operation writes if its checks pass and its key is not bound.
LEMMA DecideWrite ==
  ASSUME NEW op
  PROVE  Decide(op) = "write" <=>
           /\ Passes(op)
           /\ op.kind = "REQUEST" => BoundTo(op) = {}
  BY DEF Decide

\* Steps that change no row change no decision.
LEMMA SameDecision ==
  ASSUME NEW op, UNCHANGED vars
  PROVE  Decide(op)' = Decide(op)
<1>1. BoundTo(op)' = BoundTo(op)
  BY DEF vars, BoundTo
<1>2. Passes(op)' = Passes(op)
  BY DEF vars, Passes, MayMove, MakerChecker
<1>3. \A w \in Withdrawals : withdrawal'[w] = withdrawal[w]
  BY DEF vars
<1> QED BY <1>1, <1>2, <1>3 DEF Decide, vars

\* An operation that would write still would after a step that touches none of
\* the rows it is going to update.
LEMMA Protected ==
  ASSUME TypeOK, NEW op \in Operations, Decide(op) = "write",
         NEW STATE rows, TouchesOnly(rows), RowsOf(op) \cap rows = {}
  PROVE  Decide(op)' = "write"
<1>0. /\ WithdrawalTypeOK
      /\ CreatorOf \in [Supports -> Creators]
      /\ Passes(op)
  BY DecideWrite, LedgerAssumption DEF TypeOK
<1>1. CASE op \in Requests
  <2>1. op.creator \in Creators /\ op.kind = "REQUEST"
    BY <1>1 DEF Requests
  <2>2. <<"wallet", op.creator>> \notin rows
    BY <2>1 DEF RowsOf
  <2>3. BoundTo(op)' = {}
    <3>1. BoundTo(op) = {}
      BY <2>1, DecideWrite
    <3> QED BY <2>1, <2>2, <3>1 DEF BoundTo, TouchesOnly
  <2>4. Passes(op)'
    BY <1>0, <2>1, <2>2 DEF Passes, TouchesOnly
  <2> QED BY <2>1, <2>3, <2>4 DEF Decide
<1>2. CASE op \in Reviews
  <2>1. op.withdrawal \in Withdrawals
        /\ op.kind \in {"PROCESSING", "COMPLETED", "REJECTED"}
    BY <1>2 DEF Reviews
  <2>2. /\ <<"withdrawal", op.withdrawal>> \notin rows
        /\ MayMove(op.withdrawal, op.kind)
    BY <1>0, <2>1 DEF RowsOf, Passes
  <2>3. /\ withdrawal'[op.withdrawal] = withdrawal[op.withdrawal]
        /\ audit'[op.withdrawal] = audit[op.withdrawal]
    BY <2>1, <2>2 DEF TouchesOnly, MayMove
  <2>4. Passes(op)'
    <3>1. CASE op.kind = "PROCESSING"
      BY <2>2, <2>3, <3>1 DEF Passes, MayMove
    <3>2. CASE op.kind \in {"COMPLETED", "REJECTED"}
      <4> DEFINE c == withdrawal[op.withdrawal].owner
      <4>1. c \in Creators /\ <<"wallet", c>> \notin rows
        BY <1>0, <2>1, <2>2, <3>2 DEF WithdrawalTypeOK, MayMove, RowsOf
      <4>2. wallet'[c] = wallet[c]
        BY <4>1 DEF TouchesOnly
      <4>3. /\ MakerChecker(op.withdrawal, op.admin)
            /\ wallet[c]["locked"] >= withdrawal[op.withdrawal].amount
        BY <1>0, <3>2 DEF Passes
      <4> QED BY <2>2, <2>3, <3>2, <4>2, <4>3 DEF Passes, MayMove, MakerChecker
    <3> QED BY <2>1, <3>1, <3>2
  <2> QED BY <2>1, <2>4 DEF Decide
<1>3. CASE op \in Settlements
  <2>1. op.support \in Supports /\ op.kind = "SETTLE"
    BY <1>3 DEF Settlements
  <2>2. /\ <<"support", op.support>> \notin rows
        /\ <<"wallet", CreatorOf[op.support]>> \notin rows
    BY <2>1 DEF RowsOf
  <2>3. /\ support'[op.support] = support[op.support]
        /\ wallet'[CreatorOf[op.support]] = wallet[CreatorOf[op.support]]
    BY <1>0, <2>1, <2>2 DEF TouchesOnly
  <2>4. Passes(op)'
    BY <1>0, <2>1, <2>3 DEF Passes
  <2> QED BY <2>1, <2>4 DEF Decide
<1> QED BY <1>1, <1>2, <1>3 DEF Operations

\* The other transactions, after one has updated rows and the rest were told.
LEMMA OthersHold ==
  ASSUME TypeOK, TxnInv, DecisionsHold, NEW STATE rows, TouchesOnly(rows),
         NEW u \in Callers, txn'[u] = WithStale(rows)[u], MayWrite(u)'
  PROVE  Decide(txn[u].op)' = "write"
<1>0. TxnTypeOK
  BY DEF TxnInv
<1>1. /\ txn'[u].op = txn[u].op
      /\ txn[u].decision = "write"
      /\ txn[u].stale = FALSE
      /\ RowsOf(txn[u].op) \cap rows = {}
  <2>1. WithStale(rows)[u] \in TxnRecords
    BY <1>0, WithStaleLemma
  <2>2. WithStale(rows)[u].stale = FALSE
    BY <2>1 DEF MayWrite, TxnRecords
  <2> QED BY <1>0, <2>2, WithStaleLemma DEF MayWrite
<1>2. txn[u].op \in Operations
  BY <1>1 DEF TxnInv, OperationsAreReal, Idle
<1>3. PICK op \in Operations : op = txn[u].op
  BY <1>2
<1>4. Decide(op) = "write" /\ RowsOf(op) \cap rows = {}
  BY <1>1, <1>3 DEF DecisionsHold, MayWrite
<1>5. Decide(op)' = "write"
  BY <1>4, Protected
<1> QED BY <1>1, <1>3, <1>5

\* The inductive step of DecisionsHold.
LEMMA NextDecisions ==
  ASSUME TypeOK, TxnInv, DecisionsHold, [TxnNext]_allVars
  PROVE  DecisionsHold'
<1> SUFFICES ASSUME NEW u \in Callers, MayWrite(u)'
             PROVE  Decide(txn[u].op)' = "write"
  BY DEF DecisionsHold
<1>0. TxnTypeOK
  BY DEF TxnInv
<1>1. ASSUME UNCHANGED vars, txn'[u] = txn[u]
      PROVE  Decide(txn[u].op)' = "write"
  <2>1. PICK op : op = txn[u].op
    OBVIOUS
  <2>2. Decide(op) = "write"
    BY <1>1, <2>1 DEF DecisionsHold, MayWrite
  <2> QED BY <1>1, <2>1, <2>2, SameDecision
<1>2. ASSUME UNCHANGED vars, NEW n, txn'[u] = Attempt(txn'[u].op, n)
      PROVE  Decide(txn[u].op)' = "write"
  <2>1. PICK op : op = txn'[u].op
    OBVIOUS
  <2>2. Decide(op) = "write"
    BY <1>2, <2>1 DEF Attempt, MayWrite
  <2> QED BY <1>2, <2>1, <2>2, SameDecision
<1>3. ASSUME NEW STATE rows, TouchesOnly(rows), txn'[u] = WithStale(rows)[u]
      PROVE  Decide(txn[u].op)' = "write"
  BY <1>3, OthersHold
<1>4. Idle.decision = "none" /\ \A op, n : Attempt(op, n).op = op
  BY DEF Idle, Attempt
<1>5. txn'[u] # Idle
  BY <1>4 DEF MayWrite
<1>6. ASSUME NEW t \in Callers, NEW op \in Operations, Begin(t, op)
      PROVE  Decide(txn[u].op)' = "write"
  <2>1. CASE u = t
    BY <1>0, <1>2, <1>4, <1>6, <2>1 DEF Begin, TxnTypeOK
  <2>2. CASE u # t
    BY <1>0, <1>1, <1>6, <2>2 DEF Begin, TxnTypeOK
  <2> QED BY <2>1, <2>2
<1>7. ASSUME NEW t \in Callers, SerializationFailure(t)
      PROVE  Decide(txn[u].op)' = "write"
  <2>1. CASE u = t
    BY <1>0, <1>2, <1>4, <1>5, <1>7, <2>1
       DEF SerializationFailure, NextAttempt, TxnTypeOK
  <2>2. CASE u # t
    BY <1>0, <1>1, <1>7, <2>2 DEF SerializationFailure, TxnTypeOK
  <2> QED BY <2>1, <2>2
<1>8. ASSUME NEW t \in Callers, AnswerOnly(t)
      PROVE  Decide(txn[u].op)' = "write"
  <2>1. u # t
    BY <1>0, <1>5, <1>8 DEF AnswerOnly, TxnTypeOK
  <2> QED BY <1>0, <1>1, <1>8, <2>1 DEF AnswerOnly, TxnTypeOK
<1>9. ASSUME NEW t \in Callers, Commit(t)
      PROVE  Decide(txn[u].op)' = "write"
  <2>1. TouchesOnly(RowsOf(txn[t].op))
    BY <1>9, CommitTouches
  <2>2. txn' = [WithStale(RowsOf(txn[t].op)) EXCEPT ![t] = Idle]
    BY <1>9 DEF Commit
  <2>3. WithStale(RowsOf(txn[t].op)) \in [Callers -> TxnRecords]
    BY <1>0, WithStaleLemma
  <2>4. txn'[u] = WithStale(RowsOf(txn[t].op))[u]
    BY <1>5, <2>2, <2>3
  <2> QED BY <1>3, <2>1, <2>4
<1>10. ASSUME NEW s \in Supports, CapturePayment(s)
       PROVE  Decide(txn[u].op)' = "write"
  BY <1>3, <1>10, SupportTouches DEF CapturePayment
<1>11. ASSUME NEW s \in Supports, FailPayment(s)
       PROVE  Decide(txn[u].op)' = "write"
  BY <1>3, <1>11, FailureTouches DEF FailPayment
<1>12. ASSUME UNCHANGED allVars
       PROVE  Decide(txn[u].op)' = "write"
  BY <1>1, <1>12 DEF allVars
<1> QED BY <1>6, <1>7, <1>8, <1>9, <1>10, <1>11, <1>12 DEF TxnNext, Step

\* What a transaction decided on its snapshot it would decide again when it
\* commits (DecisionsHold).
THEOREM DecisionsStand == TxnSpec => []DecisionsHold
<1>1. TxnInit => TypeOK /\ DecisionsHold
  BY InitTypeOK DEF TxnInit, DecisionsHold, MayWrite, Idle
<1>2. TypeOK /\ [Next]_vars => TypeOK'
  BY NextTypeOK
<1> QED BY <1>1, <1>2, LedgerStep, NextDecisions, TxnInvHolds, PTL DEF TxnSpec
=============================================================================
