---------------------------- MODULE LedgerProofs ----------------------------
(* Safety of Ledger for every number of creators, supports, withdrawals and  *)
(* admins, every amount and every interleaving of the transactions.          *)
EXTENDS Ledger, SumTheorems, TLAPS

\* The transition table, read: only a pending withdrawal moves to processing,
\* and only a processing one is finalized.
LEMMA MayMoveMeans ==
  ASSUME WithdrawalTypeOK, NEW w \in Withdrawals
  PROVE  /\ MayMove(w, "PROCESSING") => withdrawal[w].status = "PENDING"
         /\ MayMove(w, "COMPLETED")  => withdrawal[w].status = "PROCESSING"
         /\ MayMove(w, "REJECTED")   => withdrawal[w].status = "PROCESSING"
<1>1. withdrawal[w].status \in WithdrawalStatus \cup {"NONE"}
  BY DEF WithdrawalTypeOK
<1>2. QED
  BY <1>1 DEF MayMove, WithdrawalTransitions, WithdrawalStatus

\* The initial database is well typed.
LEMMA InitTypeOK == Init => TypeOK
<1> SUFFICES ASSUME Init PROVE TypeOK
    OBVIOUS
<1>1. SupportTypeOK
  BY DEF Init, SupportTypeOK, PaymentStatus
<1>2. MoneyTypeOK
  BY DEF Init, MoneyTypeOK, Zero, Buckets, PlatformAccounts
<1>3. WithdrawalTypeOK
  BY DEF Init, WithdrawalTypeOK, NoWithdrawal, WithdrawalStatus
<1>4. QED
  BY <1>1, <1>2, <1>3 DEF Init, TypeOK

\* What Move and Add return: a balance record in which the named buckets have
\* changed by the amount and the others are as before.
LEMMA MoveProperties ==
  ASSUME NEW bal \in [Buckets -> Int], NEW from \in Buckets,
         NEW to \in Buckets, from # to, NEW amt \in Int
  PROVE  /\ Move(bal, from, to, amt) \in [Buckets -> Int]
         /\ Move(bal, from, to, amt)[from] = bal[from] - amt
         /\ Move(bal, from, to, amt)[to] = bal[to] + amt
         /\ \A b \in Buckets \ {from, to} :
              Move(bal, from, to, amt)[b] = bal[b]
  BY DEF Move

\* What Add returns: one bucket has changed by the amount.
LEMMA AddProperties ==
  ASSUME NEW bal \in [Buckets -> Int], NEW bucket \in Buckets, NEW amt \in Int
  PROVE  /\ Add(bal, bucket, amt) \in [Buckets -> Int]
         /\ Add(bal, bucket, amt)[bucket] = bal[bucket] + amt
         /\ \A b \in Buckets \ {bucket} : Add(bal, bucket, amt)[b] = bal[b]
  BY DEF Add

\* The effect of a money-moving transaction on the wallet rows of creator c,
\* where bal and sum are the new balances and the new entry sums.
WalletStep(c, bal, sum) ==
  /\ wallet'   = [wallet EXCEPT ![c] = bal]
  /\ entrySum' = [entrySum EXCEPT ![c] = sum]
  /\ lastTxn'  = [lastTxn EXCEPT ![c] = wallet'[c]]

\* Such a step keeps the wallet rows well typed.
LEMMA WalletStepTypeOK ==
  ASSUME MoneyTypeOK, NEW c \in Creators, NEW bal \in [Buckets -> Int],
         NEW sum \in [Buckets -> Int], WalletStep(c, bal, sum)
  PROVE  /\ wallet'   \in [Creators -> [Buckets -> Int]]
         /\ entrySum' \in [Creators -> [Buckets -> Int]]
         /\ lastTxn'  \in [Creators -> [Buckets -> Int]]
         /\ wallet'[c] = bal
  BY DEF MoneyTypeOK, WalletStep

\* Every transaction keeps the rows well typed.
LEMMA NextTypeOK == TypeOK /\ [Next]_vars => TypeOK'
<1> SUFFICES ASSUME TypeOK, [Next]_vars
             PROVE  TypeOK'
    OBVIOUS
<1>0. /\ SupportTypeOK
      /\ MoneyTypeOK
      /\ batches \subseteq BatchKeys
      /\ earnings \subseteq Supports
      /\ WithdrawalTypeOK
  BY DEF TypeOK
<1>a. ASSUME NEW kind, NEW id, <<kind, id>> \in BatchKeys, PostBatch(kind, id)
      PROVE  batches' \subseteq BatchKeys
  BY <1>0, <1>a DEF PostBatch
<1>b. ASSUME NEW w \in Withdrawals, NEW a \in Admins,
             NEW st \in {"PROCESSING", "COMPLETED", "REJECTED"},
             withdrawal[w].status # "NONE",
             withdrawal' = [withdrawal EXCEPT ![w].status = st],
             AppendAudit(w, a, st)
      PROVE  WithdrawalTypeOK'
  <2> DEFINE row   == [status : WithdrawalStatus \cup {"NONE"},
                       owner  : Creators \cup {NoOne},
                       amount : Nat,
                       key    : Keys \cup {NoKey}]
             entry == [actor : Admins, status : WithdrawalStatus]
  <2>1. /\ withdrawal' \in [Withdrawals -> row]
        /\ \A v \in Withdrawals :
             withdrawal'[v].status # "NONE" => withdrawal'[v].owner \in Creators
    BY <1>0, <1>b DEF WithdrawalTypeOK, WithdrawalStatus
  <2>2. audit' \in [Withdrawals -> Seq(entry)]
    <3>1. [actor |-> a, status |-> st] \in entry
      BY DEF WithdrawalStatus
    <3>2. audit[w] \in Seq(entry)
      BY <1>0 DEF WithdrawalTypeOK
    <3> HIDE DEF entry
    <3>3. Append(audit[w], [actor |-> a, status |-> st]) \in Seq(entry)
      BY <3>1, <3>2
    <3>4. audit \in [Withdrawals -> Seq(entry)]
      BY <1>0 DEF WithdrawalTypeOK, entry
    <3>5. QED
      BY <1>b, <3>3, <3>4 DEF AppendAudit
  <2>3. QED
    BY <2>1, <2>2 DEF WithdrawalTypeOK
<1>1. ASSUME NEW s \in Supports, CompletePayment(s)
      PROVE  TypeOK'
  <2> DEFINE c   == CreatorOf[s]
             bal == Add(wallet[c], "pending", Net[s])
             sum == Add(entrySum[c], "pending", Net[s])
  <2>1. /\ c \in Creators
        /\ Net[s] \in Int
        /\ Gross(s) \in Int
        /\ Fee[s] \in Int
    BY LedgerAssumption DEF Gross
  <2>2. bal \in [Buckets -> Int] /\ sum \in [Buckets -> Int]
    BY <1>0, <2>1, AddProperties DEF MoneyTypeOK, Buckets
  <2>3. WalletStep(c, bal, sum)
    BY <1>1 DEF CompletePayment, RecordTransaction, WalletStep
  <2>4. MoneyTypeOK'
    <3>1. totalEarned' \in [Creators -> Int]
      BY <1>0, <1>1, <2>1 DEF CompletePayment, MoneyTypeOK
    <3>2. platform' \in [PlatformAccounts -> Int]
      BY <1>0, <1>1, <2>1 DEF CompletePayment, MoneyTypeOK, PlatformAccounts
    <3> HIDE DEF c, bal, sum
    <3>3. QED
      BY <1>0, <2>1, <2>2, <2>3, <3>1, <3>2, WalletStepTypeOK DEF MoneyTypeOK
  <2>5. SupportTypeOK'
    BY <1>0, <1>1 DEF CompletePayment, SupportTypeOK, PaymentStatus
  <2>6. batches' \subseteq BatchKeys
    BY <1>1, <1>a DEF CompletePayment, BatchKeys
  <2>e. earnings' \subseteq Supports
    BY <1>0, <1>1 DEF CompletePayment
  <2>7. WithdrawalTypeOK'
    BY <1>0, <1>1 DEF CompletePayment, WithdrawalTypeOK
  <2>8. QED
    BY <2>4, <2>5, <2>6, <2>7, <2>e DEF TypeOK
<1>2. ASSUME NEW s \in Supports, MarkPaymentFailed(s)
      PROVE  TypeOK'
  BY <1>0, <1>2
     DEF MarkPaymentFailed, moneyVars, PaymentStatus, TypeOK, SupportTypeOK,
         MoneyTypeOK, BatchKeys, WithdrawalTypeOK
<1>3. ASSUME NEW s \in Supports, SettleSupport(s)
      PROVE  TypeOK'
  <2> DEFINE c   == CreatorOf[s]
             bal == Move(wallet[c], "pending", "available", Net[s])
             sum == Move(entrySum[c], "pending", "available", Net[s])
  <2>1. c \in Creators /\ Net[s] \in Int
    BY LedgerAssumption
  <2>2. bal \in [Buckets -> Int] /\ sum \in [Buckets -> Int]
    BY <1>0, <2>1, MoveProperties DEF MoneyTypeOK, Buckets
  <2>3. WalletStep(c, bal, sum)
    BY <1>3 DEF SettleSupport, RecordTransaction, WalletStep
  <2>4. MoneyTypeOK'
    <3> HIDE DEF c, bal, sum
    <3>1. QED
      BY <1>0, <1>3, <2>1, <2>2, <2>3, WalletStepTypeOK
         DEF SettleSupport, MoneyTypeOK
  <2>5. SupportTypeOK'
    BY <1>0, <1>3 DEF SettleSupport, SupportTypeOK, PaymentStatus
  <2>6. batches' \subseteq BatchKeys
    BY <1>3, <1>a DEF SettleSupport, BatchKeys
  <2>e. earnings' \subseteq Supports
    BY <1>0, <1>3 DEF SettleSupport
  <2>7. WithdrawalTypeOK'
    BY <1>0, <1>3 DEF SettleSupport, WithdrawalTypeOK
  <2>8. QED
    BY <2>4, <2>5, <2>6, <2>7, <2>e DEF TypeOK
<1>4. ASSUME NEW w \in Withdrawals, NEW c \in Creators, NEW amt \in Amounts,
             NEW k \in Keys \cup {NoKey}, RequestWithdrawal(w, c, amt, k)
      PROVE  TypeOK'
  <2> DEFINE bal == Move(wallet[c], "available", "locked", amt)
             sum == Move(entrySum[c], "available", "locked", amt)
  <2>1. amt \in Nat
    BY LedgerAssumption
  <2>2. bal \in [Buckets -> Int] /\ sum \in [Buckets -> Int]
    BY <1>0, <2>1, MoveProperties DEF MoneyTypeOK, Buckets
  <2>3. WalletStep(c, bal, sum)
    BY <1>4 DEF RequestWithdrawal, RecordTransaction, WalletStep
  <2>4. MoneyTypeOK'
    <3> HIDE DEF bal, sum
    <3>1. QED
      BY <1>0, <1>4, <2>2, <2>3, WalletStepTypeOK
         DEF RequestWithdrawal, MoneyTypeOK
  <2>5. SupportTypeOK'
    BY <1>0, <1>4 DEF RequestWithdrawal, SupportTypeOK
  <2>6. batches' \subseteq BatchKeys
    BY <1>4, <1>a DEF RequestWithdrawal, BatchKeys
  <2>e. earnings' \subseteq Supports
    BY <1>0, <1>4 DEF RequestWithdrawal
  <2>7. WithdrawalTypeOK'
    BY <1>0, <1>4, <2>1
       DEF RequestWithdrawal, WithdrawalTypeOK, WithdrawalStatus
  <2>8. QED
    BY <2>4, <2>5, <2>6, <2>7, <2>e DEF TypeOK
<1>5. ASSUME NEW w \in Withdrawals, NEW a \in Admins, MoveToProcessing(w, a)
      PROVE  TypeOK'
  <2>1. WithdrawalTypeOK'
    BY <1>5, <1>b, MayMoveMeans, <1>0 DEF MoveToProcessing
  <2>2. QED
    BY <1>0, <1>5, <2>1
       DEF MoveToProcessing, moneyVars, TypeOK, SupportTypeOK, MoneyTypeOK,
           BatchKeys
<1>6. ASSUME NEW w \in Withdrawals, NEW a \in Admins, CompleteWithdrawal(w, a)
      PROVE  TypeOK'
  <2> DEFINE c   == withdrawal[w].owner
             amt == withdrawal[w].amount
             bal == Add(wallet[c], "locked", -amt)
             sum == Add(entrySum[c], "locked", -amt)
  <2>1. c \in Creators /\ amt \in Int /\ -amt \in Int
    BY <1>0, <1>6 DEF CompleteWithdrawal, MayMove, WithdrawalTypeOK
  <2>2. bal \in [Buckets -> Int] /\ sum \in [Buckets -> Int]
    BY <1>0, <2>1, AddProperties DEF MoneyTypeOK, Buckets
  <2>3. WalletStep(c, bal, sum)
    BY <1>6 DEF CompleteWithdrawal, RecordTransaction, WalletStep
  <2>4. MoneyTypeOK'
    <3>1. platform' \in [PlatformAccounts -> Int]
      BY <1>0, <1>6, <2>1
         DEF CompleteWithdrawal, MoneyTypeOK, PlatformAccounts
    <3> HIDE DEF c, bal, sum
    <3>2. QED
      BY <1>0, <1>6, <2>1, <2>2, <2>3, <3>1, WalletStepTypeOK
         DEF CompleteWithdrawal, MoneyTypeOK
  <2>5. SupportTypeOK'
    BY <1>0, <1>6 DEF CompleteWithdrawal, SupportTypeOK
  <2>6. batches' \subseteq BatchKeys
    BY <1>6, <1>a DEF CompleteWithdrawal, BatchKeys
  <2>e. earnings' \subseteq Supports
    BY <1>0, <1>6 DEF CompleteWithdrawal
  <2>7. WithdrawalTypeOK'
    BY <1>6, <1>b, MayMoveMeans, <1>0 DEF CompleteWithdrawal
  <2>8. QED
    BY <2>4, <2>5, <2>6, <2>7, <2>e DEF TypeOK
<1>7. ASSUME NEW w \in Withdrawals, NEW a \in Admins, RejectWithdrawal(w, a)
      PROVE  TypeOK'
  <2> DEFINE c   == withdrawal[w].owner
             amt == withdrawal[w].amount
             bal == Move(wallet[c], "locked", "available", amt)
             sum == Move(entrySum[c], "locked", "available", amt)
  <2>1. c \in Creators /\ amt \in Int
    BY <1>0, <1>7 DEF RejectWithdrawal, MayMove, WithdrawalTypeOK
  <2>2. bal \in [Buckets -> Int] /\ sum \in [Buckets -> Int]
    BY <1>0, <2>1, MoveProperties DEF MoneyTypeOK, Buckets
  <2>3. WalletStep(c, bal, sum)
    BY <1>7 DEF RejectWithdrawal, RecordTransaction, WalletStep
  <2>4. MoneyTypeOK'
    <3> HIDE DEF c, bal, sum
    <3>1. QED
      BY <1>0, <1>7, <2>1, <2>2, <2>3, WalletStepTypeOK
         DEF RejectWithdrawal, MoneyTypeOK
  <2>5. SupportTypeOK'
    BY <1>0, <1>7 DEF RejectWithdrawal, SupportTypeOK
  <2>6. batches' \subseteq BatchKeys
    BY <1>7, <1>a DEF RejectWithdrawal, BatchKeys
  <2>e. earnings' \subseteq Supports
    BY <1>0, <1>7 DEF RejectWithdrawal
  <2>7. WithdrawalTypeOK'
    BY <1>7, <1>b, MayMoveMeans, <1>0 DEF RejectWithdrawal
  <2>8. QED
    BY <2>4, <2>5, <2>6, <2>7, <2>e DEF TypeOK
<1>8. CASE UNCHANGED vars
  BY <1>0, <1>8
     DEF vars, TypeOK, SupportTypeOK, MoneyTypeOK, BatchKeys, WithdrawalTypeOK
<1>9. QED
  BY <1>1, <1>2, <1>3, <1>4, <1>5, <1>6, <1>7, <1>8 DEF Next

\* The rows stay well typed.
THEOREM TypeCorrect == Spec => []TypeOK
  BY InitTypeOK, NextTypeOK, PTL DEF Spec

-----------------------------------------------------------------------------

\* A step that gives a wallet non-negative balances and its entries the same
\* sums keeps the three records of money in agreement.
LEMMA WalletStepReconciled ==
  ASSUME MoneyTypeOK, Reconciled, NEW c \in Creators,
         NEW bal \in [Buckets -> Int], \A b \in Buckets : bal[b] >= 0,
         WalletStep(c, bal, bal)
  PROVE  Reconciled'
  BY DEF MoneyTypeOK, Reconciled, WalletStep

\* A new wallet agrees with its empty history and its empty entries.
LEMMA InitReconciled == Init => Reconciled
  BY DEF Init, Reconciled, Zero

\* Every transaction keeps the three records in agreement.
LEMMA NextReconciled == TypeOK /\ Reconciled /\ [Next]_vars => Reconciled'
<1> SUFFICES ASSUME TypeOK, Reconciled, [Next]_vars
             PROVE  Reconciled'
    OBVIOUS
<1>0. MoneyTypeOK /\ WithdrawalTypeOK
  BY DEF TypeOK
<1>m. ASSUME NEW c \in Creators, NEW from \in Buckets, NEW to \in Buckets,
             from # to, NEW amt \in Nat, wallet[c][from] >= amt,
             WalletStep(c, Move(wallet[c], from, to, amt),
                           Move(entrySum[c], from, to, amt))
      PROVE  Reconciled'
  <2> DEFINE bal == Move(wallet[c], from, to, amt)
  <2>0. from # to
    BY <1>m
  <2>1. bal = Move(entrySum[c], from, to, amt)
    BY <1>m DEF Reconciled
  <2>2. wallet[c] \in [Buckets -> Int] /\ amt \in Int
    BY <1>0 DEF MoneyTypeOK
  <2>3. bal \in [Buckets -> Int]
    BY <1>m, <2>2, MoveProperties
  <2>4. \A b \in Buckets : bal[b] >= 0
    <3>1. \A b \in Buckets : wallet[c][b] >= 0
      BY DEF Reconciled
    <3>2. /\ bal[from] = wallet[c][from] - amt
          /\ bal[to] = wallet[c][to] + amt
          /\ \A b \in Buckets \ {from, to} : bal[b] = wallet[c][b]
      BY <2>0, <2>2 DEF Move
    <3>3. wallet[c][from] \in Int /\ wallet[c][to] \in Int
      BY <2>2
    <3> HIDE DEF bal
    <3>4. QED
      BY <1>m, <3>1, <3>2, <3>3
  <2>5. WalletStep(c, bal, bal)
    BY <1>m, <2>1
  <2> HIDE DEF bal
  <2>6. QED
    BY <1>0, <2>3, <2>4, <2>5, WalletStepReconciled
<1>a. ASSUME NEW c \in Creators, NEW bucket \in Buckets, NEW amt \in Int,
             wallet[c][bucket] + amt >= 0,
             WalletStep(c, Add(wallet[c], bucket, amt),
                           Add(entrySum[c], bucket, amt))
      PROVE  Reconciled'
  <2> DEFINE bal == Add(wallet[c], bucket, amt)
  <2>1. bal = Add(entrySum[c], bucket, amt)
    BY <1>a DEF Reconciled
  <2>2. wallet[c] \in [Buckets -> Int]
    BY <1>0 DEF MoneyTypeOK
  <2>3. bal \in [Buckets -> Int]
    BY <1>a, <2>2, AddProperties
  <2>4. \A b \in Buckets : bal[b] >= 0
    <3>1. \A b \in Buckets : wallet[c][b] >= 0
      BY DEF Reconciled
    <3>2. /\ bal[bucket] = wallet[c][bucket] + amt
          /\ \A b \in Buckets \ {bucket} : bal[b] = wallet[c][b]
      BY <1>a, <2>2, AddProperties
    <3> HIDE DEF bal
    <3>3. QED
      BY <1>a, <3>1, <3>2
  <2>5. WalletStep(c, bal, bal)
    BY <1>a, <2>1
  <2> HIDE DEF bal
  <2>6. QED
    BY <1>0, <2>3, <2>4, <2>5, WalletStepReconciled
<1>1. ASSUME NEW s \in Supports, CompletePayment(s)
      PROVE  Reconciled'
  <2>1. CreatorOf[s] \in Creators /\ Net[s] \in Nat
    BY LedgerAssumption
  <2>2. wallet[CreatorOf[s]]["pending"] + Net[s] >= 0
    BY <1>0, <2>1 DEF MoneyTypeOK, Reconciled, Buckets
  <2>3. WalletStep(CreatorOf[s], Add(wallet[CreatorOf[s]], "pending", Net[s]),
                                 Add(entrySum[CreatorOf[s]], "pending", Net[s]))
    BY <1>1 DEF CompletePayment, RecordTransaction, WalletStep
  <2>4. "pending" \in Buckets /\ Net[s] \in Int
    BY <2>1 DEF Buckets
  <2>5. QED
    BY <1>a, <2>1, <2>2, <2>3, <2>4
<1>2. ASSUME NEW s \in Supports, MarkPaymentFailed(s)
      PROVE  Reconciled'
  BY <1>2 DEF MarkPaymentFailed, moneyVars, Reconciled
<1>3. ASSUME NEW s \in Supports, SettleSupport(s)
      PROVE  Reconciled'
  <2>1. CreatorOf[s] \in Creators /\ Net[s] \in Nat
    BY LedgerAssumption
  <2>2. QED
    BY <1>3, <1>m, <2>1
       DEF SettleSupport, RecordTransaction, WalletStep, Buckets
<1>4. ASSUME NEW w \in Withdrawals, NEW c \in Creators, NEW amt \in Amounts,
             NEW k \in Keys \cup {NoKey}, RequestWithdrawal(w, c, amt, k)
      PROVE  Reconciled'
  <2>1. amt \in Nat
    BY LedgerAssumption
  <2>2. QED
    BY <1>4, <1>m, <2>1
       DEF RequestWithdrawal, RecordTransaction, WalletStep, Buckets
<1>5. ASSUME NEW w \in Withdrawals, NEW a \in Admins, MoveToProcessing(w, a)
      PROVE  Reconciled'
  BY <1>5 DEF MoveToProcessing, moneyVars, Reconciled
<1>6. ASSUME NEW w \in Withdrawals, NEW a \in Admins, CompleteWithdrawal(w, a)
      PROVE  Reconciled'
  <2> DEFINE c   == withdrawal[w].owner
             amt == withdrawal[w].amount
  <2>1. c \in Creators /\ amt \in Nat /\ -amt \in Int
    BY <1>0, <1>6 DEF CompleteWithdrawal, MayMove, WithdrawalTypeOK
  <2>2. wallet[c]["locked"] + (-amt) >= 0
    BY <1>0, <1>6, <2>1 DEF CompleteWithdrawal, MoneyTypeOK, Buckets
  <2>3. WalletStep(c, Add(wallet[c], "locked", -amt),
                      Add(entrySum[c], "locked", -amt))
    BY <1>6 DEF CompleteWithdrawal, RecordTransaction, WalletStep
  <2>4. "locked" \in Buckets
    BY DEF Buckets
  <2> HIDE DEF c, amt
  <2>5. QED
    BY <1>a, <2>1, <2>2, <2>3, <2>4
<1>7. ASSUME NEW w \in Withdrawals, NEW a \in Admins, RejectWithdrawal(w, a)
      PROVE  Reconciled'
  <2> DEFINE c   == withdrawal[w].owner
             amt == withdrawal[w].amount
  <2>1. c \in Creators /\ amt \in Nat
    BY <1>0, <1>7, MayMoveMeans DEF RejectWithdrawal, WithdrawalTypeOK
  <2>2. /\ WalletStep(c, Move(wallet[c], "locked", "available", amt),
                         Move(entrySum[c], "locked", "available", amt))
        /\ wallet[c]["locked"] >= amt
    BY <1>7 DEF RejectWithdrawal, RecordTransaction, WalletStep
  <2>3. "locked" \in Buckets /\ "available" \in Buckets
    BY DEF Buckets
  <2> HIDE DEF c, amt
  <2>4. QED
    BY <1>m, <2>1, <2>2, <2>3
<1>8. CASE UNCHANGED vars
  BY <1>8 DEF vars, Reconciled
<1>9. QED
  BY <1>1, <1>2, <1>3, <1>4, <1>5, <1>6, <1>7, <1>8 DEF Next

\* The wallet row, the newest wallet transaction and the accounting entries
\* agree after every transaction, and no balance is ever negative.
THEOREM LedgerReconciled == Spec => []Reconciled
<1>1. Init => TypeOK /\ Reconciled
  BY InitTypeOK, InitReconciled
<1>2. TypeOK /\ Reconciled /\ [Next]_vars => (TypeOK /\ Reconciled)'
  BY NextTypeOK, NextReconciled
<1>3. QED
  BY <1>1, <1>2, PTL DEF Spec

-----------------------------------------------------------------------------

\* Before any payment and any withdrawal nothing is posted.
LEMMA InitPostings == Init => PostingsMatchRows
  BY DEF Init, PostingsMatchRows, NoWithdrawal

\* Every transaction posts the batch of the row it changes, and no other.
LEMMA NextPostings ==
  TypeOK /\ PostingsMatchRows /\ [Next]_vars => PostingsMatchRows'
<1> SUFFICES ASSUME TypeOK, PostingsMatchRows, [Next]_vars
             PROVE  PostingsMatchRows'
    OBVIOUS
<1>0. SupportTypeOK /\ WithdrawalTypeOK
  BY DEF TypeOK
<1> USE DEF PostingsMatchRows
<1>1. ASSUME NEW s \in Supports, CompletePayment(s)
      PROVE  PostingsMatchRows'
  BY <1>0, <1>1 DEF CompletePayment, PostBatch, SupportTypeOK
<1>2. ASSUME NEW s \in Supports, MarkPaymentFailed(s)
      PROVE  PostingsMatchRows'
  BY <1>0, <1>2 DEF MarkPaymentFailed, moneyVars, SupportTypeOK
<1>3. ASSUME NEW s \in Supports, SettleSupport(s)
      PROVE  PostingsMatchRows'
  BY <1>0, <1>3 DEF SettleSupport, PostBatch, SupportTypeOK
<1>4. ASSUME NEW w \in Withdrawals, NEW c \in Creators, NEW amt \in Amounts,
             NEW k \in Keys \cup {NoKey}, RequestWithdrawal(w, c, amt, k)
      PROVE  PostingsMatchRows'
  BY <1>0, <1>4 DEF RequestWithdrawal, PostBatch, WithdrawalTypeOK
<1>5. ASSUME NEW w \in Withdrawals, NEW a \in Admins, MoveToProcessing(w, a)
      PROVE  PostingsMatchRows'
  BY <1>0, <1>5, MayMoveMeans DEF MoveToProcessing, moneyVars, WithdrawalTypeOK
<1>6. ASSUME NEW w \in Withdrawals, NEW a \in Admins, CompleteWithdrawal(w, a)
      PROVE  PostingsMatchRows'
  BY <1>0, <1>6, MayMoveMeans DEF CompleteWithdrawal, PostBatch, WithdrawalTypeOK
<1>7. ASSUME NEW w \in Withdrawals, NEW a \in Admins, RejectWithdrawal(w, a)
      PROVE  PostingsMatchRows'
  BY <1>0, <1>7, MayMoveMeans DEF RejectWithdrawal, PostBatch, WithdrawalTypeOK
<1>8. CASE UNCHANGED vars
  BY <1>8 DEF vars
<1>9. QED
  BY <1>1, <1>2, <1>3, <1>4, <1>5, <1>6, <1>7, <1>8 DEF Next

\* Every posting is made exactly once, when the row it belongs to says so.
THEOREM PostingsOnce == Spec => []PostingsMatchRows
<1>1. Init => TypeOK /\ PostingsMatchRows
  BY InitTypeOK, InitPostings
<1>2. TypeOK /\ PostingsMatchRows /\ [Next]_vars
        => (TypeOK /\ PostingsMatchRows)'
  BY NextTypeOK, NextPostings
<1>3. QED
  BY <1>1, <1>2, PTL DEF Spec

-----------------------------------------------------------------------------

\* The clause of TwoAdminsPerPayout for one withdrawal.
PolicyHeld(w) ==
  LET st == withdrawal[w].status
      log == audit[w]
  IN
  /\ st \in {"NONE", "PENDING"} => log = <<>>
  /\ st = "PROCESSING" => /\ Len(log) = 1
                          /\ log[1].status = "PROCESSING"
  /\ st \in {"COMPLETED", "REJECTED"} =>
       /\ Len(log) = 2
       /\ log[1].status = "PROCESSING"
       /\ log[2].status = st
       /\ log[1].actor # log[2].actor

\* The policy is the conjunction of its clauses.
LEMMA PolicyByWithdrawal ==
  TwoAdminsPerPayout <=> \A w \in Withdrawals : PolicyHeld(w)
  BY DEF TwoAdminsPerPayout, PolicyHeld

\* There is no withdrawal initially.
LEMMA InitPolicy == Init => TwoAdminsPerPayout
  BY DEF Init, TwoAdminsPerPayout, NoWithdrawal

\* A row and an audit log that do not change keep their clause.
LEMMA PolicyFrame ==
  ASSUME NEW w \in Withdrawals, PolicyHeld(w),
         withdrawal'[w] = withdrawal[w], audit'[w] = audit[w]
  PROVE  PolicyHeld(w)'
  BY DEF PolicyHeld

\* Finalizing a processing withdrawal as allowed by the maker/checker policy.
LEMMA PolicyFinalize ==
  ASSUME WithdrawalTypeOK, NEW w \in Withdrawals, NEW a \in Admins,
         PolicyHeld(w), withdrawal[w].status = "PROCESSING",
         MakerChecker(w, a), NEW st \in {"COMPLETED", "REJECTED"},
         withdrawal' = [withdrawal EXCEPT ![w].status = st],
         AppendAudit(w, a, st)
  PROVE  PolicyHeld(w)'
<1> DEFINE entry == [actor : Admins, status : WithdrawalStatus]
           new   == [actor |-> a, status |-> st]
<1>1. withdrawal'[w].status = st
  BY DEF WithdrawalTypeOK
<1>2. audit[w] \in Seq(entry) /\ new \in entry
  BY DEF WithdrawalTypeOK, WithdrawalStatus
<1>3. audit'[w] = Append(audit[w], new)
  BY DEF WithdrawalTypeOK, AppendAudit
<1>4. /\ Len(audit[w]) = 1
      /\ audit[w][1].status = "PROCESSING"
      /\ audit[w][1].actor # a
  BY DEF PolicyHeld, MakerChecker
<1> HIDE DEF entry
<1>5. /\ Len(audit'[w]) = 2
      /\ audit'[w][1] = audit[w][1]
      /\ audit'[w][2] = new
  BY <1>2, <1>3, <1>4
<1>6. QED
  BY <1>1, <1>4, <1>5 DEF PolicyHeld

\* Every transaction keeps the maker/checker policy.
LEMMA NextPolicy ==
  TypeOK /\ TwoAdminsPerPayout /\ [Next]_vars => TwoAdminsPerPayout'
<1> SUFFICES ASSUME TypeOK, TwoAdminsPerPayout, [Next]_vars,
                    NEW v \in Withdrawals
             PROVE  PolicyHeld(v)'
    BY DEF TwoAdminsPerPayout, PolicyHeld
<1>0. WithdrawalTypeOK /\ PolicyHeld(v)
  BY PolicyByWithdrawal DEF TypeOK
<1>1. ASSUME NEW s \in Supports,
             CompletePayment(s) \/ MarkPaymentFailed(s) \/ SettleSupport(s)
      PROVE  PolicyHeld(v)'
  BY <1>0, <1>1, PolicyFrame
     DEF CompletePayment, MarkPaymentFailed, SettleSupport
<1>4. ASSUME NEW w \in Withdrawals, NEW c \in Creators, NEW amt \in Amounts,
             NEW k \in Keys \cup {NoKey}, RequestWithdrawal(w, c, amt, k)
      PROVE  PolicyHeld(v)'
  <2>1. CASE v = w
    BY <1>0, <1>4, <2>1 DEF RequestWithdrawal, PolicyHeld, WithdrawalTypeOK
  <2>2. CASE v # w
    BY <1>0, <1>4, <2>2, PolicyFrame DEF RequestWithdrawal, WithdrawalTypeOK
  <2>3. QED
    BY <2>1, <2>2
<1>5. ASSUME NEW w \in Withdrawals, NEW a \in Admins, MoveToProcessing(w, a)
      PROVE  PolicyHeld(v)'
  <2>1. CASE v = w
    <3>1. /\ withdrawal'[v].status = "PROCESSING"
          /\ audit[v] = <<>>
          /\ audit'[v] = Append(audit[v], [actor |-> a,
                                           status |-> "PROCESSING"])
      BY <1>0, <1>5, <2>1, MayMoveMeans
         DEF MoveToProcessing, AppendAudit, WithdrawalTypeOK, PolicyHeld
    <3>2. QED
      BY <3>1 DEF PolicyHeld
  <2>2. CASE v # w
    BY <1>0, <1>5, <2>2, PolicyFrame
       DEF MoveToProcessing, AppendAudit, WithdrawalTypeOK
  <2>3. QED
    BY <2>1, <2>2
<1>6. ASSUME NEW w \in Withdrawals, NEW a \in Admins,
             CompleteWithdrawal(w, a) \/ RejectWithdrawal(w, a)
      PROVE  PolicyHeld(v)'
  <2>1. PICK st \in {"COMPLETED", "REJECTED"} :
          /\ withdrawal[w].status = "PROCESSING"
          /\ MakerChecker(w, a)
          /\ withdrawal' = [withdrawal EXCEPT ![w].status = st]
          /\ AppendAudit(w, a, st)
    BY <1>6, MayMoveMeans, <1>0 DEF CompleteWithdrawal, RejectWithdrawal
  <2>2. CASE v = w
    BY <1>0, <2>1, <2>2, PolicyFinalize
  <2>3. CASE v # w
    BY <1>0, <2>1, <2>3, PolicyFrame DEF AppendAudit, WithdrawalTypeOK
  <2>4. QED
    BY <2>2, <2>3
<1>8. CASE UNCHANGED vars
  BY <1>0, <1>8, PolicyFrame DEF vars
<1>9. QED
  BY <1>1, <1>4, <1>5, <1>6, <1>8 DEF Next

\* No withdrawal is ever finalized by the admin who took it into processing.
THEOREM MakerCheckerHolds == Spec => []TwoAdminsPerPayout
<1>1. Init => TypeOK /\ TwoAdminsPerPayout
  BY InitTypeOK, InitPolicy
<1>2. TypeOK /\ TwoAdminsPerPayout /\ [Next]_vars
        => (TypeOK /\ TwoAdminsPerPayout)'
  BY NextTypeOK, NextPolicy
<1>3. QED
  BY <1>1, <1>2, PTL DEF Spec

-----------------------------------------------------------------------------

\* There is no withdrawal, hence no key in use, initially.
LEMMA InitOnePerKey == Init => OneWithdrawalPerKey
  BY DEF Init, OneWithdrawalPerKey, NoWithdrawal

\* A new withdrawal takes a key only if no withdrawal of the creator has it,
\* and no other transaction touches a key.
LEMMA NextOnePerKey ==
  TypeOK /\ OneWithdrawalPerKey /\ [Next]_vars => OneWithdrawalPerKey'
<1> SUFFICES ASSUME TypeOK, OneWithdrawalPerKey, [Next]_vars
             PROVE  OneWithdrawalPerKey'
    OBVIOUS
<1>0. WithdrawalTypeOK
  BY DEF TypeOK
<1>1. ASSUME NEW w \in Withdrawals, NEW c \in Creators, NEW amt \in Amounts,
             NEW k \in Keys \cup {NoKey}, RequestWithdrawal(w, c, amt, k)
      PROVE  OneWithdrawalPerKey'
  BY <1>0, <1>1
     DEF RequestWithdrawal, KeyIsFree, OneWithdrawalPerKey, WithdrawalTypeOK
<1>2. ASSUME \A w \in Withdrawals : /\ withdrawal'[w].key = withdrawal[w].key
                                    /\ withdrawal'[w].owner = withdrawal[w].owner
      PROVE  OneWithdrawalPerKey'
  BY <1>2 DEF OneWithdrawalPerKey
<1>3. ASSUME NEW s \in Supports,
             CompletePayment(s) \/ MarkPaymentFailed(s) \/ SettleSupport(s)
      PROVE  OneWithdrawalPerKey'
  BY <1>2, <1>3 DEF CompletePayment, MarkPaymentFailed, SettleSupport
<1>4. ASSUME NEW w \in Withdrawals, NEW a \in Admins,
             \/ MoveToProcessing(w, a)
             \/ CompleteWithdrawal(w, a)
             \/ RejectWithdrawal(w, a)
      PROVE  OneWithdrawalPerKey'
  <2>1. PICK st \in WithdrawalStatus :
          withdrawal' = [withdrawal EXCEPT ![w].status = st]
    BY <1>4
       DEF MoveToProcessing, CompleteWithdrawal, RejectWithdrawal,
           WithdrawalStatus
  <2>2. QED
    BY <1>0, <1>2, <2>1 DEF WithdrawalTypeOK
<1>5. CASE UNCHANGED vars
  BY <1>2, <1>5 DEF vars
<1>6. QED
  BY <1>1, <1>3, <1>4, <1>5 DEF Next

\* An idempotency key never names two withdrawals of the same creator.
THEOREM RetriesAreSafe == Spec => []OneWithdrawalPerKey
<1>1. Init => TypeOK /\ OneWithdrawalPerKey
  BY InitTypeOK, InitOnePerKey
<1>2. TypeOK /\ OneWithdrawalPerKey /\ [Next]_vars
        => (TypeOK /\ OneWithdrawalPerKey)'
  BY NextTypeOK, NextOnePerKey
<1>3. QED
  BY <1>1, <1>2, PTL DEF Spec

-----------------------------------------------------------------------------

\* No transaction touches a finalized withdrawal, its audit log, or the
\* settlement status of a settled support; re-applying a payment would, and is
\* excluded because a settled support has been applied.
LEMMA NextFinal ==
  TypeOK /\ PostingsMatchRows /\ [Next]_vars => [FinalRowsStay]_vars
<1> SUFFICES ASSUME TypeOK, PostingsMatchRows, Next
             PROVE  FinalRowsStay
    OBVIOUS
<1>0. SupportTypeOK /\ WithdrawalTypeOK
  BY DEF TypeOK
<1>1. ASSUME NEW s \in Supports,
             CompletePayment(s) \/ MarkPaymentFailed(s) \/ SettleSupport(s)
      PROVE  FinalRowsStay
  BY <1>0, <1>1
     DEF CompletePayment, MarkPaymentFailed, SettleSupport, FinalRowsStay,
         SupportTypeOK, PostingsMatchRows
<1>2. ASSUME NEW w \in Withdrawals, NEW c \in Creators, NEW amt \in Amounts,
             NEW k \in Keys \cup {NoKey}, RequestWithdrawal(w, c, amt, k)
      PROVE  FinalRowsStay
  BY <1>0, <1>2 DEF RequestWithdrawal, FinalRowsStay, WithdrawalTypeOK
<1>3. ASSUME NEW w \in Withdrawals, NEW a \in Admins,
             \/ MoveToProcessing(w, a)
             \/ CompleteWithdrawal(w, a)
             \/ RejectWithdrawal(w, a)
      PROVE  FinalRowsStay
  BY <1>0, <1>3, MayMoveMeans
     DEF MoveToProcessing, CompleteWithdrawal, RejectWithdrawal, AppendAudit,
         FinalRowsStay, WithdrawalTypeOK
<1>4. QED
  BY <1>1, <1>2, <1>3 DEF Next

\* Finalized withdrawals and settled supports keep their state forever.
THEOREM FinalityHolds == Spec => FinalIsFinal
<1>1. Init => TypeOK /\ PostingsMatchRows
  BY InitTypeOK, InitPostings
<1>2. TypeOK /\ PostingsMatchRows /\ [Next]_vars
        => (TypeOK /\ PostingsMatchRows)'
  BY NextTypeOK, NextPostings
<1>3. QED
  BY <1>1, <1>2, NextFinal, PTL DEF Spec, FinalIsFinal

-----------------------------------------------------------------------------
(* Sums of rows.  A database holds finitely many rows at any time, however   *)
(* many identifiers there are, so they can be added up.                      *)

\* The supports that were captured and the withdrawals that were requested.
Captured  == {s \in Supports : support[s].applied}
Requested == {w \in Withdrawals : withdrawal[w].status # "NONE"}

FiniteRows == IsFiniteSet(Captured) /\ IsFiniteSet(Requested)

\* There is no row of interest initially.
LEMMA InitFinite == Init => FiniteRows
<1> SUFFICES ASSUME Init PROVE FiniteRows
    OBVIOUS
<1>1. Captured = {} /\ Requested = {}
  BY DEF Init, Captured, Requested, NoWithdrawal
<1> QED
  BY <1>1, FS_EmptySet DEF FiniteRows

\* A transaction adds at most one row.
LEMMA NextFinite == TypeOK /\ FiniteRows /\ [Next]_vars => FiniteRows'
<1> SUFFICES ASSUME TypeOK, FiniteRows, [Next]_vars
             PROVE  FiniteRows'
    OBVIOUS
<1>0. SupportTypeOK /\ WithdrawalTypeOK
  BY DEF TypeOK
<1> USE DEF Captured, Requested
<1>1. ASSUME NEW s \in Supports, CompletePayment(s)
      PROVE  FiniteRows'
  <2>1. Captured' = Captured \cup {s} /\ Requested' = Requested
    BY <1>0, <1>1 DEF CompletePayment, SupportTypeOK
  <2> QED
    BY <2>1, FS_AddElement DEF FiniteRows
<1>2. ASSUME NEW s \in Supports, MarkPaymentFailed(s) \/ SettleSupport(s)
      PROVE  FiniteRows'
  <2>1. Captured' = Captured /\ Requested' = Requested
    BY <1>0, <1>2 DEF MarkPaymentFailed, SettleSupport, SupportTypeOK
  <2> QED
    BY <2>1 DEF FiniteRows
<1>3. ASSUME NEW w \in Withdrawals, NEW c \in Creators, NEW amt \in Amounts,
             NEW k \in Keys \cup {NoKey}, RequestWithdrawal(w, c, amt, k)
      PROVE  FiniteRows'
  <2>1. Captured' = Captured /\ Requested' = Requested \cup {w}
    BY <1>0, <1>3 DEF RequestWithdrawal, WithdrawalTypeOK
  <2> QED
    BY <2>1, FS_AddElement DEF FiniteRows
<1>4. ASSUME NEW w \in Withdrawals, NEW a \in Admins,
             \/ MoveToProcessing(w, a)
             \/ CompleteWithdrawal(w, a)
             \/ RejectWithdrawal(w, a)
      PROVE  FiniteRows'
  <2>1. PICK st \in WithdrawalStatus :
          withdrawal' = [withdrawal EXCEPT ![w].status = st]
    BY <1>4
       DEF MoveToProcessing, CompleteWithdrawal, RejectWithdrawal,
           WithdrawalStatus
  <2>2. withdrawal[w].status # "NONE" /\ support' = support
    BY <1>4 DEF MoveToProcessing, CompleteWithdrawal, RejectWithdrawal, MayMove
  <2>3. Captured' = Captured /\ Requested' = Requested
    BY <1>0, <2>1, <2>2 DEF WithdrawalTypeOK, WithdrawalStatus
  <2> QED
    BY <2>3 DEF FiniteRows
<1>5. CASE UNCHANGED vars
  BY <1>5 DEF vars, FiniteRows
<1> QED
  BY <1>1, <1>2, <1>3, <1>4, <1>5 DEF Next

\* The rows that a balance is compared with, for one creator.
Open(c) == WithdrawalsOf(c, {"PENDING", "PROCESSING"})
Paid(c) == WithdrawalsOf(c, {"COMPLETED"})

\* The rows of one creator are finitely many, and their amounts are numbers.
LEMMA RowsAreFinite ==
  ASSUME WithdrawalTypeOK, FiniteRows, NEW c \in Creators
  PROVE  /\ IsFiniteSet(Open(c)) /\ IsFiniteSet(Paid(c))
         /\ IsFiniteSet(UnsettledSupportsOf(c))
         /\ Open(c) \subseteq Withdrawals /\ Paid(c) \subseteq Withdrawals
         /\ \A w \in Withdrawals : withdrawal[w].amount \in Nat
<1>1. Open(c) \in SUBSET Requested /\ Paid(c) \in SUBSET Requested
  BY DEF Open, Paid, WithdrawalsOf, Requested
<1>2. UnsettledSupportsOf(c) \in SUBSET Captured
  BY DEF UnsettledSupportsOf, Captured
<1>3. IsFiniteSet(Captured) /\ IsFiniteSet(Requested)
  BY DEF FiniteRows
<1>4. /\ IsFiniteSet(Open(c)) /\ IsFiniteSet(Paid(c))
      /\ IsFiniteSet(UnsettledSupportsOf(c))
  BY <1>1, <1>2, <1>3, FS_Subset
<1> QED
  BY <1>1, <1>4 DEF WithdrawalTypeOK, Requested

\* The total of a set of rows of a table of withdrawals.
Total(rows, W) == SumFunctionOnSet([w \in W |-> rows[w].amount], W)

\* Two tables have the same amounts in finitely many rows.
SameAmounts(old, new, W) ==
  /\ IsFiniteSet(W)
  /\ \A w \in W : old[w].amount \in Int /\ new[w].amount = old[w].amount

\* A total depends on the amounts only.
LEMMA TotalKeeps ==
  ASSUME NEW old, NEW new, NEW W, SameAmounts(old, new, W)
  PROVE  Total(old, W) \in Int /\ Total(new, W) = Total(old, W)
<1> DEFINE f == [w \in W |-> old[w].amount]
<1>1. IntegersOn(f, W) /\ IsFiniteSet(W)
  BY DEF IntegersOn, SameAmounts
<1>2. Total(old, W) \in Int
  BY <1>1, SumIsInteger DEF Total
<1>3. Total(new, W) = Total(old, W)
  BY SumOfEqual DEF Total, SameAmounts
<1> QED
  BY <1>2, <1>3

\* A row that joins others adds its amount to their total.
LEMMA TotalGrows ==
  ASSUME NEW old, NEW new, NEW W, SameAmounts(old, new, W),
         NEW w, w \notin W, new[w].amount \in Int
  PROVE  Total(new, W \cup {w}) = Total(old, W) + new[w].amount
<1> DEFINE V == W \cup {w}
           f == [v \in W |-> old[v].amount]
           g == [v \in V |-> new[v].amount]
<1>1. IntegersOn(g, V) /\ g[w] = new[w].amount /\ IsFiniteSet(W)
  BY DEF IntegersOn, SameAmounts
<1>2. \A v \in W : g[v] = f[v]
  BY DEF SameAmounts
<1> HIDE DEF g
<1>3. SumFunctionOnSet(g, V) = SumFunctionOnSet(g, W) + g[w]
  BY <1>1, SumWith
<1>4. SumFunctionOnSet(g, W) = Total(old, W)
  BY <1>1, <1>2, SumOfEqual DEF Total
<1> QED
  BY <1>1, <1>3, <1>4 DEF Total, g

\* A row that leaves others takes its amount from their total.
LEMMA TotalShrinks ==
  ASSUME NEW old, NEW new, NEW W, SameAmounts(old, new, W), NEW w \in W
  PROVE  Total(new, W \ {w}) = Total(old, W) - old[w].amount
<1> DEFINE V == W \ {w}
           f == [v \in V |-> new[v].amount]
           g == [v \in W |-> old[v].amount]
<1>1. /\ IntegersOn(g, W) /\ IsFiniteSet(W)
      /\ IntegersOn(g, V) /\ IsFiniteSet(V)
      /\ g[w] = old[w].amount /\ g[w] \in Int
      /\ \A v \in V : f[v] = g[v]
  BY FS_RemoveElement DEF IntegersOn, SameAmounts
<1> HIDE DEF f, g
<1>2. SumFunctionOnSet(g, W) = g[w] + SumFunctionOnSet(g, V)
  BY <1>1, SumWithout
<1>3. SumFunctionOnSet(f, V) = SumFunctionOnSet(g, V)
  BY <1>1, SumOfEqual
<1>4. SumFunctionOnSet(g, V) \in Int
  BY <1>1, SumIsInteger
<1> QED
  BY <1>1, <1>2, <1>3, <1>4 DEF Total, f, g

\* A requested withdrawal is one of its creator's open ones.
LEMMA RowsOfRequest ==
  ASSUME WithdrawalTypeOK, NEW w \in Withdrawals, NEW c \in Creators,
         NEW amt \in Nat, NEW k, RequestWithdrawal(w, c, amt, k),
         NEW d \in Creators
  PROVE  /\ Open(d)' = IF d = c THEN Open(d) \cup {w} ELSE Open(d)
         /\ Paid(d)' = Paid(d)
         /\ w \notin Open(d) /\ w \notin Paid(d)
         /\ withdrawal'[w].amount = amt
         /\ \A v \in Withdrawals \ {w} : withdrawal'[v] = withdrawal[v]
<1>1. /\ withdrawal[w].status = "NONE"
      /\ withdrawal'[w] = [status |-> "PENDING", owner |-> c,
                           amount |-> amt, key |-> k]
      /\ \A v \in Withdrawals \ {w} : withdrawal'[v] = withdrawal[v]
  BY DEF RequestWithdrawal, WithdrawalTypeOK
<1> QED
  BY <1>1 DEF Open, Paid, WithdrawalsOf

\* A step of a withdrawal along the transition table.
StatusMoves(w, st) ==
  /\ MayMove(w, st)
  /\ withdrawal' = [withdrawal EXCEPT ![w].status = st]

\* A withdrawal stays open in processing, and leaves the open ones when it is
\* finalized; when it was completed it is one of the paid ones.
LEMMA RowsOfChange ==
  ASSUME WithdrawalTypeOK, NEW w \in Withdrawals,
         NEW st \in {"PROCESSING", "COMPLETED", "REJECTED"},
         StatusMoves(w, st),
         NEW d \in Creators
  PROVE  /\ st = "PROCESSING" => Open(d)' = Open(d)
         /\ st # "PROCESSING" =>
              Open(d)' = IF d = withdrawal[w].owner THEN Open(d) \ {w}
                                                    ELSE Open(d)
         /\ Paid(d)' = IF d = withdrawal[w].owner /\ st = "COMPLETED"
                         THEN Paid(d) \cup {w} ELSE Paid(d)
         /\ st # "PROCESSING" /\ d = withdrawal[w].owner => w \in Open(d)
         /\ w \notin Paid(d)
         /\ \A v \in Withdrawals : withdrawal'[v].amount = withdrawal[v].amount
<1>1. /\ withdrawal'[w].status = st
      /\ withdrawal'[w].owner = withdrawal[w].owner
      /\ withdrawal'[w].amount = withdrawal[w].amount
      /\ \A v \in Withdrawals \ {w} : withdrawal'[v] = withdrawal[v]
  BY DEF WithdrawalTypeOK, StatusMoves
<1>2. /\ st = "PROCESSING" => withdrawal[w].status = "PENDING"
      /\ st # "PROCESSING" => withdrawal[w].status = "PROCESSING"
  BY MayMoveMeans DEF StatusMoves
<1> QED
  BY <1>1, <1>2 DEF Open, Paid, WithdrawalsOf

\* Transactions that leave the withdrawals alone leave their totals alone.
LEMMA RowsUntouched ==
  ASSUME withdrawal' = withdrawal, NEW c
  PROVE  /\ Open(c)' = Open(c) /\ Paid(c)' = Paid(c)
         /\ TotalAmount(Open(c))' = TotalAmount(Open(c))
         /\ TotalAmount(Paid(c))' = TotalAmount(Paid(c))
  BY DEF Open, Paid, WithdrawalsOf, TotalAmount

\* What was paid to a creator is a number.
LEMMA PaidIsInteger ==
  ASSUME WithdrawalTypeOK, FiniteRows, NEW d \in Creators
  PROVE  TotalAmount(Paid(d)) \in Int
<1>1. SameAmounts(withdrawal, withdrawal, Paid(d))
  BY RowsAreFinite DEF SameAmounts
<1> QED
  BY <1>1, TotalKeeps DEF TotalAmount, Total

\* A request adds to the open amount of its creator.
LEMMA TotalsOfRequest ==
  ASSUME WithdrawalTypeOK, FiniteRows, NEW w \in Withdrawals,
         NEW c \in Creators, NEW amt \in Nat, NEW k,
         RequestWithdrawal(w, c, amt, k), NEW d \in Creators
  PROVE  /\ TotalAmount(Open(d)) \in Int
         /\ TotalAmount(Open(d))' = TotalAmount(Open(d))
                                      + (IF d = c THEN amt ELSE 0)
         /\ TotalAmount(Paid(d))' = TotalAmount(Paid(d))
<1> PICK new : new = withdrawal'
    OBVIOUS
<1>1. /\ Open(d)' = IF d = c THEN Open(d) \cup {w} ELSE Open(d)
      /\ Paid(d)' = Paid(d)
      /\ w \notin Open(d) /\ w \notin Paid(d)
      /\ new[w].amount = amt
      /\ \A v \in Withdrawals \ {w} : withdrawal'[v] = withdrawal[v]
  BY RowsOfRequest
<1>2. /\ SameAmounts(withdrawal, new, Open(d))
      /\ SameAmounts(withdrawal, new, Paid(d))
  BY <1>1, RowsAreFinite DEF SameAmounts
<1>3. /\ Total(withdrawal, Open(d)) \in Int
      /\ Total(new, Open(d)) = Total(withdrawal, Open(d))
      /\ Total(new, Paid(d)) = Total(withdrawal, Paid(d))
  BY <1>2, TotalKeeps
<1>4. Total(new, Open(d) \cup {w}) = Total(withdrawal, Open(d)) + amt
  BY <1>1, <1>2, TotalGrows
<1>5. /\ TotalAmount(Open(d)) = Total(withdrawal, Open(d))
      /\ TotalAmount(Open(d))' = Total(new, Open(d)')
      /\ TotalAmount(Paid(d)) = Total(withdrawal, Paid(d))
      /\ TotalAmount(Paid(d))' = Total(new, Paid(d)')
  BY DEF TotalAmount, Total
<1> QED
  BY <1>1, <1>3, <1>4, <1>5

\* A finalized withdrawal takes its amount out of the open one and, if it was
\* completed, adds it to the paid one.
LEMMA TotalsOfChange ==
  ASSUME WithdrawalTypeOK, FiniteRows, NEW w \in Withdrawals,
         NEW st \in {"PROCESSING", "COMPLETED", "REJECTED"},
         StatusMoves(w, st),
         NEW d \in Creators
  PROVE  /\ TotalAmount(Open(d)) \in Int /\ TotalAmount(Paid(d)) \in Int
         /\ TotalAmount(Open(d))' =
              IF d = withdrawal[w].owner /\ st # "PROCESSING"
                THEN TotalAmount(Open(d)) - withdrawal[w].amount
                ELSE TotalAmount(Open(d))
         /\ TotalAmount(Paid(d))' =
              IF d = withdrawal[w].owner /\ st = "COMPLETED"
                THEN TotalAmount(Paid(d)) + withdrawal[w].amount
                ELSE TotalAmount(Paid(d))
<1> PICK new : new = withdrawal'
    OBVIOUS
<1>1. /\ st = "PROCESSING" => Open(d)' = Open(d)
      /\ st # "PROCESSING" =>
           Open(d)' = IF d = withdrawal[w].owner THEN Open(d) \ {w} ELSE Open(d)
      /\ Paid(d)' = IF d = withdrawal[w].owner /\ st = "COMPLETED"
                      THEN Paid(d) \cup {w} ELSE Paid(d)
      /\ st # "PROCESSING" /\ d = withdrawal[w].owner => w \in Open(d)
      /\ w \notin Paid(d)
      /\ \A v \in Withdrawals : withdrawal'[v].amount = withdrawal[v].amount
  BY RowsOfChange
<1>2. /\ SameAmounts(withdrawal, new, Open(d))
      /\ SameAmounts(withdrawal, new, Paid(d))
      /\ new[w].amount = withdrawal[w].amount
      /\ new[w].amount \in Int
  <2>1. /\ IsFiniteSet(Open(d)) /\ Open(d) \subseteq Withdrawals
        /\ IsFiniteSet(Paid(d)) /\ Paid(d) \subseteq Withdrawals
        /\ \A v \in Withdrawals : withdrawal[v].amount \in Nat
    BY RowsAreFinite
  <2> QED
    BY <1>1, <2>1 DEF SameAmounts
<1>3. /\ Total(withdrawal, Open(d)) \in Int
      /\ Total(withdrawal, Paid(d)) \in Int
      /\ Total(new, Open(d)) = Total(withdrawal, Open(d))
      /\ Total(new, Paid(d)) = Total(withdrawal, Paid(d))
  BY <1>2, TotalKeeps
<1>4. ASSUME w \in Open(d)
      PROVE  Total(new, Open(d) \ {w}) =
               Total(withdrawal, Open(d)) - withdrawal[w].amount
  BY <1>2, <1>4, TotalShrinks
<1>5. Total(new, Paid(d) \cup {w}) =
        Total(withdrawal, Paid(d)) + new[w].amount
  BY <1>1, <1>2, TotalGrows
<1>6. /\ TotalAmount(Open(d)) = Total(withdrawal, Open(d))
      /\ TotalAmount(Open(d))' = Total(new, Open(d)')
      /\ TotalAmount(Paid(d)) = Total(withdrawal, Paid(d))
      /\ TotalAmount(Paid(d))' = Total(new, Paid(d)')
  BY DEF TotalAmount, Total
<1>7. TotalAmount(Open(d))' = IF d = withdrawal[w].owner /\ st # "PROCESSING"
                                THEN TotalAmount(Open(d)) - withdrawal[w].amount
                                ELSE TotalAmount(Open(d))
  BY <1>1, <1>3, <1>4, <1>6
<1>8. TotalAmount(Paid(d))' = IF d = withdrawal[w].owner /\ st = "COMPLETED"
                                THEN TotalAmount(Paid(d)) + withdrawal[w].amount
                                ELSE TotalAmount(Paid(d))
  BY <1>1, <1>2, <1>3, <1>5, <1>6
<1> QED
  BY <1>3, <1>6, <1>7, <1>8

\* Whether a support waits for its settlement depends on its own row.
LEMMA UnsettledFollow ==
  ASSUME SupportTypeOK, NEW d \in Creators, NEW s \in Supports
  PROVE  /\ CompletePayment(s) =>
              /\ s \notin UnsettledSupportsOf(d)
              /\ UnsettledSupportsOf(d)' =
                   IF d = CreatorOf[s] THEN UnsettledSupportsOf(d) \cup {s}
                                       ELSE UnsettledSupportsOf(d)
         /\ SettleSupport(s) =>
              /\ d = CreatorOf[s] => s \in UnsettledSupportsOf(d)
              /\ UnsettledSupportsOf(d)' =
                   IF d = CreatorOf[s] THEN UnsettledSupportsOf(d) \ {s}
                                       ELSE UnsettledSupportsOf(d)
         /\ MarkPaymentFailed(s) =>
              UnsettledSupportsOf(d)' = UnsettledSupportsOf(d)
<1>1. CompletePayment(s) =>
        /\ ~support[s].applied
        /\ support'[s].applied /\ support'[s].settlement = "PENDING"
        /\ \A r \in Supports \ {s} : support'[r] = support[r]
  BY DEF CompletePayment, SupportTypeOK
<1>2. SettleSupport(s) =>
        /\ support[s].applied /\ support[s].settlement = "PENDING"
        /\ support'[s].settlement = "AVAILABLE"
        /\ \A r \in Supports \ {s} : support'[r] = support[r]
  BY DEF SettleSupport, SupportTypeOK
<1>3. MarkPaymentFailed(s) =>
        \A r \in Supports : /\ support'[r].applied = support[r].applied
                            /\ support'[r].settlement = support[r].settlement
  BY DEF MarkPaymentFailed, SupportTypeOK
<1> QED
  BY <1>1, <1>2, <1>3 DEF UnsettledSupportsOf

-----------------------------------------------------------------------------
(* Sums of balances. *)

\* An integer function on three points.
OnThree(f, x, y, z) == f \in [{x, y, z} -> Int] /\ x # y /\ y # z /\ x # z

\* Such a function, added up.
LEMMA SumOfThree ==
  ASSUME NEW f, NEW x, NEW y, NEW z, OnThree(f, x, y, z)
  PROVE  SumFunction(f) = f[x] + f[y] + f[z]
<1> USE DEF OnThree
<1>1. /\ IsFiniteSet({}) /\ IsFiniteSet({x}) /\ IsFiniteSet({x, y})
      /\ {} \cup {x} = {x} /\ {x} \cup {y} = {x, y}
      /\ {x, y} \cup {z} = {x, y, z}
  BY FS_EmptySet, FS_AddElement
<1>2. IntegersOn(f, {x}) /\ IntegersOn(f, {x, y}) /\ IntegersOn(f, {x, y, z})
  BY DEF IntegersOn
<1>3. SumFunctionOnSet(f, {}) = 0
  BY SumOfNothing
<1>4. SumFunctionOnSet(f, {x}) = 0 + f[x]
  BY <1>1, <1>2, <1>3, SumWith
<1>5. SumFunctionOnSet(f, {x, y}) = SumFunctionOnSet(f, {x}) + f[y]
  BY <1>1, <1>2, SumWith
<1>6. SumFunctionOnSet(f, {x, y, z}) = SumFunctionOnSet(f, {x, y}) + f[z]
  BY <1>1, <1>2, SumWith
<1>7. SumFunction(f) = SumFunctionOnSet(f, {x, y, z})
  BY DEF SumFunction
<1> QED
  BY <1>2, <1>4, <1>5, <1>6, <1>7 DEF IntegersOn

\* The money in a wallet, or in the entries of one, is in its three buckets.
LEMMA SumOfBuckets ==
  ASSUME NEW bal \in [Buckets -> Int]
  PROVE  /\ SumFunction(bal) = bal["available"] + bal["pending"] + bal["locked"]
         /\ SumFunction(bal) \in Int
<1>1. OnThree(bal, "available", "pending", "locked")
  BY DEF Buckets, OnThree
<1>2. SumFunction(bal) = bal["available"] + bal["pending"] + bal["locked"]
  BY <1>1, SumOfThree
<1> QED
  BY <1>2 DEF Buckets

\* The accounts without a wallet.
LEMMA SumOfPlatform ==
  ASSUME NEW p \in [PlatformAccounts -> Int]
  PROVE  /\ SumFunction(p) = p["PROCESSOR_CLEARING"] + p["PLATFORM_REVENUE"]
                               + p["WITHDRAWAL_CLEARING"]
         /\ SumFunction(p) \in Int
<1>1. OnThree(p, "PROCESSOR_CLEARING", "PLATFORM_REVENUE", "WITHDRAWAL_CLEARING")
  BY DEF PlatformAccounts, OnThree
<1>2. SumFunction(p) = p["PROCESSOR_CLEARING"] + p["PLATFORM_REVENUE"]
                         + p["WITHDRAWAL_CLEARING"]
  BY <1>1, SumOfThree
<1> QED
  BY <1>2 DEF PlatformAccounts

\* Moving money between buckets leaves the sum as it is, adding some adds it.
LEMMA SumOfMove ==
  ASSUME NEW bal \in [Buckets -> Int], NEW from \in Buckets,
         NEW to \in Buckets, from # to, NEW amt \in Int
  PROVE  SumFunction(Move(bal, from, to, amt)) = SumFunction(bal)
<1>1. /\ Move(bal, from, to, amt) \in [Buckets -> Int]
      /\ Move(bal, from, to, amt)[from] = bal[from] - amt
      /\ Move(bal, from, to, amt)[to] = bal[to] + amt
      /\ \A b \in Buckets \ {from, to} : Move(bal, from, to, amt)[b] = bal[b]
  BY DEF Move
<1> DEFINE new == Move(bal, from, to, amt)
<1> HIDE DEF new
<1>2. new["available"] + new["pending"] + new["locked"]
        = bal["available"] + bal["pending"] + bal["locked"]
  BY <1>1 DEF Buckets, new
<1> QED
  BY <1>1, <1>2, SumOfBuckets DEF new

\* Adding money to a bucket adds it to the sum.
LEMMA SumOfAdd ==
  ASSUME NEW bal \in [Buckets -> Int], NEW bucket \in Buckets, NEW amt \in Int
  PROVE  SumFunction(Add(bal, bucket, amt)) = SumFunction(bal) + amt
<1>1. /\ Add(bal, bucket, amt) \in [Buckets -> Int]
      /\ Add(bal, bucket, amt)[bucket] = bal[bucket] + amt
      /\ \A b \in Buckets \ {bucket} : Add(bal, bucket, amt)[b] = bal[b]
  BY AddProperties
<1> DEFINE new == Add(bal, bucket, amt)
<1> HIDE DEF new
<1>2. new["available"] + new["pending"] + new["locked"]
        = bal["available"] + bal["pending"] + bal["locked"] + amt
  BY <1>1 DEF Buckets, new
<1> QED
  BY <1>1, <1>2, SumOfBuckets DEF new

\* The money of all creators in the entries.
Book == SumFunction([c \in Creators |-> SumFunction(entrySum[c])])

\* What a transaction that moves money inside one wallet does to the balances.
LEMMA WalletAfterMove ==
  ASSUME MoneyTypeOK, NEW c \in Creators, NEW from \in Buckets,
         NEW to \in Buckets, from # to, NEW amt \in Int,
         WalletStep(c, Move(wallet[c], from, to, amt),
                       Move(entrySum[c], from, to, amt)),
         NEW d \in Creators
  PROVE  /\ \A b \in Buckets :
              wallet'[d][b] = IF d = c /\ b = from THEN wallet[d][b] - amt
                              ELSE IF d = c /\ b = to THEN wallet[d][b] + amt
                              ELSE wallet[d][b]
         /\ SumFunction(wallet'[d]) = SumFunction(wallet[d])
         /\ SumFunction(entrySum'[d]) = SumFunction(entrySum[d])
<1>1. /\ wallet[d] \in [Buckets -> Int] /\ entrySum[d] \in [Buckets -> Int]
      /\ wallet \in [Creators -> [Buckets -> Int]]
      /\ entrySum \in [Creators -> [Buckets -> Int]]
  BY DEF MoneyTypeOK
<1>2. CASE d = c
  <2>1. /\ wallet'[d] = Move(wallet[d], from, to, amt)
        /\ entrySum'[d] = Move(entrySum[d], from, to, amt)
    BY <1>1, <1>2 DEF WalletStep
  <2>2. /\ SumFunction(wallet'[d]) = SumFunction(wallet[d])
        /\ SumFunction(entrySum'[d]) = SumFunction(entrySum[d])
    BY <1>1, <2>1, SumOfMove
  <2>3. \A b \in Buckets : wallet'[d][b] = IF b = from THEN wallet[d][b] - amt
                                           ELSE IF b = to THEN wallet[d][b] + amt
                                           ELSE wallet[d][b]
    BY <1>1, <2>1 DEF Move
  <2> QED
    BY <1>2, <2>2, <2>3
<1>3. CASE d # c
  <2>1. wallet'[d] = wallet[d] /\ entrySum'[d] = entrySum[d]
    BY <1>1, <1>3 DEF WalletStep
  <2> QED
    BY <1>3, <2>1
<1> QED
  BY <1>2, <1>3

\* What a transaction that brings money to a wallet or takes it out does.
LEMMA WalletAfterAdd ==
  ASSUME MoneyTypeOK, NEW c \in Creators, NEW bucket \in Buckets,
         NEW amt \in Int,
         WalletStep(c, Add(wallet[c], bucket, amt),
                       Add(entrySum[c], bucket, amt)),
         NEW d \in Creators
  PROVE  /\ \A b \in Buckets :
              wallet'[d][b] = IF d = c /\ b = bucket THEN wallet[d][b] + amt
                              ELSE wallet[d][b]
         /\ SumFunction(wallet'[d]) = IF d = c THEN SumFunction(wallet[d]) + amt
                                      ELSE SumFunction(wallet[d])
         /\ SumFunction(entrySum'[d]) = IF d = c THEN SumFunction(entrySum[d]) + amt
                                        ELSE SumFunction(entrySum[d])
<1>1. /\ wallet[d] \in [Buckets -> Int] /\ entrySum[d] \in [Buckets -> Int]
      /\ wallet \in [Creators -> [Buckets -> Int]]
      /\ entrySum \in [Creators -> [Buckets -> Int]]
  BY DEF MoneyTypeOK
<1>2. CASE d = c
  <2>1. /\ wallet'[d] = Add(wallet[d], bucket, amt)
        /\ entrySum'[d] = Add(entrySum[d], bucket, amt)
    BY <1>1, <1>2 DEF WalletStep
  <2>2. /\ SumFunction(wallet'[d]) = SumFunction(wallet[d]) + amt
        /\ SumFunction(entrySum'[d]) = SumFunction(entrySum[d]) + amt
    BY <1>1, <2>1, SumOfAdd
  <2>3. \A b \in Buckets : wallet'[d][b] = IF b = bucket THEN wallet[d][b] + amt
                                           ELSE wallet[d][b]
    BY <1>1, <2>1 DEF Add
  <2> QED
    BY <1>2, <2>2, <2>3
<1>3. CASE d # c
  <2>1. wallet'[d] = wallet[d] /\ entrySum'[d] = entrySum[d]
    BY <1>1, <1>3 DEF WalletStep
  <2> QED
    BY <1>3, <2>1
<1> QED
  BY <1>2, <1>3

\* The sums are numbers.
LEMMA SumsAreIntegers ==
  ASSUME MoneyTypeOK
  PROVE  /\ \A c \in Creators : /\ SumFunction(wallet[c]) \in Int
                                /\ SumFunction(entrySum[c]) \in Int
         /\ Book \in Int
         /\ SumFunction(platform) \in Int
<1>1. \A c \in Creators : /\ SumFunction(wallet[c]) \in Int
                          /\ SumFunction(entrySum[c]) \in Int
  BY SumOfBuckets DEF MoneyTypeOK
<1>2. Book \in Int
  <2> DEFINE f == [c \in Creators |-> SumFunction(entrySum[c])]
  <2>1. IntegersOn(f, Creators)
    BY <1>1 DEF IntegersOn
  <2>2. Book = SumFunctionOnSet(f, Creators)
    BY DEF Book, SumFunction
  <2> HIDE DEF f
  <2> QED
    BY <2>1, <2>2, FinitelyManyCreators, SumIsInteger
<1>3. SumFunction(platform) \in Int
  BY SumOfPlatform DEF MoneyTypeOK
<1> QED
  BY <1>1, <1>2, <1>3

\* The book changes with the entries of one creator.
LEMMA BookFollows ==
  ASSUME MoneyTypeOK, MoneyTypeOK', NEW c \in Creators, NEW amt \in Int,
         \A d \in Creators :
           SumFunction(entrySum'[d]) = IF d = c THEN SumFunction(entrySum[d]) + amt
                                       ELSE SumFunction(entrySum[d])
  PROVE  Book' = Book + amt
<1> DEFINE f == [d \in Creators |-> SumFunction(entrySum[d])]
           g == [d \in Creators |-> SumFunction(entrySum'[d])]
<1>1. Book = SumFunctionOnSet(f, Creators) /\ Book' = SumFunctionOnSet(g, Creators)
  BY DEF Book, SumFunction
<1>2. /\ IntegersOn(f, Creators)
      /\ f[c] \in Int /\ g[c] = f[c] + amt
      /\ \A d \in Creators \ {c} : g[d] = f[d]
  BY SumsAreIntegers DEF IntegersOn
<1> HIDE DEF f, g
<1>3. SumFunctionOnSet(g, Creators) = SumFunctionOnSet(f, Creators) + g[c] - f[c]
  BY <1>2, FinitelyManyCreators, SumChanges
<1>4. SumFunctionOnSet(f, Creators) \in Int
  BY <1>2, FinitelyManyCreators, SumIsInteger
<1> QED
  BY <1>1, <1>2, <1>3, <1>4

-----------------------------------------------------------------------------
(* Balances and rows. *)

\* The two conjuncts of BalancesMatchRows for one creator.
LockedMatches(c)  == wallet[c]["locked"] = TotalAmount(Open(c))
PendingMatches(c) ==
  wallet[c]["pending"] = SumFunctionOnSet(Net, UnsettledSupportsOf(c))

\* The invariant says so of every creator, before a step and after it.
LEMMA BalancesByCreator ==
  /\ BalancesMatchRows <=>
       \A c \in Creators : LockedMatches(c) /\ PendingMatches(c)
  /\ BalancesMatchRows' <=>
       \A c \in Creators : LockedMatches(c)' /\ PendingMatches(c)'
  BY DEF BalancesMatchRows, LockedMatches, PendingMatches, Open

\* Initially there is no money and no row.
LEMMA InitBalances == Init => BalancesMatchRows
<1> SUFFICES ASSUME Init, NEW c \in Creators
             PROVE  LockedMatches(c) /\ PendingMatches(c)
    BY BalancesByCreator
<1>1. Open(c) = {} /\ UnsettledSupportsOf(c) = {}
  BY DEF Init, Open, WithdrawalsOf, UnsettledSupportsOf, NoWithdrawal
<1>2. wallet[c]["locked"] = 0 /\ wallet[c]["pending"] = 0
  BY DEF Init, Zero, Buckets
<1> QED
  BY <1>1, <1>2, SumOfNothing
     DEF LockedMatches, PendingMatches, TotalAmount

\* The pending sum goes with the supports that wait for their settlement.
LEMMA PendingFollows ==
  ASSUME SupportTypeOK, WithdrawalTypeOK, FiniteRows, NEW d \in Creators,
         NEW s \in Supports
  PROVE  LET old == SumFunctionOnSet(Net, UnsettledSupportsOf(d))
             new == SumFunctionOnSet(Net, UnsettledSupportsOf(d)')
         IN  /\ old \in Int
             /\ CompletePayment(s) =>
                  new = IF d = CreatorOf[s] THEN old + Net[s] ELSE old
             /\ SettleSupport(s) =>
                  new = IF d = CreatorOf[s] THEN old - Net[s] ELSE old
<1> DEFINE U == UnsettledSupportsOf(d)
           U2 == UnsettledSupportsOf(d)'
           Sum(V) == SumFunctionOnSet(Net, V)
<1>1. IsFiniteSet(U) /\ U \subseteq Supports /\ IsFiniteSet(U \ {s})
  BY RowsAreFinite, FS_RemoveElement DEF UnsettledSupportsOf
<1>2. /\ CompletePayment(s) =>
           /\ s \notin U
           /\ U2 = IF d = CreatorOf[s] THEN U \cup {s} ELSE U
      /\ SettleSupport(s) =>
           /\ d = CreatorOf[s] => s \in U
           /\ U2 = IF d = CreatorOf[s] THEN U \ {s} ELSE U
  BY UnsettledFollow
<1> HIDE DEF U, U2
<1>3. /\ IntegersOn(Net, U) /\ IntegersOn(Net, U \cup {s})
      /\ IntegersOn(Net, U \ {s}) /\ Net[s] \in Int
  BY <1>1, LedgerAssumption DEF IntegersOn
<1>4. Sum(U) \in Int /\ Sum(U \ {s}) \in Int
  BY <1>1, <1>3, SumIsInteger
<1>5. s \notin U => Sum(U \cup {s}) = Sum(U) + Net[s]
  BY <1>1, <1>3, SumWith
<1>6. s \in U => Sum(U) = Net[s] + Sum(U \ {s})
  BY <1>1, <1>3, SumWithout
<1> HIDE DEF Sum
<1>7. CompletePayment(s) =>
        Sum(U2) = IF d = CreatorOf[s] THEN Sum(U) + Net[s] ELSE Sum(U)
  BY <1>2, <1>5
<1>8. SettleSupport(s) =>
        Sum(U2) = IF d = CreatorOf[s] THEN Sum(U) - Net[s] ELSE Sum(U)
  <2> SUFFICES ASSUME SettleSupport(s)
               PROVE  Sum(U2) = IF d = CreatorOf[s] THEN Sum(U) - Net[s] ELSE Sum(U)
      OBVIOUS
  <2>1. CASE d = CreatorOf[s]
    <3>1. s \in U /\ U2 = U \ {s}
      BY <1>2, <2>1
    <3>2. Sum(U2) = Sum(U \ {s})
      BY <3>1
    <3> QED
      BY <1>3, <1>4, <1>6, <2>1, <3>1, <3>2
  <2>2. CASE d # CreatorOf[s]
    BY <1>2, <2>2
  <2> QED
    BY <2>1, <2>2
<1> QED
  BY <1>4, <1>7, <1>8 DEF Sum, U, U2

\* Every transaction moves a balance by as much as the rows it stands for.
LEMMA NextBalances ==
  TypeOK /\ FiniteRows /\ BalancesMatchRows /\ [Next]_vars => BalancesMatchRows'
<1> SUFFICES ASSUME TypeOK, FiniteRows, BalancesMatchRows, [Next]_vars,
                    NEW d \in Creators
             PROVE  LockedMatches(d)' /\ PendingMatches(d)'
    BY BalancesByCreator
<1>0. /\ SupportTypeOK /\ WithdrawalTypeOK /\ MoneyTypeOK
      /\ LockedMatches(d) /\ PendingMatches(d)
      /\ wallet[d]["locked"] \in Int /\ wallet[d]["pending"] \in Int
  BY BalancesByCreator DEF TypeOK, MoneyTypeOK, Buckets
<1> USE DEF LockedMatches, PendingMatches
<1>1. ASSUME NEW s \in Supports, CompletePayment(s)
      PROVE  LockedMatches(d)' /\ PendingMatches(d)'
  <2> DEFINE c == CreatorOf[s]
  <2>1. c \in Creators /\ Net[s] \in Int /\ "pending" \in Buckets
    BY LedgerAssumption DEF Buckets
  <2>2. WalletStep(c, Add(wallet[c], "pending", Net[s]),
                      Add(entrySum[c], "pending", Net[s]))
    BY <1>1 DEF CompletePayment, RecordTransaction, WalletStep
  <2> HIDE DEF c
  <2>3. /\ wallet'[d]["locked"] = wallet[d]["locked"]
        /\ wallet'[d]["pending"] = IF d = c THEN wallet[d]["pending"] + Net[s]
                                   ELSE wallet[d]["pending"]
    BY <1>0, <2>1, <2>2, WalletAfterAdd DEF Buckets
  <2>4. TotalAmount(Open(d))' = TotalAmount(Open(d))
    BY <1>1, RowsUntouched DEF CompletePayment
  <2> QED
    BY <1>0, <1>1, <2>3, <2>4, PendingFollows DEF c
<1>2. ASSUME NEW s \in Supports, MarkPaymentFailed(s)
      PROVE  LockedMatches(d)' /\ PendingMatches(d)'
  <2>1. TotalAmount(Open(d))' = TotalAmount(Open(d)) /\ wallet' = wallet
    BY <1>2, RowsUntouched DEF MarkPaymentFailed, moneyVars
  <2>2. UnsettledSupportsOf(d)' = UnsettledSupportsOf(d)
    BY <1>0, <1>2, UnsettledFollow
  <2> QED
    BY <1>0, <2>1, <2>2
<1>3. ASSUME NEW s \in Supports, SettleSupport(s)
      PROVE  LockedMatches(d)' /\ PendingMatches(d)'
  <2> DEFINE c == CreatorOf[s]
  <2>1. /\ c \in Creators /\ Net[s] \in Int
        /\ "pending" \in Buckets /\ "available" \in Buckets
    BY LedgerAssumption DEF Buckets
  <2>2. WalletStep(c, Move(wallet[c], "pending", "available", Net[s]),
                      Move(entrySum[c], "pending", "available", Net[s]))
    BY <1>3 DEF SettleSupport, RecordTransaction, WalletStep
  <2> HIDE DEF c
  <2>3. /\ wallet'[d]["locked"] = wallet[d]["locked"]
        /\ wallet'[d]["pending"] = IF d = c THEN wallet[d]["pending"] - Net[s]
                                   ELSE wallet[d]["pending"]
    BY <1>0, <2>1, <2>2, WalletAfterMove DEF Buckets
  <2>4. TotalAmount(Open(d))' = TotalAmount(Open(d))
    BY <1>3, RowsUntouched DEF SettleSupport
  <2> QED
    BY <1>0, <1>3, <2>3, <2>4, PendingFollows DEF c
<1>4. ASSUME NEW w \in Withdrawals, NEW c \in Creators, NEW amt \in Amounts,
             NEW k \in Keys \cup {NoKey}, RequestWithdrawal(w, c, amt, k)
      PROVE  LockedMatches(d)' /\ PendingMatches(d)'
  <2>1. amt \in Nat /\ amt \in Int /\ "available" \in Buckets /\ "locked" \in Buckets
    BY LedgerAssumption DEF Buckets
  <2>2. WalletStep(c, Move(wallet[c], "available", "locked", amt),
                      Move(entrySum[c], "available", "locked", amt))
    BY <1>4 DEF RequestWithdrawal, RecordTransaction, WalletStep
  <2>3. /\ wallet'[d]["pending"] = wallet[d]["pending"]
        /\ wallet'[d]["locked"] = IF d = c THEN wallet[d]["locked"] + amt
                                  ELSE wallet[d]["locked"]
    BY <1>0, <2>1, <2>2, WalletAfterMove DEF Buckets
  <2>4. TotalAmount(Open(d))' =
          TotalAmount(Open(d)) + (IF d = c THEN amt ELSE 0)
    BY <1>0, <1>4, <2>1, TotalsOfRequest
  <2>5. UnsettledSupportsOf(d)' = UnsettledSupportsOf(d)
    BY <1>4 DEF RequestWithdrawal, UnsettledSupportsOf
  <2> QED
    BY <1>0, <2>1, <2>3, <2>4, <2>5
<1>5. ASSUME NEW w \in Withdrawals, NEW a \in Admins, MoveToProcessing(w, a)
      PROVE  LockedMatches(d)' /\ PendingMatches(d)'
  <2>1. StatusMoves(w, "PROCESSING") /\ wallet' = wallet /\ support' = support
    BY <1>5 DEF MoveToProcessing, StatusMoves, moneyVars
  <2>2. TotalAmount(Open(d))' = TotalAmount(Open(d))
    BY <1>0, <2>1, TotalsOfChange
  <2>3. UnsettledSupportsOf(d)' = UnsettledSupportsOf(d)
    BY <2>1 DEF UnsettledSupportsOf
  <2> QED
    BY <1>0, <2>1, <2>2, <2>3
<1>6. ASSUME NEW w \in Withdrawals, NEW a \in Admins, CompleteWithdrawal(w, a)
      PROVE  LockedMatches(d)' /\ PendingMatches(d)'
  <2> DEFINE c   == withdrawal[w].owner
             amt == withdrawal[w].amount
  <2>1. /\ c \in Creators /\ amt \in Int /\ -amt \in Int
        /\ "locked" \in Buckets
    BY <1>0, <1>6
       DEF CompleteWithdrawal, MayMove, WithdrawalTypeOK, Buckets
  <2>2. WalletStep(c, Add(wallet[c], "locked", -amt),
                      Add(entrySum[c], "locked", -amt))
    BY <1>6 DEF CompleteWithdrawal, RecordTransaction, WalletStep
  <2>3. StatusMoves(w, "COMPLETED") /\ support' = support
    BY <1>6 DEF CompleteWithdrawal, StatusMoves
  <2>4. TotalAmount(Open(d))' = IF d = c THEN TotalAmount(Open(d)) - amt
                                ELSE TotalAmount(Open(d))
    BY <1>0, <2>3, TotalsOfChange
  <2> HIDE DEF c, amt
  <2>5. /\ wallet'[d]["pending"] = wallet[d]["pending"]
        /\ wallet'[d]["locked"] = IF d = c THEN wallet[d]["locked"] + (-amt)
                                  ELSE wallet[d]["locked"]
    BY <1>0, <2>1, <2>2, WalletAfterAdd DEF Buckets
  <2>6. UnsettledSupportsOf(d)' = UnsettledSupportsOf(d)
    BY <2>3 DEF UnsettledSupportsOf
  <2> QED
    BY <1>0, <2>1, <2>4, <2>5, <2>6
<1>7. ASSUME NEW w \in Withdrawals, NEW a \in Admins, RejectWithdrawal(w, a)
      PROVE  LockedMatches(d)' /\ PendingMatches(d)'
  <2> DEFINE c   == withdrawal[w].owner
             amt == withdrawal[w].amount
  <2>1. /\ c \in Creators /\ amt \in Int
        /\ "locked" \in Buckets /\ "available" \in Buckets
    BY <1>0, <1>7 DEF RejectWithdrawal, MayMove, WithdrawalTypeOK, Buckets
  <2>2. WalletStep(c, Move(wallet[c], "locked", "available", amt),
                      Move(entrySum[c], "locked", "available", amt))
    BY <1>7 DEF RejectWithdrawal, RecordTransaction, WalletStep
  <2>3. StatusMoves(w, "REJECTED") /\ support' = support
    BY <1>7 DEF RejectWithdrawal, StatusMoves
  <2>4. TotalAmount(Open(d))' = IF d = c THEN TotalAmount(Open(d)) - amt
                                ELSE TotalAmount(Open(d))
    BY <1>0, <2>3, TotalsOfChange
  <2> HIDE DEF c, amt
  <2>5. /\ wallet'[d]["pending"] = wallet[d]["pending"]
        /\ wallet'[d]["locked"] = IF d = c THEN wallet[d]["locked"] - amt
                                  ELSE wallet[d]["locked"]
    BY <1>0, <2>1, <2>2, WalletAfterMove DEF Buckets
  <2>6. UnsettledSupportsOf(d)' = UnsettledSupportsOf(d)
    BY <2>3 DEF UnsettledSupportsOf
  <2> QED
    BY <1>0, <2>1, <2>4, <2>5, <2>6
<1>8. CASE UNCHANGED vars
  <2>1. wallet' = wallet /\ UnsettledSupportsOf(d)' = UnsettledSupportsOf(d)
    BY <1>8 DEF vars, UnsettledSupportsOf
  <2>2. TotalAmount(Open(d))' = TotalAmount(Open(d))
    BY <1>8, RowsUntouched DEF vars
  <2> QED
    BY <1>0, <2>1, <2>2
<1> QED
  BY <1>1, <1>2, <1>3, <1>4, <1>5, <1>6, <1>7, <1>8 DEF Next

\* The locked balance of a creator is what the open withdrawals add up to, and
\* the pending balance what the captured supports that wait for their
\* settlement add up to, in a database of any size.
THEOREM BalancesFollowRows == Spec => []BalancesMatchRows
<1>1. Init => TypeOK /\ FiniteRows /\ BalancesMatchRows
  BY InitTypeOK, InitFinite, InitBalances
<1>2. TypeOK /\ FiniteRows /\ BalancesMatchRows /\ [Next]_vars
        => (TypeOK /\ FiniteRows /\ BalancesMatchRows)'
  BY NextTypeOK, NextFinite, NextBalances
<1> QED
  BY <1>1, <1>2, PTL DEF Spec

\* What a guard of the code asks for is there: the wallet of a withdrawal that
\* is open holds its amount locked, so that finalizing it is never refused with
\* 'Locked balance is insufficient', and the wallet of a support that waits for
\* its settlement holds its net amount pending, so that the job never finds
\* the wallet's state inconsistent.
FundsAreThere ==
  /\ \A w \in Withdrawals :
       withdrawal[w].status \in {"PENDING", "PROCESSING"} =>
         wallet[withdrawal[w].owner]["locked"] >= withdrawal[w].amount
  /\ \A s \in Supports :
       support[s].applied /\ support[s].settlement = "PENDING" =>
         wallet[CreatorOf[s]]["pending"] >= Net[s]

\* A balance that is the sum of amounts is no less than any of them.
LEMMA FundsFollow ==
  ASSUME TypeOK, FiniteRows, BalancesMatchRows
  PROVE  FundsAreThere
<1>0. WithdrawalTypeOK /\ SupportTypeOK
  BY DEF TypeOK
<1>1. ASSUME NEW w \in Withdrawals,
             withdrawal[w].status \in {"PENDING", "PROCESSING"}
      PROVE  wallet[withdrawal[w].owner]["locked"] >= withdrawal[w].amount
  <2> DEFINE c == withdrawal[w].owner
             f == [v \in Open(c) |-> withdrawal[v].amount]
  <2>1. c \in Creators
    BY <1>0, <1>1 DEF WithdrawalTypeOK
  <2>2. w \in Open(c)
    BY <1>1 DEF Open, WithdrawalsOf
  <2>3. wallet[c]["locked"] = TotalAmount(Open(c))
    BY <2>1, BalancesByCreator DEF LockedMatches
  <2> HIDE DEF c
  <2>4. /\ IsFiniteSet(Open(c)) /\ f[w] = withdrawal[w].amount
        /\ \A v \in Open(c) : f[v] \in Nat
    BY <1>0, <2>1, <2>2, RowsAreFinite
  <2>5. TotalAmount(Open(c)) = SumFunctionOnSet(f, Open(c))
    BY DEF TotalAmount
  <2> HIDE DEF f
  <2>6. /\ SumFunctionOnSet(f, Open(c)) \in Nat
        /\ f[w] <= SumFunctionOnSet(f, Open(c))
    BY <2>2, <2>4, SumIsNatural
  <2> QED
    BY <2>2, <2>3, <2>4, <2>5, <2>6 DEF c
<1>2. ASSUME NEW s \in Supports, support[s].applied,
             support[s].settlement = "PENDING"
      PROVE  wallet[CreatorOf[s]]["pending"] >= Net[s]
  <2> DEFINE c == CreatorOf[s]
             U == UnsettledSupportsOf(c)
  <2>1. c \in Creators /\ s \in U /\ U \subseteq Supports
    BY <1>2, LedgerAssumption DEF UnsettledSupportsOf
  <2>2. wallet[c]["pending"] = SumFunctionOnSet(Net, U)
    BY <2>1, BalancesByCreator DEF PendingMatches
  <2>3. IsFiniteSet(U) /\ \A r \in U : Net[r] \in Nat
    BY <1>0, <2>1, RowsAreFinite, LedgerAssumption
  <2> HIDE DEF U
  <2>4. SumFunctionOnSet(Net, U) \in Nat /\ Net[s] <= SumFunctionOnSet(Net, U)
    BY <2>1, <2>3, SumIsNatural
  <2> QED
    BY <2>1, <2>2, <2>3, <2>4
<1> QED
  BY <1>1, <1>2 DEF FundsAreThere

\* The money for every open withdrawal is locked and the money for every
\* unsettled support is pending: the two guards never refuse.
THEOREM FundsAreNeverMissing == Spec => []FundsAreThere
<1>1. Init => TypeOK /\ FiniteRows /\ BalancesMatchRows
  BY InitTypeOK, InitFinite, InitBalances
<1>2. TypeOK /\ FiniteRows /\ BalancesMatchRows /\ [Next]_vars
        => (TypeOK /\ FiniteRows /\ BalancesMatchRows)'
  BY NextTypeOK, NextFinite, NextBalances
<1>3. TypeOK /\ FiniteRows /\ BalancesMatchRows => FundsAreThere
  BY FundsFollow
<1> QED
  BY <1>1, <1>2, <1>3, PTL DEF Spec

-----------------------------------------------------------------------------
(* Conservation. *)

\* The conjuncts of MoneyIsConserved: what one creator has, what came in for one
\* creator, and the whole book.
EarnedIsKept(c) ==
  totalEarned[c] = SumFunction(wallet[c]) + TotalAmount(Paid(c))
EarnedIsCaptured(c) ==
  totalEarned[c] = SumFunctionOnSet(Net, CapturedSupportsOf(c))
BookCloses == Book + SumFunction(platform) = 0

BooksBalance == (\A c \in Creators : EarnedIsKept(c)) /\ BookCloses

\* Both sides of it, before a step and after it.
LEMMA BalanceByCreator ==
  /\ BooksBalance <=> (\A c \in Creators : EarnedIsKept(c)) /\ BookCloses
  /\ BooksBalance' <=> (\A c \in Creators : EarnedIsKept(c)') /\ BookCloses'
  BY DEF BooksBalance

\* MoneyIsConserved, put together.
LEMMA ConservedByCreator ==
  MoneyIsConserved <=> /\ BooksBalance
                       /\ \A c \in Creators : EarnedIsCaptured(c)
  BY DEF MoneyIsConserved, EarnedIsKept, EarnedIsCaptured, BooksBalance,
         BookCloses, Book, Paid

\* Nothing is earned, kept or booked initially.
LEMMA InitBooks == Init => BooksBalance
<1> SUFFICES ASSUME Init PROVE BooksBalance
    OBVIOUS
<1>1. /\ \A c \in Creators : wallet[c] = Zero /\ entrySum[c] = Zero
      /\ Zero \in [Buckets -> Int] /\ \A b \in Buckets : Zero[b] = 0
      /\ platform \in [PlatformAccounts -> Int]
      /\ \A a \in PlatformAccounts : platform[a] = 0
  BY DEF Init, Zero
<1>2. SumFunction(Zero) = 0
  BY <1>1, SumOfBuckets DEF Buckets
<1>3. SumFunction(platform) = 0
  BY <1>1, SumOfPlatform DEF PlatformAccounts
<1>4. ASSUME NEW c \in Creators PROVE EarnedIsKept(c)
  <2>1. Paid(c) = {}
    BY DEF Init, Paid, WithdrawalsOf, NoWithdrawal
  <2>2. TotalAmount(Paid(c)) = 0
    BY <2>1, SumOfNothing DEF TotalAmount
  <2> QED
    BY <1>1, <1>2, <2>2 DEF Init, EarnedIsKept
<1>5. Book = 0
  <2> DEFINE f == [c \in Creators |-> SumFunction(entrySum[c])]
  <2>1. \A c \in Creators : f[c] = 0
    BY <1>1, <1>2
  <2> HIDE DEF f
  <2>2. SumFunctionOnSet(f, Creators) = 0
    BY <2>1, FinitelyManyCreators, SumOfZeros
  <2> QED
    BY <2>2 DEF Book, SumFunction, f
<1> QED
  BY <1>3, <1>4, <1>5, BalanceByCreator DEF BookCloses

\* A transaction inside one wallet leaves the book as it is.
LEMMA BookStays ==
  ASSUME MoneyTypeOK, MoneyTypeOK',
         \A d \in Creators : SumFunction(entrySum'[d]) = SumFunction(entrySum[d])
  PROVE  Book' = Book
<1> DEFINE f == [d \in Creators |-> SumFunction(entrySum[d])]
           g == [d \in Creators |-> SumFunction(entrySum'[d])]
<1>1. f = g
  OBVIOUS
<1> QED
  BY <1>1 DEF Book

\* What is earned is kept or paid out, and what one account gains another one
\* loses, in every transaction.
LEMMA NextBooks ==
  TypeOK /\ FiniteRows /\ BooksBalance /\ [Next]_vars => BooksBalance'
<1> SUFFICES ASSUME TypeOK, FiniteRows, BooksBalance, [Next]_vars
             PROVE  (\A d \in Creators : EarnedIsKept(d)') /\ BookCloses'
    BY BalanceByCreator
<1>0. /\ WithdrawalTypeOK /\ MoneyTypeOK /\ MoneyTypeOK'
      /\ \A d \in Creators : EarnedIsKept(d)
      /\ BookCloses
      /\ Book \in Int /\ SumFunction(platform) \in Int
      /\ \A d \in Creators : SumFunction(wallet[d]) \in Int
  BY BalanceByCreator, NextTypeOK, SumsAreIntegers DEF TypeOK
<1>m. ASSUME NEW c \in Creators, NEW from \in Buckets, NEW to \in Buckets,
             from # to, NEW amt \in Int,
             WalletStep(c, Move(wallet[c], from, to, amt),
                           Move(entrySum[c], from, to, amt)),
             platform' = platform, totalEarned' = totalEarned,
             \A d \in Creators : TotalAmount(Paid(d))' = TotalAmount(Paid(d))
      PROVE  (\A d \in Creators : EarnedIsKept(d)') /\ BookCloses'
  <2>1. \A d \in Creators :
          /\ SumFunction(wallet'[d]) = SumFunction(wallet[d])
          /\ SumFunction(entrySum'[d]) = SumFunction(entrySum[d])
    BY <1>0, <1>m, WalletAfterMove
  <2>2. Book' = Book
    BY <1>0, <2>1, BookStays
  <2> QED
    BY <1>0, <1>m, <2>1, <2>2 DEF EarnedIsKept, BookCloses
<1>1. ASSUME NEW s \in Supports, CompletePayment(s)
      PROVE  (\A d \in Creators : EarnedIsKept(d)') /\ BookCloses'
  <2> DEFINE c == CreatorOf[s]
  <2>1. /\ c \in Creators /\ Net[s] \in Int /\ Fee[s] \in Int
        /\ "pending" \in Buckets
    BY LedgerAssumption DEF Buckets
  <2>2. WalletStep(c, Add(wallet[c], "pending", Net[s]),
                      Add(entrySum[c], "pending", Net[s]))
    BY <1>1 DEF CompletePayment, RecordTransaction, WalletStep
  <2>3. \A d \in Creators :
          totalEarned'[d] = IF d = c THEN totalEarned[d] + Net[s] ELSE totalEarned[d]
    BY <1>0, <1>1 DEF CompletePayment, MoneyTypeOK
  <2>4. \A d \in Creators : TotalAmount(Paid(d))' = TotalAmount(Paid(d))
    BY <1>1, RowsUntouched DEF CompletePayment
  <2>5. \A d \in Creators : TotalAmount(Paid(d)) \in Int
    BY <1>0, PaidIsInteger
  <2> HIDE DEF c
  <2>6. \A d \in Creators :
          /\ SumFunction(wallet'[d]) = IF d = c THEN SumFunction(wallet[d]) + Net[s]
                                       ELSE SumFunction(wallet[d])
          /\ SumFunction(entrySum'[d]) = IF d = c THEN SumFunction(entrySum[d]) + Net[s]
                                         ELSE SumFunction(entrySum[d])
    BY <1>0, <2>1, <2>2, WalletAfterAdd
  <2>7. \A d \in Creators : EarnedIsKept(d)'
    BY <1>0, <2>1, <2>3, <2>4, <2>5, <2>6 DEF EarnedIsKept
  <2>8. Book' = Book + Net[s]
    BY <1>0, <2>1, <2>6, BookFollows
  <2>9. SumFunction(platform') = SumFunction(platform) - Net[s]
    <3>1. /\ platform'["PROCESSOR_CLEARING"] =
               platform["PROCESSOR_CLEARING"] - (Net[s] + Fee[s])
          /\ platform'["PLATFORM_REVENUE"] = platform["PLATFORM_REVENUE"] + Fee[s]
          /\ platform'["WITHDRAWAL_CLEARING"] = platform["WITHDRAWAL_CLEARING"]
      BY <1>0, <1>1 DEF CompletePayment, Gross, MoneyTypeOK, PlatformAccounts
    <3>2. /\ platform["PROCESSOR_CLEARING"] \in Int
          /\ platform["PLATFORM_REVENUE"] \in Int
          /\ platform["WITHDRAWAL_CLEARING"] \in Int
      BY <1>0 DEF MoneyTypeOK, PlatformAccounts
    <3>3. /\ platform  \in [PlatformAccounts -> Int]
          /\ platform' \in [PlatformAccounts -> Int]
      BY <1>0 DEF MoneyTypeOK
    <3>4. /\ SumFunction(platform) = platform["PROCESSOR_CLEARING"]
               + platform["PLATFORM_REVENUE"] + platform["WITHDRAWAL_CLEARING"]
          /\ SumFunction(platform') = platform'["PROCESSOR_CLEARING"]
               + platform'["PLATFORM_REVENUE"] + platform'["WITHDRAWAL_CLEARING"]
      BY <3>3, SumOfPlatform
    <3> QED
      BY <2>1, <3>1, <3>2, <3>4
  <2> QED
    BY <1>0, <2>1, <2>7, <2>8, <2>9 DEF BookCloses
<1>2. ASSUME NEW s \in Supports, MarkPaymentFailed(s)
      PROVE  (\A d \in Creators : EarnedIsKept(d)') /\ BookCloses'
  <2>1. \A d \in Creators : TotalAmount(Paid(d))' = TotalAmount(Paid(d))
    BY <1>2, RowsUntouched DEF MarkPaymentFailed
  <2> QED
    BY <1>0, <1>2, <2>1
       DEF MarkPaymentFailed, moneyVars, EarnedIsKept, BookCloses, Book
<1>3. ASSUME NEW s \in Supports, SettleSupport(s)
      PROVE  (\A d \in Creators : EarnedIsKept(d)') /\ BookCloses'
  <2> DEFINE c == CreatorOf[s]
  <2>1. /\ c \in Creators /\ Net[s] \in Int
        /\ "pending" \in Buckets /\ "available" \in Buckets
    BY LedgerAssumption DEF Buckets
  <2>2. WalletStep(c, Move(wallet[c], "pending", "available", Net[s]),
                      Move(entrySum[c], "pending", "available", Net[s]))
    BY <1>3 DEF SettleSupport, RecordTransaction, WalletStep
  <2>3. \A d \in Creators : TotalAmount(Paid(d))' = TotalAmount(Paid(d))
    BY <1>3, RowsUntouched DEF SettleSupport
  <2>4. platform' = platform /\ totalEarned' = totalEarned
    BY <1>3 DEF SettleSupport
  <2> HIDE DEF c
  <2> QED
    BY <1>m, <2>1, <2>2, <2>3, <2>4
<1>4. ASSUME NEW w \in Withdrawals, NEW c \in Creators, NEW amt \in Amounts,
             NEW k \in Keys \cup {NoKey}, RequestWithdrawal(w, c, amt, k)
      PROVE  (\A d \in Creators : EarnedIsKept(d)') /\ BookCloses'
  <2>1. amt \in Nat /\ amt \in Int /\ "available" \in Buckets /\ "locked" \in Buckets
    BY LedgerAssumption DEF Buckets
  <2>2. WalletStep(c, Move(wallet[c], "available", "locked", amt),
                      Move(entrySum[c], "available", "locked", amt))
    BY <1>4 DEF RequestWithdrawal, RecordTransaction, WalletStep
  <2>3. \A d \in Creators : TotalAmount(Paid(d))' = TotalAmount(Paid(d))
    BY <1>0, <1>4, <2>1, TotalsOfRequest
  <2>4. platform' = platform /\ totalEarned' = totalEarned
    BY <1>4 DEF RequestWithdrawal
  <2> QED
    BY <1>m, <2>1, <2>2, <2>3, <2>4
<1>5. ASSUME NEW w \in Withdrawals, NEW a \in Admins, MoveToProcessing(w, a)
      PROVE  (\A d \in Creators : EarnedIsKept(d)') /\ BookCloses'
  <2>1. StatusMoves(w, "PROCESSING")
    BY <1>5 DEF MoveToProcessing, StatusMoves
  <2>2. \A d \in Creators : TotalAmount(Paid(d))' = TotalAmount(Paid(d))
    BY <1>0, <2>1, TotalsOfChange
  <2> QED
    BY <1>0, <1>5, <2>2
       DEF MoveToProcessing, moneyVars, EarnedIsKept, BookCloses, Book
<1>6. ASSUME NEW w \in Withdrawals, NEW a \in Admins, CompleteWithdrawal(w, a)
      PROVE  (\A d \in Creators : EarnedIsKept(d)') /\ BookCloses'
  <2> DEFINE c   == withdrawal[w].owner
             amt == withdrawal[w].amount
  <2>1. /\ c \in Creators /\ amt \in Int /\ -amt \in Int
        /\ "locked" \in Buckets
    BY <1>0, <1>6
       DEF CompleteWithdrawal, MayMove, WithdrawalTypeOK, Buckets
  <2>2. WalletStep(c, Add(wallet[c], "locked", -amt),
                      Add(entrySum[c], "locked", -amt))
    BY <1>6 DEF CompleteWithdrawal, RecordTransaction, WalletStep
  <2>3. StatusMoves(w, "COMPLETED") /\ totalEarned' = totalEarned
    BY <1>6 DEF CompleteWithdrawal, StatusMoves
  <2>4. \A d \in Creators :
          /\ TotalAmount(Paid(d)) \in Int
          /\ TotalAmount(Paid(d))' = IF d = c THEN TotalAmount(Paid(d)) + amt
                                     ELSE TotalAmount(Paid(d))
    BY <1>0, <2>3, TotalsOfChange
  <2>5. platform' = [platform EXCEPT !["WITHDRAWAL_CLEARING"] = @ + amt]
    BY <1>6 DEF CompleteWithdrawal
  <2> HIDE DEF c, amt
  <2>6. \A d \in Creators :
          /\ SumFunction(wallet'[d]) = IF d = c THEN SumFunction(wallet[d]) + (-amt)
                                       ELSE SumFunction(wallet[d])
          /\ SumFunction(entrySum'[d]) = IF d = c THEN SumFunction(entrySum[d]) + (-amt)
                                         ELSE SumFunction(entrySum[d])
    BY <1>0, <2>1, <2>2, WalletAfterAdd
  <2>7. \A d \in Creators : EarnedIsKept(d)'
    BY <1>0, <2>1, <2>3, <2>4, <2>6 DEF EarnedIsKept
  <2>8. Book' = Book + (-amt)
    BY <1>0, <2>1, <2>6, BookFollows
  <2>9. SumFunction(platform') = SumFunction(platform) + amt
    <3>1. /\ platform'["PROCESSOR_CLEARING"] = platform["PROCESSOR_CLEARING"]
          /\ platform'["PLATFORM_REVENUE"] = platform["PLATFORM_REVENUE"]
          /\ platform'["WITHDRAWAL_CLEARING"] = platform["WITHDRAWAL_CLEARING"] + amt
      BY <1>0, <2>5 DEF MoneyTypeOK, PlatformAccounts
    <3>2. /\ platform["PROCESSOR_CLEARING"] \in Int
          /\ platform["PLATFORM_REVENUE"] \in Int
          /\ platform["WITHDRAWAL_CLEARING"] \in Int
      BY <1>0 DEF MoneyTypeOK, PlatformAccounts
    <3>3. /\ platform  \in [PlatformAccounts -> Int]
          /\ platform' \in [PlatformAccounts -> Int]
      BY <1>0 DEF MoneyTypeOK
    <3>4. /\ SumFunction(platform) = platform["PROCESSOR_CLEARING"]
               + platform["PLATFORM_REVENUE"] + platform["WITHDRAWAL_CLEARING"]
          /\ SumFunction(platform') = platform'["PROCESSOR_CLEARING"]
               + platform'["PLATFORM_REVENUE"] + platform'["WITHDRAWAL_CLEARING"]
      BY <3>3, SumOfPlatform
    <3> QED
      BY <2>1, <3>1, <3>2, <3>4
  <2> QED
    BY <1>0, <2>1, <2>7, <2>8, <2>9 DEF BookCloses
<1>7. ASSUME NEW w \in Withdrawals, NEW a \in Admins, RejectWithdrawal(w, a)
      PROVE  (\A d \in Creators : EarnedIsKept(d)') /\ BookCloses'
  <2> DEFINE c   == withdrawal[w].owner
             amt == withdrawal[w].amount
  <2>1. /\ c \in Creators /\ amt \in Int
        /\ "locked" \in Buckets /\ "available" \in Buckets
    BY <1>0, <1>7 DEF RejectWithdrawal, MayMove, WithdrawalTypeOK, Buckets
  <2>2. WalletStep(c, Move(wallet[c], "locked", "available", amt),
                      Move(entrySum[c], "locked", "available", amt))
    BY <1>7 DEF RejectWithdrawal, RecordTransaction, WalletStep
  <2>3. StatusMoves(w, "REJECTED")
    BY <1>7 DEF RejectWithdrawal, StatusMoves
  <2>4. \A d \in Creators : TotalAmount(Paid(d))' = TotalAmount(Paid(d))
    BY <1>0, <2>3, TotalsOfChange
  <2>5. platform' = platform /\ totalEarned' = totalEarned
    BY <1>7 DEF RejectWithdrawal
  <2> HIDE DEF c, amt
  <2> QED
    BY <1>m, <2>1, <2>2, <2>4, <2>5
<1>8. CASE UNCHANGED vars
  <2>1. \A d \in Creators : TotalAmount(Paid(d))' = TotalAmount(Paid(d))
    BY <1>8, RowsUntouched DEF vars
  <2> QED
    BY <1>0, <1>8, <2>1 DEF vars, EarnedIsKept, BookCloses, Book
<1> QED
  BY <1>1, <1>2, <1>3, <1>4, <1>5, <1>6, <1>7, <1>8 DEF Next

\* Initially nothing came in.
LEMMA InitCaptures == Init => \A c \in Creators : EarnedIsCaptured(c)
<1> SUFFICES ASSUME Init, NEW c \in Creators PROVE EarnedIsCaptured(c)
    OBVIOUS
<1>1. CapturedSupportsOf(c) = {} /\ totalEarned[c] = 0
  BY DEF Init, CapturedSupportsOf
<1> QED
  BY <1>1, SumOfNothing DEF EarnedIsCaptured

\* A support comes in once, and with it its net amount.
LEMMA NextCaptures ==
  /\ TypeOK /\ FiniteRows /\ [Next]_vars
  /\ \A c \in Creators : EarnedIsCaptured(c)
  => \A c \in Creators : EarnedIsCaptured(c)'
<1> SUFFICES ASSUME TypeOK, FiniteRows, [Next]_vars, NEW c \in Creators,
                    EarnedIsCaptured(c)
             PROVE  EarnedIsCaptured(c)'
    OBVIOUS
<1> DEFINE C  == CapturedSupportsOf(c)
           C2 == CapturedSupportsOf(c)'
<1>0. SupportTypeOK /\ MoneyTypeOK
  BY DEF TypeOK
<1>1. ASSUME NEW s \in Supports, CompletePayment(s)
      PROVE  EarnedIsCaptured(c)'
  <2>1. /\ ~support[s].applied /\ support'[s].applied
        /\ \A r \in Supports \ {s} : support'[r] = support[r]
        /\ totalEarned'[c] = IF c = CreatorOf[s] THEN totalEarned[c] + Net[s]
                             ELSE totalEarned[c]
    BY <1>0, <1>1 DEF CompletePayment, SupportTypeOK, MoneyTypeOK
  <2>2. /\ s \notin C
        /\ C2 = IF c = CreatorOf[s] THEN C \cup {s} ELSE C
    BY <2>1 DEF CapturedSupportsOf
  <2>3. IsFiniteSet(C)
    BY FS_Subset DEF CapturedSupportsOf, FiniteRows, Captured
  <2>4. C \subseteq Supports
    BY DEF CapturedSupportsOf
  <2> HIDE DEF C, C2
  <2>5. IntegersOn(Net, C \cup {s})
    BY <2>4, LedgerAssumption DEF IntegersOn
  <2>6. SumFunctionOnSet(Net, C \cup {s}) = SumFunctionOnSet(Net, C) + Net[s]
    BY <2>2, <2>3, <2>5, SumWith
  <2>7. totalEarned[c] = SumFunctionOnSet(Net, C)
    BY DEF EarnedIsCaptured, C
  <2>8. totalEarned'[c] = SumFunctionOnSet(Net, C2)
    BY <2>1, <2>2, <2>6, <2>7
  <2> QED
    BY <2>8 DEF EarnedIsCaptured, C2
<1>2. CASE /\ totalEarned' = totalEarned
           /\ \A s \in Supports : support'[s].applied = support[s].applied
  <2>1. C2 = C
    BY <1>2 DEF CapturedSupportsOf
  <2> QED
    BY <1>2, <2>1 DEF EarnedIsCaptured
<1>3. ASSUME \A s \in Supports : ~CompletePayment(s)
      PROVE  /\ totalEarned' = totalEarned
             /\ \A s \in Supports : support'[s].applied = support[s].applied
  BY <1>0, <1>3
     DEF Next, MarkPaymentFailed, SettleSupport, RequestWithdrawal,
         MoveToProcessing, CompleteWithdrawal, RejectWithdrawal, vars,
         moneyVars, SupportTypeOK
<1> QED
  BY <1>1, <1>2, <1>3

\* No money is made or lost, for any number of creators, supports and
\* withdrawals: what a creator earned came from captured supports and is in
\* the wallet or was paid out, and debits equal credits over the whole book.
THEOREM ConservationHolds == Spec => []MoneyIsConserved
<1> DEFINE Captures == \A c \in Creators : EarnedIsCaptured(c)
           Kept == TypeOK /\ FiniteRows /\ BooksBalance /\ Captures
<1>1. Init => Kept
  BY InitTypeOK, InitFinite, InitBooks, InitCaptures
<1>2. Kept /\ [Next]_vars => Kept'
  BY NextTypeOK, NextFinite, NextBooks, NextCaptures
<1>3. Kept => MoneyIsConserved
  BY ConservedByCreator
<1> QED
  BY <1>1, <1>2, <1>3, PTL DEF Spec

\* The available balance is what the settled supports brought less what was
\* asked for and not refused.  With BalancesMatchRows it makes every balance of
\* a wallet a function of the support and withdrawal rows.
AvailableMatchesRows ==
  \A c \in Creators :
    wallet[c]["available"] =
      SumFunctionOnSet(Net, CapturedSupportsOf(c))
        - SumFunctionOnSet(Net, UnsettledSupportsOf(c))
        - TotalAmount(Open(c)) - TotalAmount(Paid(c))

\* A wallet that was lost could be computed anew from the rows.
THEOREM WalletsFollowRows == Spec => []AvailableMatchesRows
<1>1. ASSUME TypeOK, FiniteRows, BalancesMatchRows, MoneyIsConserved
      PROVE  AvailableMatchesRows
  <2> SUFFICES ASSUME NEW c \in Creators
               PROVE  wallet[c]["available"] =
                        SumFunctionOnSet(Net, CapturedSupportsOf(c))
                          - SumFunctionOnSet(Net, UnsettledSupportsOf(c))
                          - TotalAmount(Open(c)) - TotalAmount(Paid(c))
      BY DEF AvailableMatchesRows
  <2>1. /\ wallet[c] \in [Buckets -> Int]
        /\ wallet[c]["available"] \in Int /\ wallet[c]["pending"] \in Int
        /\ wallet[c]["locked"] \in Int
    BY <1>1 DEF TypeOK, MoneyTypeOK, Buckets
  <2>2. /\ wallet[c]["locked"] = TotalAmount(Open(c))
        /\ wallet[c]["pending"] = SumFunctionOnSet(Net, UnsettledSupportsOf(c))
    BY <1>1, BalancesByCreator DEF LockedMatches, PendingMatches
  <2>3. SumFunctionOnSet(Net, CapturedSupportsOf(c)) =
          SumFunction(wallet[c]) + TotalAmount(Paid(c))
    BY <1>1, ConservedByCreator
       DEF EarnedIsCaptured, EarnedIsKept, BooksBalance
  <2>4. SumFunction(wallet[c]) = wallet[c]["available"] + wallet[c]["pending"]
                                   + wallet[c]["locked"]
    BY <2>1, SumOfBuckets
  <2>5. TotalAmount(Paid(c)) \in Int
    BY <1>1, PaidIsInteger DEF TypeOK
  <2> QED
    BY <2>1, <2>2, <2>3, <2>4, <2>5
<1>2. Init => TypeOK /\ FiniteRows
  BY InitTypeOK, InitFinite
<1>3. TypeOK /\ FiniteRows /\ [Next]_vars => (TypeOK /\ FiniteRows)'
  BY NextTypeOK, NextFinite
<1> QED
  BY <1>1, <1>2, <1>3, BalancesFollowRows, ConservationHolds, PTL DEF Spec

-----------------------------------------------------------------------------
(* The promise to the creators. *)

\* The state of the contract, as the tables keep it; the supports it calls
\* credited are the captured ones.
Held     == [c \in Creators |-> wallet[c]["pending"]]
Owed     == [c \in Creators |-> wallet[c]["available"] + wallet[c]["locked"]]
Released == {s \in Supports : support[s].settlement = "AVAILABLE"}
PaidOut  == {w \in Withdrawals : withdrawal[w].status = "COMPLETED"}
Payouts  == {PayoutOf(w) : w \in PaidOut}
Refused  == {w \in Withdrawals : withdrawal[w].status = "REJECTED"}

\* The contract's rule for a payment, read in that state.
LEMMA CreditRule ==
  ASSUME NEW s \in Supports, s \notin Captured,
         Captured' = Captured \cup {s},
         Held' = [Held EXCEPT ![CreatorOf[s]] = @ + Net[s]],
         Owed' = Owed, Released' = Released,
         Payouts' = Payouts, Refused' = Refused
  PROVE  Promise!Credit(s)
  BY Zenon
     DEF Promise!Credit, Held, Owed, Captured, Released, Payouts, PaidOut,
         Refused

\* The contract's rule for a settlement.
LEMMA ReleaseRule ==
  ASSUME NEW s \in Supports, s \in Captured \ Released,
         Net[s] <= Held[CreatorOf[s]],
         Released' = Released \cup {s},
         Held' = [Held EXCEPT ![CreatorOf[s]] = @ - Net[s]],
         Owed' = [Owed EXCEPT ![CreatorOf[s]] = @ + Net[s]],
         Captured' = Captured, Payouts' = Payouts, Refused' = Refused
  PROVE  Promise!Release(s)
  BY Zenon
     DEF Promise!Release, Held, Owed, Captured, Released, Payouts, PaidOut,
         Refused

\* The contract's rule for a withdrawal that is paid.
LEMMA PayOutRule ==
  ASSUME NEW w \in Withdrawals, NEW c \in Creators, NEW amt \in 0 .. Owed[c],
         w \notin Refused, \A p \in Payouts : p.for # w,
         Payouts' = Payouts \cup {[for |-> w, to |-> c, amount |-> amt]},
         Owed' = [Owed EXCEPT ![c] = @ - amt],
         Held' = Held, Captured' = Captured, Released' = Released,
         Refused' = Refused
  PROVE  Promise!PayOut(w, c)
  BY Zenon
     DEF Promise!PayOut, Promise!Unanswered, Held, Owed, Captured, Released,
         Payouts, PaidOut, Refused

\* The contract's rule for a withdrawal that is refused.
LEMMA RefuseRule ==
  ASSUME NEW w \in Withdrawals,
         w \notin Refused, \A p \in Payouts : p.for # w,
         Refused' = Refused \cup {w},
         Held' = Held, Owed' = Owed, Captured' = Captured,
         Released' = Released, Payouts' = Payouts
  PROVE  Promise!Refuse(w)
  BY Zenon
     DEF Promise!Refuse, Promise!Unanswered, Held, Owed, Captured, Released,
         Payouts, PaidOut, Refused

\* What the contract does not see.
LEMMA Unseen ==
  ASSUME Held' = Held, Owed' = Owed, Captured' = Captured,
         Released' = Released, Payouts' = Payouts, Refused' = Refused
  PROVE  UNCHANGED Promise!vars
  BY Zenon
     DEF Promise!vars, Held, Owed, Captured, Released, Payouts, PaidOut, Refused

\* A function that differs from another one at one point, by so much.
LEMMA ChangedAt ==
  ASSUME NEW f \in [Creators -> Int], NEW g \in [Creators -> Int],
         NEW c \in Creators, NEW n \in Int,
         \A d \in Creators : g[d] = f[d] + (IF d = c THEN n ELSE 0)
  PROVE  g = [f EXCEPT ![c] = @ + n] /\ (n = 0 => g = f)
  OBVIOUS

\* Balances that change for one creator only, by so much: what is pending,
\* and the rest.
BalancesChange(c, h, o) ==
  \A d \in Creators :
    /\ wallet'[d]["pending"] = wallet[d]["pending"] + (IF d = c THEN h ELSE 0)
    /\ wallet'[d]["available"] + wallet'[d]["locked"] =
         wallet[d]["available"] + wallet[d]["locked"]
           + (IF d = c THEN o ELSE 0)

\* What is held and what is owed change by so much.
LEMMA BalancesFollow ==
  ASSUME MoneyTypeOK, NEW c \in Creators, NEW h \in Int, NEW o \in Int,
         BalancesChange(c, h, o)
  PROVE  /\ Held' = [Held EXCEPT ![c] = @ + h]
         /\ Owed' = [Owed EXCEPT ![c] = @ + o]
         /\ h = 0 => Held' = Held
         /\ o = 0 => Owed' = Owed
<1>1. /\ wallet  \in [Creators -> [Buckets -> Int]]
      /\ \A d \in Creators :
           /\ wallet[d]["pending"] \in Int
           /\ wallet[d]["available"] + wallet[d]["locked"] \in Int
  BY DEF MoneyTypeOK, Buckets
<1>2. Held \in [Creators -> Int] /\ Owed \in [Creators -> Int]
  BY <1>1 DEF Held, Owed
<1>3. PICK held : held = Held'
  OBVIOUS
<1>4. PICK owed : owed = Owed'
  OBVIOUS
<1>5. /\ held = [d \in Creators |-> wallet'[d]["pending"]]
      /\ owed = [d \in Creators |-> wallet'[d]["available"] + wallet'[d]["locked"]]
  BY <1>3, <1>4 DEF Held, Owed
<1>6. /\ held \in [Creators -> Int]
      /\ \A d \in Creators : held[d] = Held[d] + (IF d = c THEN h ELSE 0)
  BY <1>1, <1>5 DEF Held, BalancesChange
<1>7. /\ owed \in [Creators -> Int]
      /\ \A d \in Creators : owed[d] = Owed[d] + (IF d = c THEN o ELSE 0)
  BY <1>1, <1>5 DEF Owed, BalancesChange
<1> QED
  BY <1>2, <1>3, <1>4, <1>6, <1>7, ChangedAt

\* Money moved between the buckets that are owed is not seen, and money moved
\* out of the pending bucket is owed.
LEMMA MoveFollows ==
  ASSUME MoneyTypeOK, NEW c \in Creators, NEW from \in Buckets,
         NEW to \in Buckets, from # to, to # "pending", NEW amt \in Int,
         WalletStep(c, Move(wallet[c], from, to, amt),
                       Move(entrySum[c], from, to, amt))
  PROVE  /\ from # "pending" => Held' = Held /\ Owed' = Owed
         /\ from = "pending" => /\ Held' = [Held EXCEPT ![c] = @ - amt]
                                /\ Owed' = [Owed EXCEPT ![c] = @ + amt]
<1>1. PICK n \in Int : n = 0 - amt
  OBVIOUS
<1>2. ASSUME NEW d \in Creators
      PROVE  /\ \A b \in Buckets :
                  wallet'[d][b] = IF d = c /\ b = from THEN wallet[d][b] - amt
                                  ELSE IF d = c /\ b = to THEN wallet[d][b] + amt
                                  ELSE wallet[d][b]
             /\ \A b \in Buckets : wallet[d][b] \in Int
  BY WalletAfterMove DEF MoneyTypeOK
<1>3. CASE from # "pending"
  <2>1. BalancesChange(c, 0, 0)
    BY <1>2, <1>3 DEF BalancesChange, Buckets
  <2>2. Held' = Held /\ Owed' = Owed
    BY <2>1, BalancesFollow
  <2> QED
    BY <1>3, <2>2
<1>4. CASE from = "pending"
  <2>1. BalancesChange(c, n, amt)
    BY <1>1, <1>2, <1>4 DEF BalancesChange, Buckets
  <2>2. Held' = [Held EXCEPT ![c] = @ + n] /\ Owed' = [Owed EXCEPT ![c] = @ + amt]
    BY <2>1, BalancesFollow
  <2>3. Held[c] + n = Held[c] - amt
    BY <1>1, <1>2 DEF Held, Buckets
  <2> QED
    BY <1>4, <2>2, <2>3
<1> QED
  BY <1>3, <1>4

\* Money that comes in is held, and money that leaves another bucket is no
\* longer owed.
LEMMA AddFollows ==
  ASSUME MoneyTypeOK, NEW c \in Creators, NEW bucket \in Buckets,
         NEW amt \in Int,
         WalletStep(c, Add(wallet[c], bucket, amt),
                       Add(entrySum[c], bucket, amt))
  PROVE  /\ bucket = "pending" => /\ Held' = [Held EXCEPT ![c] = @ + amt]
                                  /\ Owed' = Owed
         /\ bucket # "pending" => /\ Held' = Held
                                  /\ Owed' = [Owed EXCEPT ![c] = @ + amt]
<1>1. ASSUME NEW d \in Creators
      PROVE  /\ \A b \in Buckets :
                  wallet'[d][b] = IF d = c /\ b = bucket THEN wallet[d][b] + amt
                                  ELSE wallet[d][b]
             /\ \A b \in Buckets : wallet[d][b] \in Int
  BY WalletAfterAdd DEF MoneyTypeOK
<1>2. CASE bucket = "pending"
  <2>1. BalancesChange(c, amt, 0)
    BY <1>1, <1>2 DEF BalancesChange, Buckets
  <2> QED
    BY <1>2, <2>1, BalancesFollow
<1>3. CASE bucket # "pending"
  <2>1. BalancesChange(c, 0, amt)
    BY <1>1, <1>3 DEF BalancesChange, Buckets
  <2> QED
    BY <1>3, <2>1, BalancesFollow
<1> QED
  BY <1>2, <1>3

\* A withdrawal that moves along the table and is not paid by it leaves the
\* payouts as they are; one that is paid was not answered before.
LEMMA AnswersFollow ==
  ASSUME WithdrawalTypeOK, NEW w \in Withdrawals,
         NEW st \in {"PROCESSING", "COMPLETED", "REJECTED"},
         StatusMoves(w, st)
  PROVE  /\ w \notin Refused /\ \A p \in Payouts : p.for # w
         /\ Payouts' = IF st = "COMPLETED" THEN Payouts \cup {PayoutOf(w)}
                                          ELSE Payouts
         /\ Refused' = IF st = "REJECTED" THEN Refused \cup {w} ELSE Refused
<1>1. /\ withdrawal'[w].status = st
      /\ withdrawal[w].status \in {"PENDING", "PROCESSING"}
      /\ \A v \in Withdrawals \ {w} : withdrawal'[v].status = withdrawal[v].status
      /\ \A v \in Withdrawals : PayoutOf(v)' = PayoutOf(v)
  BY MayMoveMeans DEF WithdrawalTypeOK, StatusMoves, PayoutOf
<1>2. /\ w \notin PaidOut /\ w \notin Refused
      /\ PaidOut' = IF st = "COMPLETED" THEN PaidOut \cup {w} ELSE PaidOut
      /\ Refused' = IF st = "REJECTED" THEN Refused \cup {w} ELSE Refused
  BY <1>1 DEF PaidOut, Refused
<1>3. \A p \in Payouts : p.for # w
  BY <1>2 DEF Payouts, PayoutOf
<1>4. Payouts' = {PayoutOf(v) : v \in PaidOut'}
  <2>1. PaidOut' \subseteq Withdrawals
    BY DEF PaidOut
  <2> QED
    BY <1>1, <2>1 DEF Payouts
<1>5. Payouts' = IF st = "COMPLETED" THEN Payouts \cup {PayoutOf(w)}
                                     ELSE Payouts
  BY <1>2, <1>4 DEF Payouts
<1> QED
  BY <1>2, <1>3, <1>5

\* A captured payment is a credit.
LEMMA CaptureCredits ==
  ASSUME TypeOK, PostingsMatchRows, NEW s \in Supports, CompletePayment(s)
  PROVE  Promise!Credit(s)
<1> DEFINE c == CreatorOf[s]
<1>0. SupportTypeOK /\ MoneyTypeOK
  BY DEF TypeOK
<1>1. /\ c \in Creators /\ Net[s] \in Int
      /\ {"pending", "available", "locked"} \subseteq Buckets
  BY LedgerAssumption DEF Buckets
<1>2. WalletStep(c, Add(wallet[c], "pending", Net[s]),
                    Add(entrySum[c], "pending", Net[s]))
  BY DEF CompletePayment, RecordTransaction, WalletStep
<1>3. /\ s \notin Captured /\ Captured' = Captured \cup {s}
      /\ Released' = Released
  BY <1>0
     DEF CompletePayment, SupportTypeOK, PostingsMatchRows, Captured, Released
<1>4. Payouts' = Payouts /\ Refused' = Refused
  BY DEF CompletePayment, Payouts, PaidOut, PayoutOf, Refused
<1> HIDE DEF c
<1>5. Held' = [Held EXCEPT ![c] = @ + Net[s]] /\ Owed' = Owed
  BY <1>0, <1>1, <1>2, AddFollows
<1> QED
  BY <1>3, <1>4, <1>5, CreditRule DEF c

\* A settlement is a release.
LEMMA SettlementReleases ==
  ASSUME TypeOK, NEW s \in Supports, SettleSupport(s)
  PROVE  Promise!Release(s)
<1> DEFINE c == CreatorOf[s]
<1>0. SupportTypeOK /\ MoneyTypeOK
  BY DEF TypeOK
<1>1. /\ c \in Creators /\ Net[s] \in Int
      /\ {"pending", "available", "locked"} \subseteq Buckets
  BY LedgerAssumption DEF Buckets
<1>2. WalletStep(c, Move(wallet[c], "pending", "available", Net[s]),
                    Move(entrySum[c], "pending", "available", Net[s]))
  BY DEF SettleSupport, RecordTransaction, WalletStep
<1>3. /\ s \in Captured \ Released /\ Captured' = Captured
      /\ Released' = Released \cup {s}
  BY <1>0 DEF SettleSupport, SupportTypeOK, Captured, Released
<1>4. Payouts' = Payouts /\ Refused' = Refused
  BY DEF SettleSupport, Payouts, PaidOut, PayoutOf, Refused
<1>5. Net[s] <= Held[c]
  BY <1>0, <1>1 DEF SettleSupport, Held, MoneyTypeOK
<1> HIDE DEF c
<1>6. /\ Held' = [Held EXCEPT ![c] = @ - Net[s]]
      /\ Owed' = [Owed EXCEPT ![c] = @ + Net[s]]
  BY <1>0, <1>1, <1>2, MoveFollows
<1> QED
  BY <1>3, <1>4, <1>5, <1>6, ReleaseRule DEF c

\* A request locks money that stays owed: the contract does not see it.
LEMMA RequestIsUnseen ==
  ASSUME TypeOK, NEW w \in Withdrawals, NEW c \in Creators,
         NEW amt \in Amounts, NEW k, RequestWithdrawal(w, c, amt, k)
  PROVE  UNCHANGED Promise!vars
<1>0. WithdrawalTypeOK /\ MoneyTypeOK
  BY DEF TypeOK
<1>1. /\ amt \in Int
      /\ {"pending", "available", "locked"} \subseteq Buckets
  BY LedgerAssumption DEF Buckets
<1>2. WalletStep(c, Move(wallet[c], "available", "locked", amt),
                    Move(entrySum[c], "available", "locked", amt))
  BY DEF RequestWithdrawal, RecordTransaction, WalletStep
<1>3. Captured' = Captured /\ Released' = Released
  BY DEF RequestWithdrawal, Captured, Released
<1>4. /\ withdrawal[w].status = "NONE" /\ withdrawal'[w].status = "PENDING"
      /\ \A v \in Withdrawals \ {w} : withdrawal'[v] = withdrawal[v]
  BY <1>0 DEF RequestWithdrawal, WithdrawalTypeOK
<1>5. /\ PaidOut' = PaidOut /\ Refused' = Refused /\ w \notin PaidOut
      /\ \A v \in PaidOut : PayoutOf(v)' = PayoutOf(v)
  BY <1>4 DEF PaidOut, Refused, PayoutOf
<1>6. Payouts' = Payouts
  BY <1>5 DEF Payouts
<1>7. Held' = Held /\ Owed' = Owed
  BY <1>0, <1>1, <1>2, MoveFollows
<1> QED
  BY <1>3, <1>5, <1>6, <1>7, Unseen

\* A completed withdrawal is a payout of its amount to its owner, and the
\* money is owed, because it was locked and no balance is negative.
LEMMA CompletionPays ==
  ASSUME TypeOK, Reconciled, NEW w \in Withdrawals, NEW a \in Admins,
         CompleteWithdrawal(w, a)
  PROVE  \E c \in Creators : Promise!PayOut(w, c)
<1> DEFINE c   == withdrawal[w].owner
           amt == withdrawal[w].amount
<1>0. WithdrawalTypeOK /\ MoneyTypeOK
  BY DEF TypeOK
<1>1. /\ c \in Creators /\ amt \in Nat /\ amt \in Int /\ -amt \in Int
      /\ {"pending", "available", "locked"} \subseteq Buckets
  BY <1>0 DEF CompleteWithdrawal, MayMove, WithdrawalTypeOK, Buckets
<1>2. WalletStep(c, Add(wallet[c], "locked", -amt),
                    Add(entrySum[c], "locked", -amt))
  BY DEF CompleteWithdrawal, RecordTransaction, WalletStep
<1>3. /\ StatusMoves(w, "COMPLETED")
      /\ Captured' = Captured /\ Released' = Released
  BY DEF CompleteWithdrawal, StatusMoves, Captured, Released
<1>4. /\ w \notin Refused /\ \A p \in Payouts : p.for # w
      /\ Payouts' = Payouts \cup {PayoutOf(w)} /\ Refused' = Refused
  BY <1>0, <1>3, AnswersFollow
<1>5. PayoutOf(w) = [for |-> w, to |-> c, amount |-> amt]
  BY DEF PayoutOf
<1>6. amt \in 0 .. Owed[c]
  <2>1. wallet[c]["locked"] >= amt
    BY DEF CompleteWithdrawal
  <2> HIDE DEF c, amt
  <2> QED
    BY <1>0, <1>1, <2>1 DEF Reconciled, Owed, MoneyTypeOK
<1> HIDE DEF c, amt
<1>7. PICK n \in Int : n = -amt
  BY <1>1
<1>8. Held' = Held /\ Owed' = [Owed EXCEPT ![c] = @ + n]
  BY <1>0, <1>1, <1>2, <1>7, AddFollows
<1>9. Owed[c] + n = Owed[c] - amt
  BY <1>0, <1>1, <1>7 DEF Owed, MoneyTypeOK
<1> QED
  BY <1>1, <1>3, <1>4, <1>5, <1>6, <1>8, <1>9, PayOutRule

\* A rejected withdrawal is a refusal, and its money stays owed.
LEMMA RejectionRefuses ==
  ASSUME TypeOK, NEW w \in Withdrawals, NEW a \in Admins,
         RejectWithdrawal(w, a)
  PROVE  Promise!Refuse(w)
<1> DEFINE c   == withdrawal[w].owner
           amt == withdrawal[w].amount
<1>0. WithdrawalTypeOK /\ MoneyTypeOK
  BY DEF TypeOK
<1>1. /\ c \in Creators /\ amt \in Int
      /\ {"pending", "available", "locked"} \subseteq Buckets
  BY <1>0 DEF RejectWithdrawal, MayMove, WithdrawalTypeOK, Buckets
<1>2. WalletStep(c, Move(wallet[c], "locked", "available", amt),
                    Move(entrySum[c], "locked", "available", amt))
  BY DEF RejectWithdrawal, RecordTransaction, WalletStep
<1>3. /\ StatusMoves(w, "REJECTED")
      /\ Captured' = Captured /\ Released' = Released
  BY DEF RejectWithdrawal, StatusMoves, Captured, Released
<1>4. /\ w \notin Refused /\ \A p \in Payouts : p.for # w
      /\ Payouts' = Payouts /\ Refused' = Refused \cup {w}
  BY <1>0, <1>3, AnswersFollow
<1> HIDE DEF c, amt
<1>5. Held' = Held /\ Owed' = Owed
  BY <1>0, <1>1, <1>2, MoveFollows
<1> QED
  BY <1>3, <1>4, <1>5, RefuseRule

\* What changes a status only, or nothing, is not seen.
LEMMA OthersAreUnseen ==
  ASSUME TypeOK,
         \/ \E s \in Supports : MarkPaymentFailed(s)
         \/ \E w \in Withdrawals, a \in Admins : MoveToProcessing(w, a)
         \/ UNCHANGED vars
  PROVE  UNCHANGED Promise!vars
<1>0. SupportTypeOK /\ WithdrawalTypeOK
  BY DEF TypeOK
<1>1. wallet' = wallet
  BY DEF MarkPaymentFailed, MoveToProcessing, moneyVars, vars
<1>2. Held' = Held /\ Owed' = Owed
  BY <1>1 DEF Held, Owed
<1>3. Captured' = Captured /\ Released' = Released
  BY <1>0
     DEF MarkPaymentFailed, MoveToProcessing, vars, SupportTypeOK, Captured,
         Released
<1>4. Payouts' = Payouts /\ Refused' = Refused
  <2>1. ASSUME NEW w \in Withdrawals, NEW a \in Admins, MoveToProcessing(w, a)
        PROVE  Payouts' = Payouts /\ Refused' = Refused
    <3>1. StatusMoves(w, "PROCESSING")
      BY <2>1 DEF MoveToProcessing, StatusMoves
    <3> QED
      BY <1>0, <3>1, AnswersFollow
  <2>2. CASE withdrawal' = withdrawal
    BY <2>2 DEF Payouts, PaidOut, PayoutOf, Refused
  <2> QED
    BY <2>1, <2>2 DEF MarkPaymentFailed, vars
<1> QED
  BY <1>2, <1>3, <1>4, Unseen

\* No money, no answers initially.
LEMMA InitPromise == Init => Promise!ContractInit
<1> SUFFICES ASSUME Init PROVE Promise!ContractInit
    OBVIOUS
<1>1. /\ Held = [c \in Creators |-> 0]
      /\ Owed = [c \in Creators |-> 0]
  BY DEF Init, Held, Owed, Zero, Buckets
<1>2. Captured = {} /\ Released = {} /\ PaidOut = {} /\ Refused = {}
  BY DEF Init, Captured, Released, PaidOut, Refused, NoWithdrawal
<1>3. Payouts = {}
  BY <1>2 DEF Payouts
<1> QED
  BY <1>1, <1>2, <1>3, Zenon
     DEF Promise!ContractInit, Held, Owed, Captured, Released, Payouts,
         PaidOut, Refused

\* Every transaction is a step of the contract or none.
LEMMA NextPromise ==
  TypeOK /\ Reconciled /\ PostingsMatchRows /\ [Next]_vars
    => [Promise!ContractNext]_Promise!vars
<1> SUFFICES ASSUME TypeOK, Reconciled, PostingsMatchRows, [Next]_vars
             PROVE  Promise!ContractNext \/ UNCHANGED Promise!vars
    OBVIOUS
<1>1. CASE \E s \in Supports : CompletePayment(s) \/ SettleSupport(s)
  BY <1>1, CaptureCredits, SettlementReleases DEF Promise!ContractNext
<1>2. CASE \/ \E s \in Supports : MarkPaymentFailed(s)
           \/ \E w \in Withdrawals, a \in Admins : MoveToProcessing(w, a)
           \/ UNCHANGED vars
  BY <1>2, OthersAreUnseen
<1>3. CASE \E w \in Withdrawals, c \in Creators, amt \in Amounts,
              k \in Keys \cup {NoKey} : RequestWithdrawal(w, c, amt, k)
  BY <1>3, RequestIsUnseen
<1>4. CASE \E w \in Withdrawals, a \in Admins :
             CompleteWithdrawal(w, a) \/ RejectWithdrawal(w, a)
  BY <1>4, CompletionPays, RejectionRefuses DEF Promise!ContractNext
<1> QED
  BY <1>1, <1>2, <1>3, <1>4 DEF Next

\* The tables keep the promise to every creator: a captured payment is
\* credited once and released once, and a withdrawal is answered once, by a
\* payout of money that was released and not paid, or by a refusal.
THEOREM LedgerKeepsContract == Spec => KeepsLedgerContract
<1>1. Init => TypeOK /\ Reconciled /\ PostingsMatchRows /\ Promise!ContractInit
  BY InitTypeOK, InitReconciled, InitPostings, InitPromise
<1>2. TypeOK /\ Reconciled /\ PostingsMatchRows /\ [Next]_vars
        => (TypeOK /\ Reconciled /\ PostingsMatchRows)'
  BY NextTypeOK, NextReconciled, NextPostings
<1> QED
  BY <1>1, <1>2, NextPromise, PTL
     DEF Spec, KeepsLedgerContract, Promise!ContractSpec
=============================================================================
