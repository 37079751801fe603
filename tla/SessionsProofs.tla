--------------------------- MODULE SessionsProofs ---------------------------
(***************************************************************************)
(* Proofs about Sessions for any number of overlapping calls and any cap.  *)
(***************************************************************************)
EXTENDS Sessions, FiniteSetTheorems, TLAPS

\* Calls that will add a session whatever the table holds by then.
Pending == {c \in Calls : call[c].pc = "create"}

\* The strengthening of SessionsBounded: a call that is past the count, or has
\* evicted a session, has its place reserved.
RoomReserved ==
  Len(sessions) + Cardinality(Pending) <= MaxSessions + Cardinality(Calls) - 1

-----------------------------------------------------------------------------
(* Lemmas about the sequence of sessions. *)

\* Removing one row: the others stay, in their order.
LEMMA DropLemma ==
  ASSUME sessions \in Seq(Session), NEW i \in DOMAIN sessions, Drop(i)
  PROVE  /\ sessions' \in Seq(Session)
         /\ Len(sessions') = Len(sessions) - 1
         /\ \A j \in DOMAIN sessions' :
              sessions'[j] = sessions[IF j < i THEN j ELSE j + 1]
<1> DEFINE front == SubSeq(sessions, 1, i - 1)
           back  == SubSeq(sessions, i + 1, Len(sessions))
<1>1. i \in 1 .. Len(sessions) /\ Len(sessions) \in Nat
  OBVIOUS
<1>2. /\ front \in Seq(Session)
      /\ Len(front) = i - 1
      /\ \A j \in 1 .. (i - 1) : front[j] = sessions[j]
  BY <1>1
<1>3. /\ back \in Seq(Session)
      /\ Len(back) = Len(sessions) - i
      /\ \A j \in 1 .. (Len(sessions) - i) : back[j] = sessions[i + j]
  BY <1>1
<1>4. sessions' = front \o back
  BY DEF Drop, RemoveAt
<1> HIDE DEF front, back
<1>5. /\ sessions' \in Seq(Session)
      /\ Len(sessions') = Len(sessions) - 1
  BY <1>1, <1>2, <1>3, <1>4
<1>6. ASSUME NEW j \in DOMAIN sessions'
      PROVE  sessions'[j] = sessions[IF j < i THEN j ELSE j + 1]
  <2>1. j \in 1 .. (Len(sessions) - 1)
    BY <1>5
  <2>2. CASE j < i
    BY <2>1, <2>2, <1>1, <1>2, <1>3, <1>4
  <2>3. CASE ~(j < i)
    <3>1. sessions'[j] = back[j - (i - 1)]
      BY <2>1, <2>3, <1>1, <1>2, <1>3, <1>4
    <3>2. j - (i - 1) \in 1 .. (Len(sessions) - i)
      BY <2>1, <2>3, <1>1
    <3>3. i + (j - (i - 1)) = j + 1
      BY <2>1, <1>1
    <3> QED BY <3>1, <3>2, <3>3, <1>3, <2>3
  <2> QED BY <2>2, <2>3
<1> QED BY <1>5, <1>6

\* A generated token is fresh.
LEMMA NewTokenLemma ==
  FreshTokens # {} => NewToken \in FreshTokens
BY Zenon DEF NewToken

-----------------------------------------------------------------------------
(* Type correctness. *)

\* What a call may become in a step.
LEMMA CallStateLemma ==
  /\ Idle \in CallState
  /\ \A r \in CallState :
       /\ \A p \in Steps : [r EXCEPT !.pc = p] \in CallState
       /\ \A t \in Tokens \cup {NoToken} : [r EXCEPT !.victim = t] \in CallState
       /\ \A g \in Nat : [r EXCEPT !.gen = g] \in CallState
       /\ \A b \in BOOLEAN : [r EXCEPT !.overtaken = b] \in CallState
<1>1. Idle \in CallState
  BY DEF Idle, CallState, Steps
<1>2. ASSUME NEW r \in CallState
      PROVE  /\ \A p \in Steps : [r EXCEPT !.pc = p] \in CallState
             /\ \A t \in Tokens \cup {NoToken} :
                  [r EXCEPT !.victim = t] \in CallState
             /\ \A g \in Nat : [r EXCEPT !.gen = g] \in CallState
             /\ \A b \in BOOLEAN : [r EXCEPT !.overtaken = b] \in CallState
  BY DEF CallState, Steps
<1> QED BY <1>1, <1>2

\* One call changes its state.
LEMMA OneCallLemma ==
  ASSUME call \in [Calls -> CallState], NEW c \in Calls, NEW r \in CallState,
         call' = [call EXCEPT ![c] = r]
  PROVE  call' \in [Calls -> CallState]
OBVIOUS

\* All other calls may be marked.
LEMMA OvertakenLemma ==
  ASSUME call \in [Calls -> CallState], NEW c \in Calls, call' = Overtaken(c)
  PROVE  call' \in [Calls -> CallState]
<1>1. ASSUME NEW d \in Calls
      PROVE  (IF d = c THEN Idle
                ELSE [call[d] EXCEPT !.overtaken = @ \/ d \in Issuing])
               \in CallState
  <2>1. (call[d].overtaken \/ d \in Issuing) \in BOOLEAN
    OBVIOUS
  <2>2. [call[d] EXCEPT !.overtaken = @ \/ d \in Issuing] \in CallState
    BY <2>1, CallStateLemma
  <2> QED BY <2>2, CallStateLemma
<1> QED BY <1>1, Zenon DEF Overtaken

\* The steps that change no more of a call than where it is.
LEMMA GotoLemma ==
  ASSUME call \in [Calls -> CallState], NEW c \in Calls
  PROVE  /\ \A p \in Steps : Goto(c, p) => call' \in [Calls -> CallState]
         /\ Answer(c) => call' \in [Calls -> CallState]
<1>1. ASSUME NEW p \in Steps, Goto(c, p)
      PROVE  call' \in [Calls -> CallState]
  <2>1. [call[c] EXCEPT !.pc = p] \in CallState
    BY CallStateLemma
  <2> QED BY <1>1, <2>1, OneCallLemma DEF Goto
<1>2. Answer(c) => call' \in [Calls -> CallState]
  BY CallStateLemma, OneCallLemma DEF Answer
<1> QED BY <1>1, <1>2

\* Every step keeps the shape of the rows and of the calls.
LEMMA TypeStep ==
  SessionsTypeOK /\ [Next]_vars => SessionsTypeOK'
<1> SUFFICES ASSUME SessionsTypeOK, [Next]_vars
             PROVE  SessionsTypeOK'
  OBVIOUS
<1> USE SessionsAssumption DEF SessionsTypeOK
<1>1. CASE DropSession
  BY <1>1, DropLemma DEF DropSession
<1>2. CASE LogoutAll
  BY <1>2 DEF LogoutAll, RevokeAll
<1>3. CASE DropLink \/ ForgotPassword
  BY <1>3 DEF DropLink, ForgotPassword
<1>4. ASSUME NEW c \in Calls, Login(c)
      PROVE  SessionsTypeOK'
  <2>1. [Idle EXCEPT !.pc = "count", !.gen = password] \in CallState
    BY DEF Idle, CallState, Steps
  <2> QED BY <1>4, <2>1, OneCallLemma DEF Login
<1>5. ASSUME NEW c \in Calls, Refresh(c)
      PROVE  SessionsTypeOK'
  <2>1. PICK i \in DOMAIN sessions :
          call' = [call EXCEPT ![c] = [Idle EXCEPT
                     !.pc        = "rotate",
                     !.token     = sessions[i].token,
                     !.gen       = sessions[i].gen,
                     !.overtaken = sessions[i].overtaken]]
    BY <1>5 DEF Refresh
  <2>2. sessions[i] \in Session
    OBVIOUS
  <2>3. [Idle EXCEPT !.pc        = "rotate",
                     !.token     = sessions[i].token,
                     !.gen       = sessions[i].gen,
                     !.overtaken = sessions[i].overtaken] \in CallState
    BY <2>2 DEF Session, Idle, CallState, Steps
  <2> QED BY <1>5, <2>1, <2>3, OneCallLemma DEF Refresh
<1>6. ASSUME NEW c \in Calls, Rotate(c)
      PROVE  SessionsTypeOK'
  <2>1. sessions' \in Seq(Session)
    BY <1>6, DropLemma DEF Rotate, IndicesOf
  <2>2. call' \in [Calls -> CallState]
    BY <1>6, GotoLemma DEF Rotate, Steps
  <2> QED BY <1>6, <2>1, <2>2 DEF Rotate
<1>7. ASSUME NEW c \in Calls, CountSessions(c)
      PROVE  SessionsTypeOK'
  <2>1. call' \in [Calls -> CallState]
    BY <1>7, GotoLemma DEF CountSessions, Steps
  <2> QED BY <1>7, <2>1 DEF CountSessions
<1>8. ASSUME NEW c \in Calls, FindOldest(c)
      PROVE  SessionsTypeOK'
  <2>1. CASE sessions = <<>>
    <3>1. call' \in [Calls -> CallState]
      BY <1>8, <2>1, GotoLemma DEF FindOldest, Steps
    <3> QED BY <1>8, <3>1 DEF FindOldest
  <2>2. CASE sessions # <<>>
    <3>1. sessions[1].token \in Tokens
      <4>1. sessions[1] \in Session
        BY <2>2
      <4> QED BY <4>1 DEF Session
    <3>2. [call[c] EXCEPT !.pc = "evict", !.victim = sessions[1].token]
            \in CallState
      <4>1. call[c] \in CallState
        OBVIOUS
      <4> HIDE DEF SessionsTypeOK
      <4> QED BY <3>1, <4>1 DEF CallState, Steps
    <3>3. call' \in [Calls -> CallState]
      BY <1>8, <2>2, <3>2, OneCallLemma DEF FindOldest
    <3> QED BY <1>8, <3>3 DEF FindOldest
  <2> QED BY <2>1, <2>2
<1>9. ASSUME NEW c \in Calls, Evict(c)
      PROVE  SessionsTypeOK'
  <2>1. sessions' \in Seq(Session)
    BY <1>9, DropLemma DEF Evict, IndicesOf
  <2>2. [call[c] EXCEPT !.pc = "create", !.victim = NoToken] \in CallState
    BY DEF CallState, Steps
  <2>3. call' \in [Calls -> CallState]
    BY <1>9, <2>2, OneCallLemma, GotoLemma DEF Evict
  <2> QED BY <1>9, <2>1, <2>3 DEF Evict
<1>10. ASSUME NEW c \in Calls, CreateSession(c)
       PROVE  SessionsTypeOK'
  <2>1. NewToken \in Tokens
    BY <1>10, NewTokenLemma DEF CreateSession, FreshTokens
  <2>2. [token     |-> NewToken,
         gen       |-> call[c].gen,
         overtaken |-> call[c].overtaken] \in Session
    BY <2>1 DEF Session, CallState
  <2>3. sessions' \in Seq(Session)
    BY <1>10, <2>2 DEF CreateSession
  <2>4. call' \in [Calls -> CallState]
    BY <1>10, GotoLemma DEF CreateSession
  <2> QED BY <1>10, <2>3, <2>4 DEF CreateSession
<1>11. ASSUME NEW c \in Calls, ChangePassword(c)
       PROVE  SessionsTypeOK'
  <2>1. [Idle EXCEPT !.pc = "update"] \in CallState
    BY DEF Idle, CallState, Steps
  <2> QED BY <1>11, <2>1, OneCallLemma DEF ChangePassword
<1>12. ASSUME NEW c \in Calls, UpdatePassword(c)
       PROVE  SessionsTypeOK'
  <2>1. [call[c] EXCEPT !.pc = "revoke", !.gen = password + 1] \in CallState
    <3>1. call[c] \in CallState /\ password + 1 \in Nat
      OBVIOUS
    <3> HIDE DEF SessionsTypeOK
    <3> QED BY <3>1 DEF CallState, Steps
  <2>2. call' \in [Calls -> CallState]
    BY <1>12, <2>1, OneCallLemma DEF UpdatePassword
  <2> QED BY <1>12, <2>2 DEF UpdatePassword
<1>13. ASSUME NEW c \in Calls, RevokeSessions(c)
       PROVE  SessionsTypeOK'
  <2>1. call' \in [Calls -> CallState]
    BY <1>13, OvertakenLemma DEF RevokeSessions
  <2>2. call[c].gen \in Nat
    BY DEF CallState
  <2> QED BY <1>13, <2>1, <2>2 DEF RevokeSessions, RevokeAll
<1>14. ASSUME NEW c \in Calls, ResetPassword(c)
       PROVE  SessionsTypeOK'
  <2>1. PICK t \in resets :
          call' = [call EXCEPT ![c] = [Idle EXCEPT !.pc    = "reset",
                                                   !.token = t,
                                                   !.gen   = revoked]]
    BY <1>14 DEF ResetPassword
  <2>2. [Idle EXCEPT !.pc = "reset", !.token = t, !.gen = revoked] \in CallState
    BY DEF Idle, CallState, Steps
  <2> QED BY <1>14, <2>1, <2>2, OneCallLemma DEF ResetPassword
<1>15. ASSUME NEW c \in Calls, CommitReset(c)
       PROVE  SessionsTypeOK'
  <2>1. call' \in [Calls -> CallState]
    BY <1>15, OvertakenLemma DEF CommitReset
  <2> QED BY <1>15, <2>1 DEF CommitReset, RevokeAll
<1>16. ASSUME NEW c \in Calls, Fail(c)
       PROVE  SessionsTypeOK'
  BY <1>16, GotoLemma DEF Fail
<1>17. CASE UNCHANGED vars
  BY <1>17 DEF vars
<1> QED
  BY <1>1, <1>2, <1>3, <1>4, <1>5, <1>6, <1>7, <1>8, <1>9, <1>10, <1>11,
     <1>12, <1>13, <1>14, <1>15, <1>16, <1>17 DEF Next

\* Whatever calls overlap, the rows keep their shape (all of auth.service.ts's
\* queries on the session table).
THEOREM SessionsTyping == Spec => []SessionsTypeOK
<1>1. Init => SessionsTypeOK
  BY CallStateLemma DEF Init, SessionsTypeOK
<1> QED BY <1>1, TypeStep, PTL DEF Spec

-----------------------------------------------------------------------------
(* The bound on the number of sessions. *)

\* How the number of pending calls may change.
LEMMA PendingLemma ==
  /\ Cardinality(Pending) \in Nat
  /\ Cardinality(Pending') \in Nat
  /\ Cardinality(Calls) \in Nat \ {0}
  /\ Cardinality(Pending') <= Cardinality(Calls)
  /\ Pending' \subseteq Pending => Cardinality(Pending') <= Cardinality(Pending)
  /\ \A c \in Calls :
       /\ Pending' \subseteq Pending \cup {c}
            => Cardinality(Pending') <= Cardinality(Pending) + 1
       /\ c \in Pending /\ Pending' \subseteq Pending \ {c}
            => Cardinality(Pending') <= Cardinality(Pending) - 1
<1>1. /\ IsFiniteSet(Calls)
      /\ Pending \subseteq Calls
      /\ Pending' \subseteq Calls
  BY SessionsAssumption DEF Pending
<1>2. IsFiniteSet(Pending) /\ IsFiniteSet(Pending')
  BY <1>1, FS_Subset
<1>3. /\ Cardinality(Pending) \in Nat
      /\ Cardinality(Pending') \in Nat
      /\ Cardinality(Calls) \in Nat
      /\ Cardinality(Pending') <= Cardinality(Calls)
  BY <1>1, <1>2, FS_CardinalityType, FS_Subset
<1>4. Cardinality(Calls) # 0
  BY <1>1, FS_EmptySet, SessionsAssumption
<1>5. Pending' \subseteq Pending => Cardinality(Pending') <= Cardinality(Pending)
  BY <1>2, FS_Subset
<1>6. ASSUME NEW c \in Calls
      PROVE  /\ Pending' \subseteq Pending \cup {c}
                  => Cardinality(Pending') <= Cardinality(Pending) + 1
             /\ c \in Pending /\ Pending' \subseteq Pending \ {c}
                  => Cardinality(Pending') <= Cardinality(Pending) - 1
  <2>1. /\ IsFiniteSet(Pending \cup {c})
        /\ Cardinality(Pending \cup {c}) <= Cardinality(Pending) + 1
    <3>1. /\ IsFiniteSet(Pending \cup {c})
          /\ Cardinality(Pending \cup {c}) =
               IF c \in Pending THEN Cardinality(Pending)
                                ELSE Cardinality(Pending) + 1
      BY <1>2, FS_AddElement
    <3> QED BY <3>1, <1>3
  <2>2. Pending' \subseteq Pending \cup {c}
          => Cardinality(Pending') <= Cardinality(Pending \cup {c})
    BY <2>1, FS_Subset
  <2>3. Cardinality(Pending \cup {c}) \in Nat
    BY <2>1, FS_CardinalityType
  <2>4. /\ IsFiniteSet(Pending \ {c})
        /\ Cardinality(Pending \ {c}) =
             IF c \in Pending THEN Cardinality(Pending) - 1
                              ELSE Cardinality(Pending)
    BY <1>2, FS_RemoveElement
  <2>5. Pending' \subseteq Pending \ {c}
          => Cardinality(Pending') <= Cardinality(Pending \ {c})
    BY <2>4, FS_Subset
  <2> QED BY <2>1, <2>2, <2>3, <2>4, <2>5, <1>3
<1> QED BY <1>3, <1>4, <1>5, <1>6

\* A call that does not reach its last step leaves the others' places alone.
LEMMA KeepsPending ==
  ASSUME NEW c \in Calls, call'[c].pc # "create",
         \A d \in Calls \ {c} : call'[d] = call[d]
  PROVE  Pending' \subseteq Pending
BY DEF Pending

\* No step takes a place that is not there.
LEMMA RoomStep ==
  SessionsTypeOK /\ RoomReserved /\ [Next]_vars => RoomReserved'
<1> SUFFICES ASSUME SessionsTypeOK, RoomReserved, [Next]_vars
             PROVE  RoomReserved'
  OBVIOUS
<1> USE SessionsAssumption, PendingLemma DEF RoomReserved
<1>1. Len(sessions) \in Nat /\ call \in [Calls -> CallState]
  BY DEF SessionsTypeOK
<1>2. \A i \in DOMAIN sessions : Drop(i) => Len(sessions') = Len(sessions) - 1
  BY DropLemma DEF SessionsTypeOK
<1>3. ASSUME Len(sessions') <= Len(sessions), Len(sessions') \in Nat,
             Pending' \subseteq Pending
      PROVE  RoomReserved'
  BY <1>1, <1>3
<1>4. CASE DropSession
  BY <1>1, <1>2, <1>4 DEF DropSession, Pending, SessionsTypeOK
<1>5. CASE LogoutAll
  BY <1>1, <1>3, <1>5 DEF LogoutAll, RevokeAll, Pending
<1>6. CASE DropLink \/ ForgotPassword
  BY <1>1, <1>3, <1>6 DEF DropLink, ForgotPassword, Pending
<1>7. ASSUME NEW c \in Calls,
             \/ Login(c) \/ Refresh(c) \/ ChangePassword(c)
             \/ UpdatePassword(c) \/ ResetPassword(c) \/ Fail(c)
      PROVE  RoomReserved'
  <2>1. sessions' = sessions /\ \A d \in Calls \ {c} : call'[d] = call[d]
    BY <1>1, <1>7 DEF Login, Refresh, ChangePassword, UpdatePassword,
                      ResetPassword, Fail, Answer
  <2>2. call'[c].pc # "create"
    <3>1. CASE Login(c) \/ ChangePassword(c)
      BY <1>1, <3>1 DEF Login, ChangePassword, Idle
    <3>2. CASE Refresh(c)
      BY <1>1, <3>2 DEF Refresh, Idle
    <3>3. CASE UpdatePassword(c)
      BY <1>1, <3>3 DEF UpdatePassword, CallState
    <3>4. CASE ResetPassword(c)
      BY <1>1, <3>4 DEF ResetPassword, Idle
    <3>5. CASE Fail(c)
      BY <1>1, <3>5 DEF Fail, Answer, Idle
    <3> QED BY <1>7, <3>1, <3>2, <3>3, <3>4, <3>5
  <2>3. Pending' \subseteq Pending
    BY <2>1, <2>2, KeepsPending
  <2> QED BY <2>1, <2>3, <1>1, <1>3
<1>8. ASSUME NEW c \in Calls, Rotate(c)
      PROVE  RoomReserved'
  <2>1. Pending' \subseteq Pending
    <3>1. \A d \in Calls \ {c} : call'[d] = call[d]
      BY <1>1, <1>8 DEF Rotate, Goto, Answer
    <3>2. call'[c].pc # "create"
      <4>1. CASE Goto(c, "count")
        BY <1>1, <4>1 DEF Goto, CallState
      <4>2. CASE Answer(c)
        BY <1>1, <4>2 DEF Answer, Idle
      <4> QED BY <1>8, <4>1, <4>2 DEF Rotate
    <3> QED BY <3>1, <3>2, KeepsPending
  <2>2. Len(sessions') <= Len(sessions) /\ Len(sessions') \in Nat
    BY <1>1, <1>2, <1>8 DEF Rotate, IndicesOf, SessionsTypeOK
  <2> QED BY <2>1, <2>2, <1>3
<1>9. ASSUME NEW c \in Calls, CountSessions(c) \/ FindOldest(c)
      PROVE  RoomReserved'
  <2>1. sessions' = sessions
    BY <1>9 DEF CountSessions, FindOldest
  <2>2. CASE Len(sessions) < MaxSessions
    BY <2>1, <2>2, <1>1
  <2>3. CASE ~(Len(sessions) < MaxSessions)
    <3>1. sessions # <<>>
      BY <2>3
    <3>2. Pending' \subseteq Pending
      <4>1. \A d \in Calls \ {c} : call'[d] = call[d]
        BY <1>1, <1>9 DEF CountSessions, FindOldest, Goto
      <4>2. CASE CountSessions(c)
        <5>1. Goto(c, "find")
          BY <2>3, <1>1, <4>2 DEF CountSessions
        <5>2. call'[c].pc # "create"
          BY <1>1, <5>1 DEF Goto, CallState
        <5> QED BY <4>1, <5>2, KeepsPending
      <4>3. CASE FindOldest(c)
        <5>1. call'[c].pc # "create"
          BY <1>1, <3>1, <4>3 DEF FindOldest, CallState
        <5> QED BY <4>1, <5>1, KeepsPending
      <4> QED BY <1>9, <4>2, <4>3
    <3> QED BY <2>1, <3>2, <1>1, <1>3
  <2> QED BY <2>2, <2>3
<1>10. ASSUME NEW c \in Calls, Evict(c)
       PROVE  RoomReserved'
  <2>1. CASE \E i \in IndicesOf(call[c].victim) : Drop(i)
    <3>1. Len(sessions') = Len(sessions) - 1 /\ Len(sessions') \in Nat
      BY <2>1, <1>1, <1>2, TypeStep DEF IndicesOf, SessionsTypeOK
    <3>2. Pending' \subseteq Pending \cup {c}
      BY <1>1, <1>10 DEF Evict, Answer, Idle, Pending
    <3> QED BY <3>1, <3>2, <1>1
  <2>2. CASE ~ \E i \in IndicesOf(call[c].victim) : Drop(i)
    <3>1. Pending' \subseteq Pending /\ sessions' = sessions
      BY <2>2, <1>1, <1>10 DEF Evict, Answer, Idle, Pending
    <3> QED BY <3>1, <1>1, <1>3
  <2> QED BY <2>1, <2>2
<1>11. ASSUME NEW c \in Calls, CreateSession(c)
       PROVE  RoomReserved'
  <2>1. Len(sessions') = Len(sessions) + 1
    BY <1>11 DEF CreateSession, SessionsTypeOK
  <2>2. c \in Pending /\ Pending' \subseteq Pending \ {c}
    BY <1>1, <1>11 DEF CreateSession, Answer, Idle, Pending
  <2> QED BY <2>1, <2>2, <1>1
<1>12. ASSUME NEW c \in Calls, RevokeSessions(c) \/ CommitReset(c)
       PROVE  RoomReserved'
  <2>1. sessions' = <<>> /\ call' = Overtaken(c)
    BY <1>12 DEF RevokeSessions, CommitReset, RevokeAll
  <2>2. Pending' \subseteq Pending
    BY <2>1, <1>1 DEF Overtaken, Idle, CallState, Pending
  <2> QED BY <2>1, <2>2, <1>1, <1>3
<1>13. CASE UNCHANGED vars
  BY <1>1, <1>3, <1>13 DEF vars, Pending
<1> QED
  BY <1>4, <1>5, <1>6, <1>7, <1>8, <1>9, <1>10, <1>11, <1>12, <1>13 DEF Next

\* However many calls overlap and wherever they fail, the sessions exceed
\* MAX_SESSIONS by fewer than the calls that can be under way (issueTokens).
THEOREM SessionsStayBounded == Spec => []SessionsBounded
<1>1. Init => RoomReserved
  <2> SUFFICES ASSUME Init PROVE RoomReserved
    OBVIOUS
  <2>1. Pending = {} /\ Len(sessions) = 0
    BY DEF Init, Idle, Pending
  <2> QED BY <2>1, FS_EmptySet, PendingLemma, SessionsAssumption DEF RoomReserved
<1>2. SessionsTypeOK /\ RoomReserved => SessionsBounded
  BY PendingLemma, SessionsAssumption
     DEF SessionsTypeOK, RoomReserved, SessionsBounded
<1> QED BY <1>1, <1>2, RoomStep, SessionsTyping, PTL DEF Spec

-----------------------------------------------------------------------------
(* What calls know of the rows while others change them. *)

TokensUnique ==
  \A i, j \in DOMAIN sessions : sessions[i].token = sessions[j].token => i = j

\* What is true of a call wherever it is: the token it exchanged is gone, its
\* victim is the oldest session or gone, what it brings along is no older than
\* the last revocation unless that overtook it, and its link is no older either.
CallKnows(c) ==
  /\ c \in Issuing /\ call[c].token # NoToken => IndicesOf(call[c].token) = {}
  /\ call[c].pc = "evict" => IndicesOf(call[c].victim) \subseteq {1}
  /\ c \in Issuing /\ call[c].gen < revoked => call[c].overtaken
  /\ call[c].pc = "rotate" /\ call[c].gen < revoked =>
       call[c].overtaken \/ IndicesOf(call[c].token) = {}
  /\ call[c].pc = "revoke" => call[c].gen <= password
  /\ call[c].pc = "reset" /\ call[c].token \in resets => call[c].gen = revoked

SessionsInv ==
  /\ SessionsTypeOK
  /\ TokensUnique
  /\ TokenExchangedOnce
  /\ SurvivorsWereOvertaken
  /\ revoked <= password
  /\ \A c \in Calls : CallKnows(c)

\* Rows go, in any order; the new one is unlike all that is known.
Changes ==
  \/ UNCHANGED sessions
  \/ \E i \in DOMAIN sessions : Drop(i)
  \/ sessions' = <<>>
  \/ \E c \in Calls : CreateSession(c)

LEMMA ChangesLemma == [Next]_vars => Changes
<1>1. \A i \in DOMAIN sessions : Drop(i) => Changes
  BY DEF Changes
<1>2. \A t : \A i \in IndicesOf(t) : i \in DOMAIN sessions
  BY DEF IndicesOf
<1>3. ASSUME NEW c \in Calls
      PROVE  /\ Login(c) \/ Refresh(c) \/ CountSessions(c) \/ FindOldest(c)
                \/ ChangePassword(c) \/ UpdatePassword(c) \/ ResetPassword(c) \/ Fail(c)
                => UNCHANGED sessions
             /\ Rotate(c) \/ Evict(c) => Changes
             /\ RevokeSessions(c) \/ CommitReset(c) => sessions' = <<>>
  <2>1. Rotate(c) => Changes
    BY <1>1, <1>2 DEF Rotate, Changes
  <2>2. Evict(c) => Changes
    BY <1>1, <1>2 DEF Evict, Changes
  <2> QED
    BY <2>1, <2>2 DEF Login, Refresh, CountSessions, FindOldest, ChangePassword,
       UpdatePassword, ResetPassword, Fail, RevokeSessions, CommitReset, RevokeAll
<1>4. DropSession => Changes
  BY <1>1 DEF DropSession
<1>5. LogoutAll => sessions' = <<>>
  BY DEF LogoutAll, RevokeAll
<1>6. DropLink \/ ForgotPassword \/ UNCHANGED vars => UNCHANGED sessions
  BY DEF DropLink, ForgotPassword, vars
<1> QED BY <1>3, <1>4, <1>5, <1>6 DEF Next, Changes

\* Each row of the next state is one of this state, or the new one.
LEMMA RowsLemma ==
  ASSUME SessionsTypeOK, SessionsTypeOK', TokensUnique, [Next]_vars
  PROVE  /\ TokensUnique'
         /\ \A c \in Calls : \A t \in {call[c].token, call[c].victim} :
              /\ IndicesOf(t) = {} => IndicesOf(t)' = {}
              /\ IndicesOf(t) \subseteq {1} => IndicesOf(t)' \subseteq {1}
         /\ \/ \A j \in DOMAIN sessions' : \E i \in DOMAIN sessions : sessions'[j] = sessions[i]
            \/ \E c \in Calls : CreateSession(c)
<1> USE DEF SessionsTypeOK
<1>1. CASE UNCHANGED sessions
  BY <1>1 DEF TokensUnique, IndicesOf
<1>2. ASSUME NEW k \in DOMAIN sessions, Drop(k)
      PROVE  /\ TokensUnique'
             /\ \A t : /\ IndicesOf(t) = {} => IndicesOf(t)' = {}
                       /\ IndicesOf(t) \subseteq {1} => IndicesOf(t)' \subseteq {1}
             /\ \A j \in DOMAIN sessions' : \E i \in DOMAIN sessions : sessions'[j] = sessions[i]
  <2> DEFINE old(j) == IF j < k THEN j ELSE j + 1
  <2>1. /\ DOMAIN sessions = 1 .. Len(sessions) /\ DOMAIN sessions' = 1 .. (Len(sessions) - 1)
        /\ Len(sessions) \in Nat
    BY <1>2, DropLemma
  <2>2. \A j \in DOMAIN sessions' : old(j) \in DOMAIN sessions /\ sessions'[j] = sessions[old(j)]
    <3>1. \A j \in DOMAIN sessions' : old(j) \in DOMAIN sessions
      BY <2>1
    <3>2. \A j \in DOMAIN sessions' : sessions'[j] = sessions[IF j < k THEN j ELSE j + 1]
      BY <1>2, DropLemma
    <3> QED BY <3>1, <3>2
  <2>3. \A i, j \in DOMAIN sessions' : old(i) = old(j) => i = j
    BY <2>1
  <2>4. \A j \in DOMAIN sessions' : old(j) = 1 => j = 1
    BY <2>1
  <2> HIDE DEF old
  <2>5. TokensUnique'
    BY <2>2, <2>3 DEF TokensUnique
  <2>6. ASSUME NEW t
        PROVE  /\ IndicesOf(t) = {} => IndicesOf(t)' = {}
               /\ IndicesOf(t) \subseteq {1} => IndicesOf(t)' \subseteq {1}
    <3>1. \A j \in IndicesOf(t)' : j \in DOMAIN sessions' /\ old(j) \in IndicesOf(t)
      BY <2>2 DEF IndicesOf
    <3> QED BY <3>1, <2>4
  <2> QED BY <2>2, <2>5, <2>6
<1>3. CASE sessions' = <<>>
  BY <1>3 DEF TokensUnique, IndicesOf
<1>4. ASSUME NEW c \in Calls, CreateSession(c)
      PROVE  /\ TokensUnique'
             /\ \A d \in Calls : \A t \in {call[d].token, call[d].victim} :
                  /\ IndicesOf(t) = {} => IndicesOf(t)' = {}
                  /\ IndicesOf(t) \subseteq {1} => IndicesOf(t)' \subseteq {1}
  <2> DEFINE n == Len(sessions)
  <2>1. NewToken \in FreshTokens
    BY <1>4, NewTokenLemma DEF CreateSession
  <2>2. /\ DOMAIN sessions = 1 .. n /\ DOMAIN sessions' = 1 .. (n + 1) /\ n \in Nat
        /\ \A j \in 1 .. n : sessions'[j] = sessions[j]
        /\ sessions'[n + 1].token = NewToken
    BY <1>4 DEF CreateSession
  <2>3. /\ \A j \in 1 .. n : sessions[j].token # NewToken
        /\ \A d \in Calls : NewToken \notin {call[d].token, call[d].victim}
    BY <2>1, <2>2 DEF FreshTokens, IndicesOf
  <2>4. TokensUnique'
    BY <2>2, <2>3 DEF TokensUnique
  <2>5. ASSUME NEW d \in Calls, NEW t \in {call[d].token, call[d].victim}
        PROVE  IndicesOf(t)' = IndicesOf(t)
    <3>1. t # NewToken
      BY <2>3
    <3> QED BY <3>1, <2>2 DEF IndicesOf
  <2> QED BY <2>4, <2>5
<1> QED BY <1>1, <1>2, <1>3, <1>4, ChangesLemma DEF Changes

\* A call that a step leaves alone, or only marks as it revokes, still knows
\* what it knew.
LEMMA BystanderLemma ==
  ASSUME SessionsInv, [Next]_vars, SessionsTypeOK', NEW c \in Calls,
         \/ /\ call'[c] = call[c] /\ revoked' = revoked /\ password <= password'
            /\ \A t \in resets' : t \in resets \/ t # call[c].token
         \/ /\ call'[c] = [call[c] EXCEPT !.overtaken = @ \/ c \in Issuing]
            /\ sessions' = <<>> /\ resets' = {} /\ password <= password'
  PROVE  CallKnows(c)'
<1> USE DEF SessionsInv, SessionsTypeOK
<1>1. \A u \in {call[c].token, call[c].victim} :
        /\ IndicesOf(u) = {} => IndicesOf(u)' = {}
        /\ IndicesOf(u) \subseteq {1} => IndicesOf(u)' \subseteq {1}
  BY RowsLemma
<1>3. CallKnows(c)
  OBVIOUS
<1>4. call[c] \in CallState /\ call'[c] \in CallState
  OBVIOUS
<1>5. CASE /\ call'[c] = call[c] /\ revoked' = revoked /\ password <= password'
           /\ \A u \in resets' : u \in resets \/ u # call[c].token
  <2>1. (c \in Issuing)' <=> c \in Issuing
    BY <1>5 DEF Issuing
  <2>2. PICK u, w : u = call[c].token /\ w = call[c].victim
    OBVIOUS
  <2>3. u = call'[c].token /\ w = call'[c].victim
    BY <2>2, <1>5
  <2>4. /\ c \in Issuing /\ u # NoToken => IndicesOf(u) = {}
        /\ call[c].pc = "evict" => IndicesOf(w) \subseteq {1}
        /\ call[c].pc = "rotate" /\ call[c].gen < revoked =>
             call[c].overtaken \/ IndicesOf(u) = {}
    BY <1>3, <2>2 DEF CallKnows
  <2>5. /\ IndicesOf(u) = {} => IndicesOf(u)' = {}
        /\ IndicesOf(w) \subseteq {1} => IndicesOf(w)' \subseteq {1}
    BY <1>1, <2>2
  <2>6. call[c].pc = "revoke" => call[c].gen <= password'
    BY <1>3, <1>4, <1>5 DEF CallKnows, CallState
  <2>7. /\ c \in Issuing /\ call[c].gen < revoked => call[c].overtaken
        /\ call[c].pc = "reset" /\ call[c].token \in resets' => call[c].gen = revoked
    BY <1>3, <1>5 DEF CallKnows
  <2> QED BY <1>5, <2>1, <2>2, <2>3, <2>4, <2>5, <2>6, <2>7 DEF CallKnows
<1>6. CASE /\ call'[c] = [call[c] EXCEPT !.overtaken = @ \/ c \in Issuing]
           /\ sessions' = <<>> /\ resets' = {} /\ password <= password'
  <2>1. /\ call'[c].pc = call[c].pc /\ call'[c].gen = call[c].gen
        /\ call'[c].overtaken = (call[c].overtaken \/ c \in Issuing)
        /\ (c \in Issuing)' <=> c \in Issuing
    BY <1>4, <1>6 DEF CallState, Issuing
  <2>2. IndicesOf(call[c].token)' = {} /\ IndicesOf(call[c].victim)' = {}
    BY <1>6 DEF IndicesOf
  <2>3. call[c].pc = "revoke" => call[c].gen <= password'
    BY <1>3, <1>4, <1>6 DEF CallKnows, CallState
  <2> QED BY <1>6, <2>1, <2>2, <2>3 DEF CallKnows
<1> QED BY <1>5, <1>6

\* The rows stay true as long as no call revokes, and are gone if one does.
LEMMA SurvivorsStep ==
  ASSUME SessionsInv, [Next]_vars, SessionsTypeOK',
         revoked' = revoked \/ sessions' = <<>>
  PROVE  SurvivorsWereOvertaken'
<1> USE DEF SessionsInv, SessionsTypeOK
<1>1. CASE sessions' = <<>>
  BY <1>1 DEF SurvivorsWereOvertaken
<1>2. CASE /\ revoked' = revoked
           /\ \A j \in DOMAIN sessions' : \E i \in DOMAIN sessions : sessions'[j] = sessions[i]
  BY <1>2 DEF SurvivorsWereOvertaken
<1>3. ASSUME revoked' = revoked, NEW c \in Calls, CreateSession(c)
      PROVE  SurvivorsWereOvertaken'
  <2> DEFINE n == Len(sessions)
  <2>1. /\ DOMAIN sessions = 1 .. n /\ DOMAIN sessions' = 1 .. (n + 1) /\ n \in Nat
        /\ \A j \in 1 .. n : sessions'[j] = sessions[j]
        /\ sessions'[n + 1].gen = call[c].gen
        /\ sessions'[n + 1].overtaken = call[c].overtaken
    BY <1>3 DEF CreateSession
  <2>2. call[c].gen < revoked => call[c].overtaken
    BY <1>3 DEF CreateSession, CallKnows, Issuing
  <2> HIDE DEF n
  <2>3. ASSUME NEW j \in DOMAIN sessions', sessions'[j].gen < revoked
        PROVE  sessions'[j].overtaken
    <3>1. CASE j \in 1 .. n
      BY <2>1, <2>3, <3>1 DEF SurvivorsWereOvertaken
    <3>2. CASE j = n + 1
      BY <2>1, <2>2, <2>3, <3>2
    <3> QED BY <2>1, <3>1, <3>2
  <2> QED BY <1>3, <2>3 DEF SurvivorsWereOvertaken
<1> QED BY <1>1, <1>2, <1>3, RowsLemma

\* A step that lets no call start to issue keeps the tokens apart.
LEMMA ExchangedStep ==
  ASSUME TokenExchangedOnce, Issuing' \subseteq Issuing,
         \A c \in Issuing' : call'[c].token = call[c].token
  PROVE  TokenExchangedOnce'
BY DEF TokenExchangedOnce

LEMMA InvInit == Init => SessionsInv
<1> SUFFICES ASSUME Init PROVE SessionsInv
  OBVIOUS
<1>1. SessionsTypeOK
  BY CallStateLemma DEF Init, SessionsTypeOK
<1>2. \A c \in Calls : CallKnows(c)
  BY DEF Init, Idle, CallKnows, Issuing
<1> QED BY <1>1, <1>2 DEF Init, Idle, SessionsInv, TokensUnique, TokenExchangedOnce,
           SurvivorsWereOvertaken, Issuing

LEMMA InvStep ==
  ASSUME SessionsInv, [Next]_vars
  PROVE  SessionsInv'
<1> USE DEF SessionsInv
<1>1. SessionsTypeOK' /\ TokensUnique'
  BY TypeStep, RowsLemma
<1>2. password \in Nat /\ revoked \in Nat /\ call \in [Calls -> CallState]
  BY DEF SessionsTypeOK
\* Steps of one call that do not revoke.
<1>3. ASSUME NEW c \in Calls, \A d \in Calls \ {c} : call'[d] = call[d],
             UNCHANGED revoked, password <= password', resets' \subseteq resets,
             CallKnows(c)', TokenExchangedOnce'
      PROVE  SessionsInv'
  <2>1. \A d \in Calls \ {c} : CallKnows(d)'
    BY <1>1, <1>3, BystanderLemma
  <2>2. SurvivorsWereOvertaken'
    BY <1>1, <1>3, SurvivorsStep
  <2>3. revoked' <= password'
    BY <1>1, <1>2, <1>3 DEF SessionsTypeOK
  <2> QED BY <1>1, <1>3, <2>1, <2>2, <2>3
\* Steps of no call.
<1>4. ASSUME UNCHANGED <<revoked, password, call>>,
             \A t \in resets' : t \in resets \/ \A c \in Calls : call[c].token # t
      PROVE  SessionsInv'
  <2>1. \A d \in Calls : CallKnows(d)'
    <3> SUFFICES ASSUME NEW d \in Calls PROVE CallKnows(d)'
      OBVIOUS
    <3>1. call'[d] = call[d] /\ \A t \in resets' : t \in resets \/ t # call[d].token
      BY <1>4
    <3>2. password <= password'
      BY <1>2, <1>4
    <3> QED BY <1>1, <1>4, <3>1, <3>2, BystanderLemma
  <2>2. SurvivorsWereOvertaken'
    BY <1>1, <1>4, SurvivorsStep
  <2>3. TokenExchangedOnce'
    BY <1>4, ExchangedStep DEF Issuing
  <2> QED BY <1>1, <1>4, <2>1, <2>2, <2>3
\* Steps that revoke all sessions and overtake all other calls.
<1>5. ASSUME NEW c \in Calls, call' = Overtaken(c), RevokeAll,
             revoked' <= password', password <= password'
      PROVE  SessionsInv'
  <2>1. /\ call'[c] = Idle
        /\ \A d \in Calls \ {c} :
             call'[d] = [call[d] EXCEPT !.overtaken = @ \/ d \in Issuing]
    BY <1>5 DEF Overtaken
  <2>2. \A d \in Calls \ {c} : CallKnows(d)'
    BY <1>1, <1>5, <2>1, BystanderLemma DEF RevokeAll
  <2>3. CallKnows(c)'
    BY <2>1 DEF Idle, CallKnows, Issuing
  <2>4. SurvivorsWereOvertaken'
    BY <1>1, <1>5, SurvivorsStep DEF RevokeAll
  <2>5. TokenExchangedOnce'
    <3>1. \A d \in Calls \ {c} : call'[d].pc = call[d].pc /\ call'[d].token = call[d].token
      BY <1>2, <2>1 DEF CallState
    <3>2. call'[c].pc = "idle"
      BY <2>1 DEF Idle
    <3> QED BY <3>1, <3>2, ExchangedStep DEF Issuing
  <2> QED BY <1>1, <1>5, <2>2, <2>3, <2>4, <2>5
<1>6. CASE DropSession \/ LogoutAll \/ DropLink \/ ForgotPassword \/ UNCHANGED vars
  BY <1>4, <1>6 DEF DropSession, LogoutAll, RevokeAll, DropLink, ForgotPassword, vars
\* A call that becomes idle, or starts a step that knows nothing yet.
<1>7. ASSUME NEW c \in Calls, NEW new, call' = [call EXCEPT ![c] = new],
             \/ new.pc \in {"idle", "update"}
             \/ /\ new.pc \in {"count", "find", "create"} /\ c \in Issuing
                /\ new.token = call[c].token /\ new.gen = call[c].gen
                /\ new.overtaken = call[c].overtaken,
             UNCHANGED revoked
      PROVE  CallKnows(c)' /\ TokenExchangedOnce'
             /\ \A d \in Calls \ {c} : call'[d] = call[d]
  <2>1. call'[c] = new /\ \A d \in Calls \ {c} : call'[d] = call[d]
    BY <1>2, <1>7
  <2>2. TokenExchangedOnce'
    BY <1>7, <2>1, ExchangedStep DEF Issuing
  <2>3. IndicesOf(call[c].token) = {} => \A t : t = call[c].token => IndicesOf(t)' = {}
    BY <1>1, RowsLemma
  <2>4. CASE new.pc \in {"idle", "update"}
    BY <2>1, <2>2, <2>4 DEF CallKnows, Issuing
  <2>5. CASE new.pc \in {"count", "find", "create"} /\ c \in Issuing
             /\ new.token = call[c].token /\ new.gen = call[c].gen
             /\ new.overtaken = call[c].overtaken
    <3>1. PICK t : t = call[c].token /\ t = call'[c].token
      BY <2>1, <2>5
    <3>2. t # NoToken => IndicesOf(t)' = {}
      BY <2>3, <2>5, <3>1 DEF CallKnows
    <3>3. call'[c].gen < revoked' => call'[c].overtaken
      BY <1>7, <2>1, <2>5 DEF CallKnows
    <3> QED BY <2>1, <2>2, <2>5, <3>1, <3>2, <3>3 DEF CallKnows
  <2> QED BY <1>7, <2>1, <2>2, <2>4, <2>5
\* The steps from query to query.
<1>8. ASSUME NEW c \in Calls, NEW new, call' = [call EXCEPT ![c] = new],
             \/ new.pc \in {"idle", "update"}
             \/ /\ new.pc \in {"count", "find", "create"} /\ c \in Issuing
                /\ new.token = call[c].token /\ new.gen = call[c].gen
                /\ new.overtaken = call[c].overtaken,
             UNCHANGED <<revoked, password, resets>>
      PROVE  SessionsInv'
  <2>1. password <= password' /\ resets' \subseteq resets /\ UNCHANGED revoked
    BY <1>2, <1>8
  <2>2. /\ CallKnows(c)' /\ TokenExchangedOnce'
        /\ \A d \in Calls \ {c} : call'[d] = call[d]
    BY <1>7, <1>8, <2>1
  <2> QED BY <1>3, <2>1, <2>2
<1>9. ASSUME NEW c \in Calls, Answer(c), UNCHANGED <<revoked, password, resets>>
      PROVE  SessionsInv'
  <2> DEFINE new == Idle
  <2>1. new.pc = "idle"
    BY DEF Idle
  <2>2. call' = [call EXCEPT ![c] = new]
    BY <1>9 DEF Answer
  <2> HIDE DEF new
  <2>3. UNCHANGED <<revoked, password, resets>> /\ new.pc \in {"idle", "update"}
    BY <1>9, <2>1
  <2> HIDE DEF SessionsInv
  <2> QED BY <1>8, <2>2, <2>3
<1>10. ASSUME NEW c \in Calls, NEW p \in {"count", "find", "create"}, Goto(c, p),
              c \in Issuing, UNCHANGED <<revoked, password, resets>>
       PROVE  SessionsInv'
  <2> DEFINE new == [call[c] EXCEPT !.pc = p]
  <2>1. /\ new.pc = p /\ new.token = call[c].token /\ new.gen = call[c].gen
        /\ new.overtaken = call[c].overtaken
    BY <1>2 DEF CallState
  <2>2. call' = [call EXCEPT ![c] = new]
    BY <1>10 DEF Goto
  <2> HIDE DEF new
  <2> QED BY <1>8, <1>10, <2>1, <2>2
<1>11. ASSUME NEW c \in Calls, Login(c)
       PROVE  SessionsInv'
  <2>1. /\ call'[c] = [Idle EXCEPT !.pc = "count", !.gen = password]
        /\ \A d \in Calls \ {c} : call'[d] = call[d]
        /\ UNCHANGED <<sessions, resets, password, revoked>>
    BY <1>2, <1>11 DEF Login
  <2>2. /\ call'[c].pc = "count" /\ call'[c].token = NoToken /\ call'[c].gen = password
    BY <2>1 DEF Idle
  <2>3. CallKnows(c)'
    BY <1>2, <2>1, <2>2 DEF CallKnows
  <2>4. TokenExchangedOnce'
    BY <2>1, <2>2 DEF TokenExchangedOnce, Issuing
  <2>5. password <= password'
    BY <1>2, <2>1
  <2> QED BY <1>3, <2>1, <2>3, <2>4, <2>5
<1>12. ASSUME NEW c \in Calls, Refresh(c)
       PROVE  SessionsInv'
  <2>1. PICK i \in DOMAIN sessions :
          call' = [call EXCEPT ![c] = [Idle EXCEPT
                     !.pc        = "rotate",
                     !.token     = sessions[i].token,
                     !.gen       = sessions[i].gen,
                     !.overtaken = sessions[i].overtaken]]
    BY <1>12 DEF Refresh
  <2>2. /\ call'[c].pc = "rotate" /\ call'[c].gen = sessions[i].gen
        /\ call'[c].overtaken = sessions[i].overtaken
        /\ \A d \in Calls \ {c} : call'[d] = call[d]
        /\ UNCHANGED <<sessions, resets, password, revoked>>
    BY <1>2, <1>12, <2>1 DEF Refresh, Idle
  <2>3. CallKnows(c)'
    BY <2>2 DEF CallKnows, Issuing, SurvivorsWereOvertaken
  <2>4. TokenExchangedOnce'
    BY <2>2, ExchangedStep DEF Issuing
  <2>5. password <= password'
    BY <1>2, <2>2
  <2> QED BY <1>3, <2>2, <2>3, <2>4, <2>5
<1>13. ASSUME NEW c \in Calls, Rotate(c)
       PROVE  SessionsInv'
  <2>1. UNCHANGED <<resets, password, revoked>> /\ call[c].pc = "rotate"
    BY <1>13 DEF Rotate
  <2>2. CASE Answer(c)
    BY <1>9, <2>1, <2>2
  <2>3. ASSUME NEW i \in IndicesOf(call[c].token), Drop(i), Goto(c, "count")
        PROVE  SessionsInv'
    <3>1. PICK t : t = call[c].token
      OBVIOUS
    <3>2. /\ call'[c].pc = "count" /\ call'[c].token = t /\ call'[c].gen = call[c].gen
          /\ call'[c].overtaken = call[c].overtaken
          /\ \A d \in Calls \ {c} : call'[d] = call[d]
      BY <1>2, <2>3, <3>1 DEF Goto, CallState
    <3>3. i \in DOMAIN sessions /\ sessions[i].token = t /\ IndicesOf(t) # {}
      BY <2>3, <3>1 DEF IndicesOf
    <3>4. IndicesOf(t)' = {}
      <4>1. /\ DOMAIN sessions = 1 .. Len(sessions) /\ Len(sessions) \in Nat
            /\ DOMAIN sessions' = 1 .. (Len(sessions) - 1)
        BY <1>1, <2>3, <3>3, DropLemma DEF SessionsTypeOK
      <4>2. ASSUME NEW j \in IndicesOf(t)'
            PROVE  FALSE
        <5> DEFINE k == IF j < i THEN j ELSE j + 1
        <5>1. j \in DOMAIN sessions' /\ sessions'[j].token = t
          BY <4>2 DEF IndicesOf
        <5>2. sessions'[j] = sessions[k]
          BY <5>1, <2>3, <3>3, DropLemma DEF SessionsTypeOK
        <5>3. k \in DOMAIN sessions /\ k # i
          BY <5>1, <4>1, <3>3
        <5> HIDE DEF k
        <5> QED BY <5>1, <5>2, <5>3, <3>3 DEF TokensUnique
      <4> QED BY <4>2
    <3>5. CallKnows(c)'
      BY <2>1, <3>1, <3>2, <3>3, <3>4 DEF CallKnows
    <3>6. \A d \in Issuing : d # c /\ (call[d].token # t \/ t = NoToken)
      BY <2>1, <3>1, <3>3 DEF CallKnows, Issuing
    <3>7. TokenExchangedOnce'
      BY <3>2, <3>6 DEF TokenExchangedOnce, Issuing
    <3>8. password <= password'
      BY <1>2, <2>1
    <3> QED BY <1>3, <2>1, <3>2, <3>5, <3>7, <3>8
  <2> QED BY <1>13, <2>2, <2>3 DEF Rotate
<1>14. ASSUME NEW c \in Calls, CountSessions(c)
       PROVE  SessionsInv'
  BY <1>10, <1>14 DEF CountSessions, Issuing
<1>15. ASSUME NEW c \in Calls, FindOldest(c)
       PROVE  SessionsInv'
  <2>1. UNCHANGED <<sessions, resets, password, revoked>> /\ call[c].pc = "find"
    BY <1>15 DEF FindOldest
  <2>2. CASE sessions = <<>>
    BY <1>10, <1>15, <2>1, <2>2 DEF FindOldest, Issuing
  <2>3. CASE sessions # <<>>
    <3>1. /\ call'[c].pc = "evict" /\ call'[c].victim = sessions[1].token
          /\ call'[c].token = call[c].token /\ call'[c].gen = call[c].gen
          /\ call'[c].overtaken = call[c].overtaken
          /\ \A d \in Calls \ {c} : call'[d] = call[d]
      BY <1>2, <1>15, <2>3 DEF FindOldest, CallState
    <3>2. 1 \in DOMAIN sessions
      BY <2>3 DEF SessionsTypeOK
    <3>3. IndicesOf(sessions[1].token)' = IndicesOf(sessions[1].token)
      BY <2>1 DEF IndicesOf
    <3>4. IndicesOf(sessions[1].token) \subseteq {1}
      BY <3>2 DEF TokensUnique, IndicesOf
    <3>5. c \in Issuing
      BY <2>1 DEF Issuing
    <3>6. CallKnows(c)'
      BY <2>1, <3>1, <3>4, <3>5 DEF CallKnows, IndicesOf
    <3>7. TokenExchangedOnce'
      BY <3>1, <3>5, ExchangedStep DEF Issuing
    <3>8. password <= password'
      BY <1>2, <2>1
    <3> QED BY <1>3, <2>1, <3>1, <3>6, <3>7, <3>8
  <2> QED BY <2>2, <2>3
<1>16. ASSUME NEW c \in Calls, Evict(c)
       PROVE  SessionsInv'
  <2>1. UNCHANGED <<resets, password, revoked>> /\ c \in Issuing
    BY <1>16 DEF Evict, Issuing
  <2>2. CASE Answer(c)
    BY <1>9, <2>1, <2>2
  <2>3. CASE call' = [call EXCEPT ![c].pc = "create", ![c].victim = NoToken]
    <3> DEFINE new == [call[c] EXCEPT !.pc = "create", !.victim = NoToken]
    <3>1. /\ new.pc = "create" /\ new.token = call[c].token /\ new.gen = call[c].gen
          /\ new.overtaken = call[c].overtaken
      BY <1>2 DEF CallState
    <3>2. call' = [call EXCEPT ![c] = new]
      BY <2>3
    <3> HIDE DEF new
    <3> QED BY <1>8, <2>1, <3>1, <3>2
  <2> QED BY <1>16, <2>2, <2>3 DEF Evict
<1>17. ASSUME NEW c \in Calls, CreateSession(c) \/ Fail(c)
       PROVE  SessionsInv'
  BY <1>9, <1>17 DEF CreateSession, Fail
<1>18. ASSUME NEW c \in Calls, ChangePassword(c)
       PROVE  SessionsInv'
  <2> DEFINE new == [Idle EXCEPT !.pc = "update"]
  <2>1. new.pc = "update"
    BY DEF Idle
  <2>2. call' = [call EXCEPT ![c] = new] /\ UNCHANGED <<revoked, password, resets>>
    BY <1>18 DEF ChangePassword
  <2> HIDE DEF new
  <2>3. new.pc \in {"idle", "update"}
    BY <2>1
  <2> HIDE DEF SessionsInv
  <2> QED BY <1>8, <2>2, <2>3
<1>19. ASSUME NEW c \in Calls, UpdatePassword(c)
       PROVE  SessionsInv'
  <2>1. /\ call'[c].pc = "revoke" /\ call'[c].gen = password + 1
        /\ \A d \in Calls \ {c} : call'[d] = call[d]
        /\ UNCHANGED <<sessions, resets, revoked>> /\ password' = password + 1
    BY <1>2, <1>19 DEF UpdatePassword, CallState
  <2>2. CallKnows(c)'
    BY <1>2, <2>1 DEF CallKnows, Issuing
  <2>3. TokenExchangedOnce'
    BY <2>1, ExchangedStep DEF Issuing
  <2>4. password <= password'
    BY <1>2, <2>1
  <2> QED BY <1>3, <2>1, <2>2, <2>3, <2>4
<1>20. ASSUME NEW c \in Calls, RevokeSessions(c)
       PROVE  SessionsInv'
  <2>1. /\ call' = Overtaken(c) /\ RevokeAll /\ password' = password
        /\ revoked' = IF call[c].gen > revoked THEN call[c].gen ELSE revoked
        /\ call[c].pc = "revoke"
    BY <1>20 DEF RevokeSessions
  <2>2. revoked' <= password'
    BY <2>1 DEF CallKnows
  <2>3. password <= password'
    BY <1>2, <2>1
  <2> QED BY <1>5, <2>1, <2>2, <2>3
<1>21. ASSUME NEW c \in Calls, CommitReset(c)
       PROVE  SessionsInv'
  <2>1. revoked' <= password' /\ password <= password'
    BY <1>2, <1>21 DEF CommitReset
  <2> QED BY <1>5, <1>21, <2>1 DEF CommitReset
<1>22. ASSUME NEW c \in Calls, ResetPassword(c)
       PROVE  SessionsInv'
  <2>1. PICK t \in resets :
          call' = [call EXCEPT ![c] = [Idle EXCEPT !.pc    = "reset",
                                                   !.token = t,
                                                   !.gen   = revoked]]
    BY <1>22 DEF ResetPassword
  <2>2. /\ call'[c].pc = "reset" /\ call'[c].gen = revoked
        /\ \A d \in Calls \ {c} : call'[d] = call[d]
        /\ UNCHANGED <<sessions, resets, password, revoked>>
    BY <1>2, <1>22, <2>1 DEF ResetPassword, Idle
  <2>3. CallKnows(c)'
    BY <2>2 DEF CallKnows, Issuing
  <2>4. TokenExchangedOnce'
    BY <2>2, ExchangedStep DEF Issuing
  <2>5. password <= password'
    BY <1>2, <2>2
  <2> QED BY <1>3, <2>2, <2>3, <2>4, <2>5
<1> QED
  BY <1>6, <1>11, <1>12, <1>13, <1>14, <1>15, <1>16, <1>17, <1>18, <1>19, <1>20,
     <1>21, <1>22 DEF Next

LEMMA InvAlways == Spec => []SessionsInv
BY InvInit, InvStep, PTL DEF Spec

\* Of the calls that present a refresh token at the same time one gets to issue
\* new tokens: the others find the row gone (refresh).
THEOREM TokensExchangedOnce == Spec => []TokenExchangedOnce
BY InvAlways, PTL DEF SessionsInv

\* What outlives a password change is what a call that was under way brings
\* along, and what was refreshed from it (changePassword, resetPassword).
THEOREM RevocationsReach == Spec => []SurvivorsWereOvertaken
BY InvAlways, PTL DEF SessionsInv

\* A reset link serves once, and no more after the password was changed by any
\* other way (resetPassword).
THEOREM LinksServeOnce == Spec => StaleLinksFail
<1> DEFINE LinkStep ==
      \A c \in Calls :
        /\ call[c].pc = "reset"
        /\ call'[c].pc = "idle"
        /\ password' # password
        => call[c].gen = revoked
<1>1. ASSUME SessionsInv, [Next]_vars
      PROVE  [LinkStep]_vars
  <2> SUFFICES ASSUME NEW c \in Calls, call[c].pc = "reset", call'[c].pc = "idle",
                      password' # password
               PROVE  call[c].gen = revoked
    OBVIOUS
  <2>1. call \in [Calls -> CallState]
    BY <1>1 DEF SessionsInv, SessionsTypeOK
  <2>2. PICK d \in Calls : UpdatePassword(d) \/ CommitReset(d)
    BY <1>1 DEF Next, vars, DropSession, LogoutAll, DropLink, ForgotPassword, Login, Refresh,
       Rotate, CountSessions, FindOldest, Evict, CreateSession, ChangePassword,
       RevokeSessions, ResetPassword, Fail
  <2>3. ~UpdatePassword(d)
    BY <2>1 DEF UpdatePassword, CallState
  <2>4. call' = Overtaken(d) /\ LinkIsThere(d)
    BY <2>2, <2>3 DEF CommitReset
  <2>5. d = c
    BY <2>1, <2>4 DEF Overtaken, CallState
  <2> QED BY <1>1, <2>4, <2>5 DEF SessionsInv, CallKnows, LinkIsThere
<1>2. [][LinkStep]_vars <=> StaleLinksFail
  BY PTL DEF StaleLinksFail
<1> QED BY <1>1, <1>2, InvAlways, PTL DEF Spec

\* Only the oldest session makes room for a new one, whatever comes and goes
\* between the query that finds it and the one that deletes it (issueTokens).
THEOREM OldestGoesFirst == Spec => EvictsOldest
<1> DEFINE EvictStep ==
      \A c \in Calls :
        /\ call[c].pc = "evict"
        /\ call'[c].pc = "create"
        => sessions' = Tail(sessions)
<1>1. ASSUME SessionsInv, [Next]_vars
      PROVE  [EvictStep]_vars
  <2> SUFFICES ASSUME NEW c \in Calls, call[c].pc = "evict", call'[c].pc = "create"
               PROVE  sessions' = Tail(sessions)
    OBVIOUS
  <2>1. call \in [Calls -> CallState] /\ sessions \in Seq(Session)
    BY <1>1 DEF SessionsInv, SessionsTypeOK
  <2>2. Evict(c)
    <3> USE <2>1
    <3>1. ASSUME NEW d \in Calls,
                 \/ Login(d) \/ Refresh(d) \/ Rotate(d) \/ CountSessions(d)
                 \/ FindOldest(d) \/ CreateSession(d) \/ ChangePassword(d)
                 \/ UpdatePassword(d) \/ ResetPassword(d) \/ Fail(d)
          PROVE  FALSE
      <4>1. \A e \in Calls \ {d} : call'[e] = call[e]
        BY <3>1 DEF Login, Refresh, Rotate, CountSessions, FindOldest, CreateSession,
           ChangePassword, UpdatePassword, ResetPassword, Fail, Goto, Answer
      <4>2. d = c
        BY <4>1
      <4>3. CreateSession(c) \/ Fail(c)
        BY <3>1, <4>2 DEF Login, Refresh, Rotate, CountSessions, FindOldest,
           ChangePassword, UpdatePassword, ResetPassword
      <4>4. call'[c] = Idle
        BY <4>3 DEF CreateSession, Fail, Answer
      <4> QED BY <4>4 DEF Idle
    <3>2. ASSUME NEW d \in Calls, RevokeSessions(d) \/ CommitReset(d)
          PROVE  FALSE
      <4>1. call'[c] = Idle \/ call'[c].pc = call[c].pc
        BY <3>2 DEF RevokeSessions, CommitReset, Overtaken, CallState
      <4> QED BY <4>1 DEF Idle
    <3>3. ~(DropSession \/ LogoutAll \/ DropLink \/ ForgotPassword \/ UNCHANGED vars)
      BY DEF DropSession, LogoutAll, DropLink, ForgotPassword, vars
    <3>4. PICK d \in Calls : Evict(d)
      BY <1>1, <3>1, <3>2, <3>3 DEF Next
    <3>5. d = c
      BY <3>4 DEF Evict, Answer
    <3> QED BY <3>4, <3>5
  <2>3. PICK i \in IndicesOf(call[c].victim) : Drop(i)
    BY <2>1, <2>2 DEF Evict, Answer, Idle
  <2>4. i = 1 /\ 1 \in DOMAIN sessions
    BY <1>1, <2>3 DEF SessionsInv, CallKnows, IndicesOf
  <2>5. sessions' = SubSeq(sessions, 1, 0) \o SubSeq(sessions, 2, Len(sessions))
    BY <2>3, <2>4 DEF Drop, RemoveAt
  <2> QED BY <2>1, <2>4, <2>5
<1>2. [][EvictStep]_vars <=> EvictsOldest
  BY PTL DEF EvictsOldest
<1> QED BY <1>1, <1>2, InvAlways, PTL DEF Spec
=============================================================================
