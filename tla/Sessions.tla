------------------------------ MODULE Sessions ------------------------------
(***************************************************************************)
(* The sessions of one user (auth.service.ts).  A session is a row that    *)
(* holds a refresh token; the links of a password reset are rows of the    *)
(* same table.  Nothing but resetPassword uses a transaction, so a call is *)
(* a process that makes one step per query, and calls overlap.  A process  *)
(* stands for a connection and makes one call after the other.             *)
(*                                                                         *)
(* Passwords are numbered in the order in which they are set.  A session   *)
(* remembers the password it goes back to, and whether the call that       *)
(* created it was under way when a new password revoked all; the database   *)
(* has neither.                                                            *)
(***************************************************************************)
EXTENDS Naturals, FiniteSets, Sequences, SequencesExt

CONSTANTS
  Calls,        \* calls that can be under way at the same time
  Tokens,       \* refresh tokens; one that nobody knows any more is used again
  ResetTokens,  \* likewise the tokens of reset links
  NoToken,
  MaxSessions,  \* MAX_SESSIONS
  MaxPasswords  \* bound on the number of passwords set

ASSUME SessionsAssumption ==
  /\ IsFiniteSet(Calls) /\ Calls # {}
  /\ NoToken \notin Tokens \cup ResetTokens
  /\ Tokens \cap ResetTokens = {}
  /\ MaxSessions \in Nat \ {0}
  /\ MaxPasswords \in Nat

VARIABLES
  sessions,  \* the rows with a refresh token, oldest first
  resets,    \* the reset tokens in the table
  password,  \* the current password
  revoked,   \* the newest password whose setter has revoked all sessions
  call       \* where each call is, and what it has read

vars == <<sessions, resets, password, revoked, call>>

Idle == [pc |-> "idle", token |-> NoToken, victim |-> NoToken, gen |-> 0,
         overtaken |-> FALSE]

Init ==
  /\ sessions = <<>>
  /\ resets   = {}
  /\ password = 0
  /\ revoked  = 0
  /\ call     = [c \in Calls |-> Idle]

Goto(c, pc) == call' = [call EXCEPT ![c].pc = pc]

\* A call answers, with success or with an error.
Answer(c) == call' = [call EXCEPT ![c] = Idle]

Drop(i) == sessions' = RemoveAt(sessions, i)

IndicesOf(t) == {i \in DOMAIN sessions : sessions[i].token = t}

\* A generated token is unlike any that is stored or known to a call; which one
\* it is makes no difference.
FreshTokens ==
  {t \in Tokens : /\ IndicesOf(t) = {}
                  /\ \A c \in Calls : t \notin {call[c].token, call[c].victim}}

\* Faulty variant: the row is created without its token.
NewToken_None == NoToken

NewToken == CHOOSE t \in FreshTokens : TRUE

-----------------------------------------------------------------------------
(* login and refresh up to where they have authenticated the user *)

\* The user row is read and the password given is the one stored, or the user
\* comes in from Telegram.
Login(c) ==
  /\ call[c].pc = "idle"
  /\ call' = [call EXCEPT ![c] = [Idle EXCEPT !.pc = "count", !.gen = password]]
  /\ UNCHANGED <<sessions, resets, password, revoked>>

\* refresh finds the session of its token.
Refresh(c) ==
  /\ call[c].pc = "idle"
  /\ \E i \in DOMAIN sessions :
       call' = [call EXCEPT ![c] = [Idle EXCEPT
                  !.pc        = "rotate",
                  !.token     = sessions[i].token,
                  !.gen       = sessions[i].gen,
                  !.overtaken = sessions[i].overtaken]]
  /\ UNCHANGED <<sessions, resets, password, revoked>>

\* Faulty variant: deleteMany, which does not mind if the row is gone.
Rotate_Tolerant(c) ==
  /\ call[c].pc = "rotate"
  /\ IF IndicesOf(call[c].token) = {}
       THEN UNCHANGED sessions
       ELSE \E i \in IndicesOf(call[c].token) : Drop(i)
  /\ Goto(c, "count")
  /\ UNCHANGED <<resets, password, revoked>>

\* It deletes that session and throws if it is gone.
Rotate(c) ==
  /\ call[c].pc = "rotate"
  /\ \/ /\ \E i \in IndicesOf(call[c].token) : Drop(i)
        /\ Goto(c, "count")
     \/ /\ IndicesOf(call[c].token) = {}
        /\ Answer(c)
        /\ UNCHANGED sessions
  /\ UNCHANGED <<resets, password, revoked>>

-----------------------------------------------------------------------------
(* issueTokens *)

\* Faulty variant: off by one.
CountSessions_Lax(c) ==
  /\ call[c].pc = "count"
  /\ Goto(c, IF Len(sessions) > MaxSessions THEN "find" ELSE "create")
  /\ UNCHANGED <<sessions, resets, password, revoked>>

CountSessions(c) ==
  /\ call[c].pc = "count"
  /\ Goto(c, IF Len(sessions) >= MaxSessions THEN "find" ELSE "create")
  /\ UNCHANGED <<sessions, resets, password, revoked>>

\* Faulty variant: the wrong order.
FindOldest_Newest(c) ==
  /\ call[c].pc = "find"
  /\ IF sessions = <<>>
       THEN Goto(c, "create")
       ELSE call' = [call EXCEPT ![c].pc     = "evict",
                                 ![c].victim = sessions[Len(sessions)].token]
  /\ UNCHANGED <<sessions, resets, password, revoked>>

FindOldest(c) ==
  /\ call[c].pc = "find"
  /\ IF sessions = <<>>
       THEN Goto(c, "create")
       ELSE call' = [call EXCEPT ![c].pc     = "evict",
                                 ![c].victim = sessions[1].token]
  /\ UNCHANGED <<sessions, resets, password, revoked>>

\* The delete throws if the row is gone.
Evict(c) ==
  /\ call[c].pc = "evict"
  /\ \/ /\ \E i \in IndicesOf(call[c].victim) : Drop(i)
        /\ call' = [call EXCEPT ![c].pc = "create", ![c].victim = NoToken]
     \/ /\ IndicesOf(call[c].victim) = {}
        /\ Answer(c)
        /\ UNCHANGED sessions
  /\ UNCHANGED <<resets, password, revoked>>

CreateSession(c) ==
  /\ call[c].pc = "create"
  /\ FreshTokens # {}
  /\ sessions' = Append(sessions, [token     |-> NewToken,
                                   gen       |-> call[c].gen,
                                   overtaken |-> call[c].overtaken])
  /\ Answer(c)
  /\ UNCHANGED <<resets, password, revoked>>

-----------------------------------------------------------------------------
(* Calls that revoke.  deleteMany over all rows of the user also removes the *)
(* reset links.                                                              *)

\* Calls that will create a session without looking at another one first.
Issuing == {c \in Calls : call[c].pc \in {"count", "find", "evict", "create"}}

\* Faulty variant: the user stays signed in where they last signed in.
RevokeAll_KeepNewest ==
  /\ sessions' = IF sessions = <<>> THEN <<>> ELSE <<sessions[Len(sessions)]>>
  /\ resets'   = {}

RevokeAll ==
  /\ sessions' = <<>>
  /\ resets'   = {}

\* The calls as they are once c has set a password and revoked all sessions.
Overtaken(c) ==
  [d \in Calls |-> IF d = c THEN Idle
                     ELSE [call[d] EXCEPT !.overtaken = @ \/ d \in Issuing]]

\* logoutAll, a single query.
LogoutAll ==
  /\ RevokeAll
  /\ UNCHANGED <<password, revoked, call>>

\* logout, revokeSession, and refresh with an expired token: one row goes.
DropSession ==
  /\ \E i \in DOMAIN sessions : Drop(i)
  /\ UNCHANGED <<resets, password, revoked, call>>

\* changePassword: the current password is right.
ChangePassword(c) ==
  /\ call[c].pc = "idle"
  /\ call' = [call EXCEPT ![c] = [Idle EXCEPT !.pc = "update"]]
  /\ UNCHANGED <<sessions, resets, password, revoked>>

UpdatePassword(c) ==
  /\ call[c].pc = "update"
  /\ password < MaxPasswords
  /\ password' = password + 1
  /\ call' = [call EXCEPT ![c].pc = "revoke", ![c].gen = password + 1]
  /\ UNCHANGED <<sessions, resets, revoked>>

RevokeSessions(c) ==
  /\ call[c].pc = "revoke"
  /\ RevokeAll
  /\ revoked' = IF call[c].gen > revoked THEN call[c].gen ELSE revoked
  /\ call' = Overtaken(c)
  /\ UNCHANGED password

\* resetPassword with an expired link.
DropLink ==
  /\ \E t \in resets : resets' = resets \ {t}
  /\ UNCHANGED <<sessions, password, revoked, call>>

\* forgotPassword
ForgotPassword ==
  /\ \E t \in ResetTokens \ resets :
       /\ \A c \in Calls : call[c].token # t
       /\ resets' = resets \cup {t}
  /\ UNCHANGED <<sessions, password, revoked, call>>

\* resetPassword finds its link; gen notes the last revocation.
ResetPassword(c) ==
  /\ call[c].pc = "idle"
  /\ \E t \in resets :
       call' = [call EXCEPT ![c] = [Idle EXCEPT !.pc    = "reset",
                                                !.token = t,
                                                !.gen   = revoked]]
  /\ UNCHANGED <<sessions, resets, password, revoked>>

\* Faulty variant: the link is removed with deleteMany.
LinkIsThere_Unchecked(c) == TRUE

\* Whether the delete of the link finds its row; it throws otherwise.
LinkIsThere(c) == call[c].token \in resets

\* The transaction: set the password, delete the link, revoke everything.
CommitReset(c) ==
  /\ call[c].pc = "reset"
  /\ LinkIsThere(c)
  /\ password < MaxPasswords
  /\ password' = password + 1
  /\ RevokeAll
  /\ revoked' = password + 1
  /\ call' = Overtaken(c)

\* A query fails, a call is cut off, the link is gone: the call ends and what
\* it has written stays.
Fail(c) ==
  /\ call[c].pc # "idle"
  /\ Answer(c)
  /\ UNCHANGED <<sessions, resets, password, revoked>>

Next ==
  \/ DropSession
  \/ LogoutAll
  \/ DropLink
  \/ ForgotPassword
  \/ \E c \in Calls :
       \/ Login(c) \/ Refresh(c) \/ Rotate(c)
       \/ CountSessions(c) \/ FindOldest(c) \/ Evict(c) \/ CreateSession(c)
       \/ ChangePassword(c) \/ UpdatePassword(c) \/ RevokeSessions(c)
       \/ ResetPassword(c) \/ CommitReset(c)
       \/ Fail(c)

Spec == Init /\ [][Next]_vars
-----------------------------------------------------------------------------
(* Properties. *)

Session == [token : Tokens, gen : Nat, overtaken : BOOLEAN]
Steps   == {"idle", "rotate", "count", "find", "evict", "create", "update",
            "revoke", "reset"}
CallState == [pc        : Steps,
              token     : Tokens \cup ResetTokens \cup {NoToken},
              victim    : Tokens \cup {NoToken},
              gen       : Nat,
              overtaken : BOOLEAN]

\* The shape of the rows, and of what a call carries along.
SessionsTypeOK ==
  /\ sessions \in Seq(Session)
  /\ resets \subseteq ResetTokens
  /\ password \in Nat
  /\ revoked \in Nat
  /\ call \in [Calls -> CallState]

\* What the cap of issueTokens comes to when calls overlap: each further call
\* under way may add one session to it, and no more, however the calls follow
\* each other, fail, or meet with revocations.
SessionsBounded == Len(sessions) <= MaxSessions + Cardinality(Calls) - 1

\* The cap as the comment in issueTokens has it.
SessionCap == Len(sessions) <= MaxSessions

\* A refresh token is exchanged once: of the calls that present it at the same
\* time, one gets to issue new tokens.
TokenExchangedOnce ==
  \A c, d \in Issuing :
    call[c].token = call[d].token /\ call[c].token # NoToken => c = d

\* Only the oldest session makes room for a new one, also when sessions come
\* and go between the query that finds it and the one that deletes it.
EvictsOldest ==
  [][\A c \in Calls :
       /\ call[c].pc = "evict"
       /\ call'[c].pc = "create"
       => sessions' = Tail(sessions)]_vars

\* Sessions that go back to a password whose successor has revoked all sessions
\* are those whose call was past its last look at a session when that
\* happened, and their successors; no other session outlives a revocation.
SurvivorsWereOvertaken ==
  \A i \in DOMAIN sessions :
    sessions[i].gen < revoked => sessions[i].overtaken

\* A password is reset only through a link that no change of the password has
\* revoked since it was looked up, so a link serves once.
StaleLinksFail ==
  [][\A c \in Calls :
       /\ call[c].pc = "reset"
       /\ call'[c].pc = "idle"
       /\ password' # password
       => call[c].gen = revoked]_vars
=============================================================================
