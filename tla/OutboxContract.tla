--------------------------- MODULE OutboxContract ---------------------------
(***************************************************************************)
(* What the outbox promises for each captured support: one projection into *)
(* the creator's records, and a message whose fate is known before it is   *)
(* put aside.  Nothing is said of runs, claims or time.                    *)
(***************************************************************************)
EXTENDS Naturals

CONSTANTS
  Supports,
  Messages   \* supports whose message is followed

VARIABLES
  captured,  \* supports that were paid
  notices,   \* how often each was projected
  answered,  \* supports whose message arrived, or never will
  closed     \* supports whose message needs no more attention

vars == <<captured, notices, answered, closed>>

Init ==
  /\ captured = {}
  /\ notices  = [s \in Supports |-> 0]
  /\ answered = {}
  /\ closed   = {}

Capture(s) ==
  /\ s \notin captured
  /\ captured' = captured \cup {s}
  /\ UNCHANGED <<notices, answered, closed>>

Project(s) ==
  /\ s \in captured
  /\ notices[s] = 0
  /\ notices' = [notices EXCEPT ![s] = 1]
  /\ UNCHANGED <<captured, answered, closed>>

Inform(s) ==
  /\ s \in captured
  /\ answered' = answered \cup {s}
  /\ UNCHANGED <<captured, notices, closed>>

Close(s) ==
  /\ s \in answered
  /\ closed' = closed \cup {s}
  /\ UNCHANGED <<captured, notices, answered>>

Next == \E s \in Supports : \/ Capture(s) \/ Project(s)
                            \/ s \in Messages /\ (Inform(s) \/ Close(s))

\* Each captured support is projected and its message closed; as both sets only
\* grow, that the last holds again and again means that it does from some time on.
ContractSpec ==
  /\ Init
  /\ [][Next]_vars
  /\ \A s \in Supports :
       /\ WF_vars(Project(s))
       /\ s \in Messages => []<>(s \in captured => s \in closed)
=============================================================================
