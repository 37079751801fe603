------------------------------ MODULE MCOutbox ------------------------------
(* A small instance of Outbox for TLC. *)
EXTENDS Outbox, TLC

CONSTANTS r1, r2, fan

MCSupports == {1, 2}
MCMessages == {2}
MCEarly    == {1}
MCRuns     == {r1, r2}

\* Both supports come from the same, registered, supporter.
OneFan     == [s \in Supports |-> fan]
MCSignedIn == {fan}
=============================================================================
