----------------------------- MODULE MCMetering -----------------------------
(***************************************************************************)
(* Instances of Metering for TLC.                                          *)
(***************************************************************************)
EXTENDS Metering, TLC

CONSTANTS u1, e1, e2

\* Two users with an email each, or two users that share an email in turn.
TwoEmails == [u \in Users |-> IF u = u1 THEN e1 ELSE e2]
SharedEmail == [u \in Users |-> e1]
============================================================================
