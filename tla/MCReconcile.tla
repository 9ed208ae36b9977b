---------------------------- MODULE MCReconcile ----------------------------
(***************************************************************************)
(* Instances of Reconcile for TLC.                                         *)
(***************************************************************************)
EXTENDS Reconcile, TLC

CONSTANTS u1, i1, n1, n2, e1, e2

\* Two users with an email each, or two users that share an email in turn.
TwoEmails == [u \in Users |-> IF u = u1 THEN e1 ELSE e2]
SharedEmail == [u \in Users |-> e1]

\* Two inbounds on one node, or on a node each.
OneNode == [i \in Inbounds |-> n1]
TwoNodes == [i \in Inbounds |-> IF i = i1 THEN n1 ELSE n2]
============================================================================
