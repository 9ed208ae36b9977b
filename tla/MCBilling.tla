----------------------------- MODULE MCBilling -----------------------------
(***************************************************************************)
(* Instances of Billing for TLC.                                           *)
(***************************************************************************)
EXTENDS Billing, TLC

CONSTANTS x1, a, b, e1, e2, e3, e4, e5, e6

P(act, x, m) == [action |-> act, ext |-> x, email |-> m]

\* Two purchase events for one subscription that differ in the email, its
\* renewal and resumption, a cancellation by email, and a purchase without an
\* external id.  (suspend is handled as cancel is.)
Lifetime ==
    (e1 :> P("provision", x1, a)) @@ (e2 :> P("provision", x1, b)) @@
    (e3 :> P("renew", x1, None)) @@ (e4 :> P("resume", x1, None)) @@
    (e5 :> P("cancel", None, a)) @@ (e6 :> P("provision", None, b))

\* A purchase and a renewal.
Renewal == (e1 :> P("provision", x1, a)) @@ (e2 :> P("renew", x1, None))
=============================================================================
