-------------------------------- MODULE Inbox -------------------------------
(***************************************************************************)
(* What the webhook endpoint promises to a provider that repeats its       *)
(* deliveries: an event is taken once, only a taken event is executed and  *)
(* acknowledged, and none is executed twice.                               *)
(***************************************************************************)
EXTENDS Naturals

CONSTANT Events

VARIABLES
    taken,      \* events that were accepted
    executed,   \* per event: how often its action took effect
    acked       \* events the provider has a 200 for

Init ==
    /\ taken = {}
    /\ executed = [e \in Events |-> 0]
    /\ acked = {}

Take(e) ==
    /\ e \notin taken
    /\ taken' = taken \union {e}
    /\ UNCHANGED <<executed, acked>>

Execute(e) ==
    /\ e \in taken
    /\ executed[e] = 0
    /\ executed' = [executed EXCEPT ![e] = 1]
    /\ UNCHANGED <<taken, acked>>

Acknowledge(e) ==
    /\ e \in taken
    /\ acked' = acked \union {e}
    /\ UNCHANGED <<taken, executed>>

Next == \E e \in Events : Take(e) \/ Execute(e) \/ Acknowledge(e)

Spec == Init /\ [][Next]_<<taken, executed, acked>>
=============================================================================
