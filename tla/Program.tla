------------------------------ MODULE Program ------------------------------
(***************************************************************************)
(* The process around the manager: runServe starts the workers and the     *)
(* HTTP server, and takes them down on a signal or an error.  A signal     *)
(* cancels the context of the workers at once, while the server still      *)
(* finishes requests; Shutdown waits for these up to a timeout; then the   *)
(* deferred calls stop the manager and close the store.  The process may   *)
(* also crash, and is started again.                                       *)
(*                                                                         *)
(* Abstractions.  The timeout may fire whenever a request is in progress.  *)
(* A start that fails is no start.  The sweepers of the manager are left   *)
(* out: they end with the context.                                         *)
(***************************************************************************)
EXTENDS Manager

CONSTANT MaxOutages     \* bound: signals, errors of the listener and crashes

ASSUME ProgramAssumption == MaxOutages \in Nat

VARIABLES
    phase,      \* where runServe is
    code,       \* what it returns, None until it is known
    outages

allVars == <<vars, phase, code, outages>>

ProgramTypeOK ==
    /\ TypeOK
    /\ phase \in {"serving", "draining", "stopping", "closed", "down"}
    /\ code \in {0, 1, None}
    /\ outages \in 0..MaxOutages

ProgramInit == Init /\ phase = "serving" /\ code = None /\ outages = 0

Quiet == \A c \in Clients : req[c].pc = "idle"

Outage == outages < MaxOutages /\ outages' = outages + 1

Return(p, k) == phase' = p /\ code' = k

\* What a request or an actor does.  The listener is open until Shutdown; with
\* the store closed a statement of a request fails.
Accepts(c) == phase = "serving" /\ Request(c) /\ UNCHANGED <<phase, code, outages>>

Proceeds(c) ==
    /\ IF phase = "closed" /\ req[c].pc \in {"update", "delete"}
         THEN /\ GoTo(c, "idle", None)
              /\ failed' = TRUE
              /\ UNCHANGED <<exists, registered, actor, cancelled, spent, dirty>>
         ELSE RequestStep(c)
    /\ UNCHANGED <<phase, code, outages>>

Fails(c) == StatementFails(c) /\ UNCHANGED <<phase, code, outages>>

Works(a) == run(a) /\ UNCHANGED <<phase, code, outages>>

\* The signal cancels the context, from which that of the manager derives.
Signal ==
    /\ phase = "serving"
    /\ Outage
    /\ Cancel
    /\ UNCHANGED <<phase, code>>

\* Shutdown closes the listener, ...
Shutdown ==
    /\ phase = "serving"
    /\ cancelled
    /\ Return("draining", None)
    /\ UNCHANGED <<vars, outages>>

\* Mutant: Shutdown does not wait.
ShutdownReturns_AtOnce ==
    /\ phase = "draining"
    /\ Return("stopping", 0)
    /\ UNCHANGED <<vars, outages>>

\* ... and waits for the requests ...
ShutdownReturns ==
    /\ phase = "draining"
    /\ Quiet
    /\ Return("stopping", 0)
    /\ UNCHANGED <<vars, outages>>

\* ... for 15 seconds.
ShutdownTimesOut ==
    /\ phase = "draining"
    /\ ~Quiet
    /\ Return("stopping", 1)
    /\ UNCHANGED <<vars, outages>>

\* ListenAndServe fails, to bind or later to accept.
ListenFails ==
    /\ phase = "serving"
    /\ Outage
    /\ Return("stopping", 1)
    /\ cancelled' = TRUE
    /\ UNCHANGED <<exists, registered, actor, req, spent, failed, dirty>>

\* Manager.Stop waits for the actors; then the store is closed.
StopReturns ==
    /\ phase = "stopping"
    /\ \A a \in Actors : ~Running(a)
    /\ Return("closed", code)
    /\ UNCHANGED <<vars, outages>>

\* The memory of the process is gone.  A pass that was cut off has not carried
\* the change it read to the node.
Vanish ==
    /\ phase' = "down"
    /\ registered' = None
    /\ actor' = [a \in Actors |-> Unspawned]
    /\ req' = [c \in Clients |-> [pc |-> "idle", actor |-> None]]
    /\ cancelled' = FALSE
    /\ dirty' = (dirty \/ (exists /\ \E a \in Actors : actor[a].pc = "work"))
    /\ UNCHANGED <<exists, spent, failed>>

Exits == phase = "closed" /\ Vanish /\ UNCHANGED <<code, outages>>

Crash == phase # "down" /\ Outage /\ Vanish /\ code' = None

\* Mutant: actors are started on demand.
Start_NoActors ==
    /\ phase = "down"
    /\ Return("serving", None)
    /\ failed' = FALSE
    /\ UNCHANGED <<exists, registered, actor, req, cancelled, spent, dirty, outages>>

\* Manager.Start spawns an actor for every node there is.  (It skips nodes whose
\* status is disabled; no code gives a node that status.)
Start ==
    /\ phase = "down"
    /\ Return("serving", None)
    /\ registered' = IF exists THEN CHOOSE a \in Actors : TRUE ELSE None
    /\ actor' = [a \in Actors |-> IF a = registered' THEN newNodeActor ELSE Unspawned]
    /\ failed' = FALSE
    /\ UNCHANGED <<exists, req, cancelled, spent, dirty, outages>>

runServe ==
    \/ Shutdown \/ ShutdownReturns \/ ShutdownTimesOut \/ StopReturns \/ Exits \/ Start

ProgramNext ==
    \/ \E c \in Clients : Accepts(c) \/ Proceeds(c) \/ Fails(c)
    \/ \E a \in Actors : Works(a)
    \/ Signal \/ ListenFails \/ Crash
    \/ runServe

ProgramSpec == ProgramInit /\ [][ProgramNext]_allVars

\* As in Manager; runServe goes on, and whoever operates the service starts it
\* again.
FairProgramSpec ==
    /\ ProgramSpec
    /\ WF_allVars(runServe)
    /\ \A c \in Clients : WF_allVars(Proceeds(c))
    /\ \A a \in Actors :
        /\ WF_allVars(Works(a) /\ (ProbeCancelled(a) \/ ReadDesired(a) \/ EndPass(a)))
        /\ SF_allVars(Works(a) /\ ProbeSucceeds(a))
        /\ SF_allVars(Works(a) /\ TakeTrigger(a))
        /\ SF_allVars(Works(a) /\ Exit(a))
-----------------------------------------------------------------------------
(***************************************************************************)
(* Properties.                                                             *)
(***************************************************************************)

\* Exit code 0 means a clean stop: when runServe is about to return it, every
\* request that was accepted has been answered and no worker runs that could
\* use the closed store.
CleanExit ==
    phase = "closed" /\ code = 0 => Quiet /\ \A a \in Actors : ~Running(a)

\* "Stop signals all loops and waits for them to exit": no worker runs when the
\* store is closed.
StoreOutlivesWorkers == phase = "closed" => \A a \in Actors : ~Running(a)

\* A node that exists has its actor while requests are served: overlapping
\* requests and requests cut off by a crash included, unless a statement
\* failed since the process started.
ServedNodeHasActor == phase = "serving" => NodeHasActor

\* A change that was committed reaches the node: although its trigger may go to
\* an actor that is being replaced or that the signal has ended, and a crash
\* may cut its pass off, a pass carries it there, after the next start if need
\* be.  (A node whose deletion is under way, or failed, has no actor.)
ChangeSurvives == dirty ~> ~dirty \/ (phase = "serving" /\ registered = None)

\* A signal ends the process: neither Shutdown nor Stop waits for ever.
SignalEnds == cancelled ~> phase = "down"

\* A node that exists has its actor, or a request is about to start one or to
\* delete the node, unless a statement failed: what ServedNodeHasActor leaves
\* out while requests are in progress.
ActorIsDue ==
    phase # "down" /\ exists /\ ~failed
        => registered # None \/ \E c \in Clients : req[c].pc \in {"start", "delete"}

\* Once Shutdown has returned without error no request is left, and once Stop
\* has returned no actor is: none of them comes back.
CleanSoFar ==
    phase \in {"stopping", "closed"} /\ code = 0
        => Quiet /\ (phase = "closed" => \A a \in Actors : ~Running(a))

\* The inductive invariant behind ServedNodeHasActor, CleanExit and
\* RunningIsRegistered: whatever the requests, the actors, runServe and a crash
\* do next, actors stay accounted for and a clean stop stays clean.
ProgramInv == ProgramTypeOK /\ RunningIsRegistered /\ ActorIsDue /\ CleanSoFar
=============================================================================
