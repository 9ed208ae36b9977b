------------------------------ MODULE Manager ------------------------------
(***************************************************************************)
(* The manager of the node actors, for one node: requests that create,     *)
(* update and delete the node, the actors they start and stop, the         *)
(* triggers that other requests send to the actor that is registered.      *)
(*                                                                         *)
(* Abstractions.  Nodes do not interact, so one stands for all.  An actor  *)
(* is its loop: the probe at startup, the tickers, the trigger channel and *)
(* the stop channel.  What a pass does is in module Reconcile, what a      *)
(* probe records in module Health, what a request for the settings of the  *)
(* node writes in module NodeSettings, how the process ends in Program.    *)
(***************************************************************************)
EXTENDS Naturals

CONSTANTS
    Actors,         \* bound: actors that exist at the same time
    Clients,        \* requests that may be in progress at the same time
    None,
    MaxOps,         \* bound: requests accepted
    MaxMisses,      \* bound: probes that fail
    MaxFaults       \* bound: database statements that fail

ASSUME ManagerAssumption ==
    /\ Actors # {} /\ None \notin Actors
    /\ {MaxOps, MaxMisses, MaxFaults} \subseteq Nat

VARIABLES
    exists,     \* the node has a row
    registered, \* the actor of the node in the map of the manager, or None
    actor,      \* per actor: what it does, stop channel closed, trigger, online
    req,        \* per request: its next step and the actor it looked up
    cancelled,  \* the context of the manager is cancelled
    spent,      \* how much of each bound is used
    failed,     \* history: a statement failed since the process started
    dirty       \* history: a change that no pass has carried to the node yet

vars == <<exists, registered, actor, req, cancelled, spent, failed, dirty>>

PCs == {"none", "probe", "loop", "pass", "work", "exited"}
Running(a) == actor[a].pc \notin {"none", "exited"}

TypeOK ==
    /\ exists \in BOOLEAN
    /\ registered \in Actors \union {None}
    /\ actor \in [Actors -> [pc : PCs, stopped : BOOLEAN, trigger : BOOLEAN, online : BOOLEAN]]
    /\ req \in [Clients -> [pc : {"idle", "update", "start", "delete", "lookup", "trigger"},
                            actor : Actors \union {None}]]
    /\ cancelled \in BOOLEAN
    /\ spent \in [ops : 0..MaxOps, misses : 0..MaxMisses, faults : 0..MaxFaults]
    /\ failed \in BOOLEAN
    /\ dirty \in BOOLEAN

Unspawned == [pc |-> "none", stopped |-> FALSE, trigger |-> FALSE, online |-> FALSE]

\* Mutant: an actor starts as online.
newNodeActor_Online == [pc |-> "probe", stopped |-> FALSE, trigger |-> FALSE, online |-> TRUE]

\* newNodeActor, and run up to the probe at startup.
newNodeActor == [pc |-> "probe", stopped |-> FALSE, trigger |-> FALSE, online |-> FALSE]

\* Manager.Start has spawned the actor of a node that has a row; or the node
\* is yet to be created.
Init ==
    /\ exists \in BOOLEAN
    /\ registered = IF exists THEN CHOOSE a \in Actors : TRUE ELSE None
    /\ actor = [a \in Actors |-> IF a = registered THEN newNodeActor ELSE Unspawned]
    /\ req = [c \in Clients |-> [pc |-> "idle", actor |-> None]]
    /\ cancelled = FALSE
    /\ spent = [ops |-> 0, misses |-> 0, faults |-> 0]
    /\ failed = FALSE
    /\ dirty = FALSE

\* The memory of an actor that has exited is used again once nothing refers to
\* it.
Free(a) ==
    /\ ~Running(a)
    /\ registered # a
    /\ \A c \in Clients : req[c].actor # a

\* The next actor: it does not matter which of them it is.
Spawned ==
    LET F == {a \in Actors : Free(a)} IN IF F = {} THEN {} ELSE {CHOOSE a \in F : TRUE}

Spend(k, max) == spent[k] < max /\ spent' = [spent EXCEPT ![k] = @ + 1]

-----------------------------------------------------------------------------
(***************************************************************************)
(* Requests.                                                               *)
(***************************************************************************)

Accept(c) == req[c].pc = "idle" /\ Spend("ops", MaxOps)
GoTo(c, p, a) == req' = [req EXCEPT ![c] = [pc |-> p, actor |-> a]]

\* NodeService.Create inserts the row, then probes and records the outcome,
\* then starts the actor.  The id is new: no actor and no request knows it.
Create(c) ==
    /\ Accept(c)
    /\ ~exists
    /\ \A a \in Actors : ~Running(a)
    /\ \A d \in Clients : req[d].pc = "idle"
    /\ exists' = TRUE
    /\ GoTo(c, "start", None)
    /\ UNCHANGED <<registered, actor, cancelled, failed, dirty>>

\* NodeService.Update reads the row (it must exist), then writes it.
Update(c) ==
    /\ Accept(c)
    /\ exists
    /\ GoTo(c, "update", None)
    /\ UNCHANGED <<exists, registered, actor, cancelled, failed, dirty>>

UpdateNode(c) ==
    /\ req[c].pc = "update"
    /\ GoTo(c, IF exists THEN "start" ELSE "idle", None)
    /\ UNCHANGED <<exists, registered, actor, cancelled, spent, failed, dirty>>

\* Mutant: an actor that is replaced is not stopped.
StartNode_KeepsOld(c) ==
    /\ req[c].pc = "start"
    /\ \E a \in Spawned :
        /\ registered' = a
        /\ actor' = [actor EXCEPT ![a] = newNodeActor]
    /\ GoTo(c, "idle", None)
    /\ UNCHANGED <<exists, cancelled, spent, failed, dirty>>

\* Manager.StartNode, under the lock: the old actor is told to stop and not
\* waited for.
StartNode(c) ==
    /\ req[c].pc = "start"
    /\ \E a \in Spawned :
        /\ registered' = a
        /\ actor' = [b \in Actors |->
                        IF b = a THEN newNodeActor
                        ELSE [actor[b] EXCEPT !.stopped = @ \/ b = registered]]
    /\ GoTo(c, "idle", None)
    /\ UNCHANGED <<exists, cancelled, spent, failed, dirty>>

\* NodeService.Delete first stops the actor (Manager.StopNode), ...
Delete(c) ==
    /\ Accept(c)
    /\ registered' = None
    /\ actor' = [b \in Actors |-> [actor[b] EXCEPT !.stopped = @ \/ b = registered]]
    /\ GoTo(c, "delete", None)
    /\ UNCHANGED <<exists, cancelled, failed, dirty>>

\* ... then deletes the row, and with it what there was to reconcile.
DeleteNode(c) ==
    /\ req[c].pc = "delete"
    /\ exists' = FALSE
    /\ dirty' = FALSE
    /\ GoTo(c, "idle", None)
    /\ UNCHANGED <<registered, actor, cancelled, spent, failed>>

\* A request commits a change for this node and then calls Manager.Reconcile,
\* which takes the actor from the map and, the lock released, triggers it.
Change(c) ==
    /\ Accept(c)
    /\ exists
    /\ dirty' = TRUE
    /\ GoTo(c, "lookup", None)
    /\ UNCHANGED <<exists, registered, actor, cancelled, failed>>

Lookup(c) ==
    /\ req[c].pc = "lookup"
    /\ GoTo(c, IF registered = None THEN "idle" ELSE "trigger", registered)
    /\ UNCHANGED <<exists, registered, actor, cancelled, spent, failed, dirty>>

triggerReconcile(c) ==
    /\ req[c].pc = "trigger"
    /\ actor' = [actor EXCEPT ![req[c].actor].trigger = TRUE]
    /\ GoTo(c, "idle", None)
    /\ UNCHANGED <<exists, registered, cancelled, spent, failed, dirty>>

\* A statement fails: the request returns its error.
StatementFails(c) ==
    /\ req[c].pc \in {"update", "delete"}
    /\ Spend("faults", MaxFaults)
    /\ failed' = TRUE
    /\ GoTo(c, "idle", None)
    /\ UNCHANGED <<exists, registered, actor, cancelled, dirty>>

-----------------------------------------------------------------------------
(***************************************************************************)
(* The loop of an actor: select picks any channel that is ready.           *)
(***************************************************************************)

Become(a, p) == actor' = [actor EXCEPT ![a].pc = p]

\* checkHealth, at startup or on its ticker: a pass if the actor was offline.
ProbeSucceeds(a) ==
    /\ actor[a].pc \in {"probe", "loop"}
    /\ ~cancelled
    /\ actor' = [actor EXCEPT ![a].pc = IF actor[a].online THEN "loop" ELSE "pass",
                              ![a].online = TRUE]
    /\ UNCHANGED <<exists, registered, req, cancelled, spent, failed, dirty>>

\* A probe fails; the third one in a row makes the actor offline.
ProbeFails(a) ==
    /\ actor[a].pc \in {"probe", "loop"}
    /\ Spend("misses", MaxMisses)
    /\ \E o \in {actor[a].online, FALSE} :
        actor' = [actor EXCEPT ![a].pc = "loop", ![a].online = o]
    /\ UNCHANGED <<exists, registered, req, cancelled, failed, dirty>>

\* With the context cancelled every call fails.
ProbeCancelled(a) ==
    /\ actor[a].pc = "probe"
    /\ cancelled
    /\ Become(a, "loop")
    /\ UNCHANGED <<exists, registered, req, cancelled, spent, failed, dirty>>

TakeTrigger(a) ==
    /\ actor[a].pc = "loop"
    /\ actor[a].trigger
    /\ actor' = [actor EXCEPT ![a].pc = "pass", ![a].trigger = FALSE]
    /\ UNCHANGED <<exists, registered, req, cancelled, spent, failed, dirty>>

\* The ticker of collect or reconcile fires.
Ticks(a) ==
    /\ actor[a].pc = "loop"
    /\ Become(a, "pass")
    /\ UNCHANGED <<exists, registered, req, cancelled, spent, failed, dirty>>

\* A pass reads the database, which fails if the context is cancelled, ...
ReadDesired(a) ==
    /\ actor[a].pc = "pass"
    /\ Become(a, IF cancelled THEN "loop" ELSE "work")
    /\ dirty' = (dirty /\ cancelled)
    /\ UNCHANGED <<exists, registered, req, cancelled, spent, failed>>

\* ... calls the node and returns to the loop.  The context may have been
\* cancelled before the calls that matter.
EndPass(a) ==
    /\ actor[a].pc = "work"
    /\ Become(a, "loop")
    /\ dirty' \in IF cancelled THEN {dirty, exists} ELSE {dirty}
    /\ UNCHANGED <<exists, registered, req, cancelled, spent, failed>>

\* Mutant: only the context ends the loop.
Exit_IgnoresStop(a) ==
    /\ actor[a].pc = "loop"
    /\ cancelled
    /\ Become(a, "exited")
    /\ UNCHANGED <<exists, registered, req, cancelled, spent, failed, dirty>>

\* Mutant: only the stop channel ends the loop.
Exit_IgnoresContext(a) ==
    /\ actor[a].pc = "loop"
    /\ actor[a].stopped
    /\ Become(a, "exited")
    /\ UNCHANGED <<exists, registered, req, cancelled, spent, failed, dirty>>

Exit(a) ==
    /\ actor[a].pc = "loop"
    /\ actor[a].stopped \/ cancelled
    /\ Become(a, "exited")
    /\ UNCHANGED <<exists, registered, req, cancelled, spent, failed, dirty>>

\* The process is told to stop: Manager.Stop waits for the actors.
Cancel ==
    /\ ~cancelled
    /\ cancelled' = TRUE
    /\ UNCHANGED <<exists, registered, actor, req, spent, failed, dirty>>

-----------------------------------------------------------------------------

Request(c) == Create(c) \/ Update(c) \/ Delete(c) \/ Change(c)

RequestStep(c) ==
    UpdateNode(c) \/ StartNode(c) \/ DeleteNode(c) \/ Lookup(c) \/ triggerReconcile(c)

run(a) ==
    \/ ProbeSucceeds(a) \/ ProbeFails(a) \/ ProbeCancelled(a)
    \/ TakeTrigger(a) \/ Ticks(a) \/ ReadDesired(a) \/ EndPass(a) \/ Exit(a)

Next ==
    \/ \E c \in Clients : Request(c) \/ RequestStep(c) \/ StatementFails(c)
    \/ \E a \in Actors : run(a)
    \/ Cancel

Spec == Init /\ [][Next]_vars

\* Requests and the operations of an actor end.  select chooses at random
\* among the channels that are ready, so a channel that is ready again and
\* again is chosen at some time: the trigger, the health ticker, stop.
FairSpec ==
    /\ Spec
    /\ \A c \in Clients : WF_vars(RequestStep(c))
    /\ \A a \in Actors :
        /\ WF_vars(ProbeCancelled(a) \/ ReadDesired(a) \/ EndPass(a))
        /\ SF_vars(ProbeSucceeds(a)) /\ SF_vars(TakeTrigger(a)) /\ SF_vars(Exit(a))
-----------------------------------------------------------------------------
(***************************************************************************)
(* Properties.                                                             *)
(***************************************************************************)

\* Every running actor that was not told to stop is the one in the map: no
\* actor is lost track of, however starts and stops interleave.
RunningIsRegistered ==
    \A a \in Actors : Running(a) /\ ~actor[a].stopped => registered = a

\* When no request is in progress, the node has an actor exactly if it exists.
ActorIffNode == (\A c \in Clients : req[c].pc = "idle") => (exists <=> registered # None)

\* A change that is announced reaches a pass without the reconcile ticker,
\* even if its trigger went to an actor that was being replaced: the successor
\* starts with a pass.  (A node whose deletion is under way, or failed, has no
\* actor; the system may be shut down.)
ChangeReachesPass == dirty ~> ~dirty \/ registered = None \/ cancelled

\* Requests that overlap, and those that a crash cut off, never leave a node
\* without its actor: unless a statement failed since the process started, a
\* node that exists has one when no request is in progress.
NodeHasActor ==
    exists /\ ~failed /\ (\A c \in Clients : req[c].pc = "idle") => registered # None

\* An actor that is told to stop, or whose manager shuts down, exits: Stop
\* does not wait for ever.
ActorsExit ==
    \A a \in Actors : (Running(a) /\ (actor[a].stopped \/ cancelled)) ~> ~Running(a)

\* One goroutine owns all interaction with the node: no two actors of the
\* node are in an operation at the same time.
OneActorActs ==
    \A a, b \in Actors :
        {actor[a].pc, actor[b].pc} \subseteq {"probe", "pass", "work"} => a = b
=============================================================================
