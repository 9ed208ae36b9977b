--------------------------- MODULE ProgramProofs ----------------------------
(***************************************************************************)
(* Proofs about Program, and with it about Manager: the actors that run    *)
(* are accounted for, a node that is served has its actor, and exit code 0 *)
(* means a clean stop, for any number of actors and overlapping requests.  *)
(***************************************************************************)
EXTENDS Program, TLAPS

-----------------------------------------------------------------------------
(***************************************************************************)
(* What the operators return.                                              *)
(***************************************************************************)

\* Manager.Start has an actor to spawn.
LEMMA SomeActor == (CHOOSE a \in Actors : TRUE) \in Actors
BY Zenon, ManagerAssumption

\* An actor that is spawned was free.
LEMMA SpawnedFacts ==
    ASSUME NEW a \in Spawned
    PROVE  a \in Actors /\ Free(a)
<1> DEFINE F == {b \in Actors : Free(b)}
<1>1. F # {} /\ a = CHOOSE b \in F : TRUE
  BY Zenon DEF Spawned
<1>2. a \in F
  BY Zenon, <1>1
<1>3. QED
  BY Zenon, <1>2

\* The actors of the manager, and its requests.
ActorState == [pc : PCs, stopped : BOOLEAN, trigger : BOOLEAN, online : BOOLEAN]
RequestState == [pc : {"idle", "update", "start", "delete", "lookup", "trigger"},
                 actor : Actors \union {None}]

\* A new actor, and the memory of one that is not there.
LEMMA NewActorType == newNodeActor \in ActorState /\ Unspawned \in ActorState
BY DEF newNodeActor, Unspawned, ActorState, PCs

\* Stopping the actor that is registered changes its stop channel only.
LEMMA StoppedFacts ==
    ASSUME actor \in [Actors -> ActorState], NEW b \in Actors
    PROVE  LET t == [actor[b] EXCEPT !.stopped = @ \/ b = registered]
           IN  /\ t \in ActorState
               /\ t.pc = actor[b].pc
               /\ t.stopped = (actor[b].stopped \/ b = registered)
BY Zenon DEF ActorState

\* What a probe does to an actor.
LEMMA ProbedType ==
    ASSUME actor \in [Actors -> ActorState], NEW a \in Actors,
           NEW p \in PCs, NEW o \in BOOLEAN
    PROVE  [actor EXCEPT ![a].pc = p, ![a].online = o] \in [Actors -> ActorState]
<1>1. [actor[a] EXCEPT !.pc = p, !.online = o] \in ActorState
  BY DEF ActorState
<1>2. QED
  BY <1>1

\* A request that goes on is a request.
LEMMA GoToType ==
    ASSUME req \in [Clients -> RequestState], NEW c \in Clients,
           NEW p \in {"idle", "update", "start", "delete", "lookup", "trigger"},
           NEW a \in Actors \union {None}, GoTo(c, p, a)
    PROVE  req' \in [Clients -> RequestState]
BY DEF GoTo, RequestState

\* Using up a bound stays within it.
LEMMA SpendType ==
    ASSUME spent \in [ops : 0..MaxOps, misses : 0..MaxMisses, faults : 0..MaxFaults],
           \/ Spend("ops", MaxOps)
           \/ Spend("misses", MaxMisses)
           \/ Spend("faults", MaxFaults)
    PROVE  spent' \in [ops : 0..MaxOps, misses : 0..MaxMisses, faults : 0..MaxFaults]
BY ManagerAssumption DEF Spend

-----------------------------------------------------------------------------
(***************************************************************************)
(* Types.                                                                  *)
(***************************************************************************)

\* The requests: each accepts or goes on, starts and stops actors, or fails.
LEMMA RequestType ==
    ASSUME TypeOK, NEW c \in Clients, Request(c) \/ RequestStep(c) \/ StatementFails(c)
    PROVE  TypeOK'
<1> USE DEF TypeOK, ActorState, RequestState
<1>1. CASE Create(c)
  BY <1>1, GoToType, SpendType DEF Create, Accept
<1>2. CASE Update(c)
  BY <1>2, GoToType, SpendType DEF Update, Accept
<1>3. CASE Delete(c)
  <2>1. actor' \in [Actors -> ActorState]
    BY Zenon, <1>3, StoppedFacts DEF Delete
  <2>2. QED
    BY <1>3, <2>1, GoToType, SpendType DEF Delete, Accept
<1>4. CASE Change(c)
  BY <1>4, GoToType, SpendType DEF Change, Accept
<1>5. CASE UpdateNode(c)
  BY <1>5, GoToType DEF UpdateNode
<1>6. CASE StartNode(c)
  <2>1. PICK a \in Spawned :
            /\ registered' = a
            /\ actor' = [b \in Actors |->
                            IF b = a THEN newNodeActor
                            ELSE [actor[b] EXCEPT !.stopped = @ \/ b = registered]]
    BY Zenon, <1>6 DEF StartNode
  <2>2. actor' \in [Actors -> ActorState]
    BY Zenon, <2>1, StoppedFacts, NewActorType
  <2>3. QED
    BY <1>6, <2>1, <2>2, GoToType, SpawnedFacts DEF StartNode
<1>7. CASE DeleteNode(c)
  BY <1>7, GoToType DEF DeleteNode
<1>8. CASE Lookup(c)
  BY <1>8, GoToType DEF Lookup
<1>9. CASE triggerReconcile(c)
  <2>1. actor' \in [Actors -> ActorState]
    BY Zenon, <1>9 DEF triggerReconcile, TypeOK, ActorState
  <2>2. QED
    BY Zenon, <1>9, <2>1, GoToType DEF triggerReconcile
<1>10. CASE StatementFails(c)
  BY <1>10, GoToType, SpendType DEF StatementFails
<1>11. QED
  BY Zenon, <1>1, <1>2, <1>3, <1>4, <1>5, <1>6, <1>7, <1>8, <1>9, <1>10
     DEF Request, RequestStep

\* The loop of an actor.
LEMMA RunType ==
    ASSUME TypeOK, NEW a \in Actors, run(a)
    PROVE  TypeOK'
<1> USE DEF TypeOK, PCs, Become
<1>1. CASE ProbeSucceeds(a)
  <2>1. (IF actor[a].online THEN "loop" ELSE "pass") \in PCs
    BY Zenon DEF PCs
  <2>2. actor' \in [Actors -> ActorState]
    BY Zenon, <1>1, <2>1, ProbedType DEF ProbeSucceeds, ActorState
  <2>3. QED
    BY <1>1, <2>2 DEF ProbeSucceeds, ActorState
<1>2. CASE ProbeFails(a)
  <2>1. PICK o \in {actor[a].online, FALSE} :
            actor' = [actor EXCEPT ![a].pc = "loop", ![a].online = o]
    BY Zenon, <1>2 DEF ProbeFails
  <2>2. o \in BOOLEAN
    BY Zenon, <2>1 DEF ActorState
  <2>3. actor' \in [Actors -> ActorState]
    BY Zenon, <2>1, <2>2, ProbedType DEF ActorState
  <2>4. QED
    BY <1>2, <2>3, SpendType DEF ProbeFails, ActorState
<1>3. CASE ProbeCancelled(a)
  BY <1>3 DEF ProbeCancelled
<1>4. CASE TakeTrigger(a)
  BY <1>4 DEF TakeTrigger
<1>5. CASE Ticks(a)
  BY <1>5 DEF Ticks
<1>6. CASE ReadDesired(a)
  BY <1>6 DEF ReadDesired
<1>7. CASE EndPass(a)
  BY <1>7 DEF EndPass
<1>8. CASE Exit(a)
  BY <1>8 DEF Exit
<1>9. QED
  BY Zenon, <1>1, <1>2, <1>3, <1>4, <1>5, <1>6, <1>7, <1>8 DEF run

\* Every step of the process.
LEMMA ProgramType ==
    ASSUME ProgramTypeOK, [ProgramNext]_allVars
    PROVE  ProgramTypeOK'
<1> USE DEF ProgramTypeOK
<1>1. ASSUME NEW c \in Clients, Accepts(c) PROVE ProgramTypeOK'
  BY Zenon, <1>1, RequestType DEF Accepts
<1>2. ASSUME NEW c \in Clients, Proceeds(c) PROVE ProgramTypeOK'
  <2>1. CASE RequestStep(c)
    BY Zenon, <1>2, <2>1, RequestType DEF Proceeds
  <2>2. CASE ~RequestStep(c)
    BY <1>2, <2>2, GoToType DEF Proceeds, TypeOK, RequestState
  <2>3. QED
    BY Zenon, <2>1, <2>2
<1>3. ASSUME NEW c \in Clients, Fails(c) PROVE ProgramTypeOK'
  BY Zenon, <1>3, RequestType DEF Fails
<1>4. ASSUME NEW a \in Actors, Works(a) PROVE ProgramTypeOK'
  BY Zenon, <1>4, RunType DEF Works
<1>5. CASE Signal
  BY <1>5, ProgramAssumption DEF Signal, Outage, Cancel, TypeOK
<1>6. CASE ListenFails
  BY <1>6, ProgramAssumption DEF ListenFails, Outage, Return, TypeOK
<1>7. ASSUME Vanish PROVE TypeOK' /\ phase' = "down"
  <2>1. actor' \in [Actors -> ActorState]
    BY Zenon, <1>7, NewActorType DEF Vanish
  <2>2. dirty' \in BOOLEAN
    BY Zenon, <1>7 DEF Vanish, TypeOK
  <2>3. QED
    BY <1>7, <2>1, <2>2 DEF Vanish, TypeOK, ActorState
<1>8. CASE Crash
  BY <1>7, <1>8, ProgramAssumption DEF Crash, Outage
<1>9. CASE Exits
  BY <1>7, <1>9 DEF Exits
<1>10. CASE Shutdown \/ ShutdownReturns \/ ShutdownTimesOut \/ StopReturns
  BY <1>10 DEF Shutdown, ShutdownReturns, ShutdownTimesOut, StopReturns, Return, TypeOK, vars
<1>11. CASE Start
  <2>1. registered' \in Actors \union {None}
    BY Zenon, <1>11, SomeActor DEF Start
  <2>2. actor' \in [Actors -> ActorState]
    BY Zenon, <1>11, NewActorType DEF Start
  <2>3. QED
    BY <1>11, <2>1, <2>2 DEF Start, Return, TypeOK, ActorState
<1>12. CASE UNCHANGED allVars
  BY <1>12 DEF allVars, vars, TypeOK
<1>13. QED
  BY Zenon, <1>1, <1>2, <1>3, <1>4, <1>5, <1>6, <1>8, <1>9, <1>10, <1>11, <1>12
     DEF ProgramNext, runServe

-----------------------------------------------------------------------------
(***************************************************************************)
(* What the steps do to the actors and to the requests.                    *)
(***************************************************************************)

\* Only an actor that runs takes a step; it changes nothing of the others, and
\* neither the map nor a stop channel.
LEMMA RunFacts ==
    ASSUME TypeOK, NEW a \in Actors, run(a)
    PROVE  /\ Running(a)
           /\ UNCHANGED <<exists, registered, req, cancelled, failed>>
           /\ \A b \in Actors : /\ actor'[b].stopped = actor[b].stopped
                                /\ b # a => actor'[b].pc = actor[b].pc
<1> USE DEF TypeOK, Running, Become
<1>1. CASE ProbeSucceeds(a) \/ ProbeFails(a)
  BY <1>1 DEF ProbeSucceeds, ProbeFails
<1>2. CASE ProbeCancelled(a) \/ TakeTrigger(a) \/ Ticks(a)
  BY <1>2 DEF ProbeCancelled, TakeTrigger, Ticks
<1>3. CASE ReadDesired(a) \/ EndPass(a) \/ Exit(a)
  BY <1>3 DEF ReadDesired, EndPass, Exit
<1>4. QED
  BY Zenon, <1>1, <1>2, <1>3 DEF run

\* StartNode: the new actor is in the map, the old one is told to stop.
LEMMA StartNodeFacts ==
    ASSUME TypeOK, NEW c \in Clients, StartNode(c)
    PROVE  /\ registered' \in Actors
           /\ \A b \in Actors \ {registered'} :
                /\ actor'[b].pc = actor[b].pc
                /\ actor'[b].stopped = (actor[b].stopped \/ b = registered)
<1>1. PICK a \in Spawned :
          /\ registered' = a
          /\ actor' = [b \in Actors |->
                          IF b = a THEN newNodeActor
                          ELSE [actor[b] EXCEPT !.stopped = @ \/ b = registered]]
  BY Zenon DEF StartNode
<1>2. a \in Actors
  BY Zenon, SpawnedFacts
<1>3. ASSUME NEW b \in Actors \ {a}
      PROVE  actor'[b] = [actor[b] EXCEPT !.stopped = @ \/ b = registered]
  BY Zenon, <1>1
<1>4. actor \in [Actors -> ActorState]
  BY Zenon DEF TypeOK, ActorState
<1>5. QED
  BY Zenon, <1>1, <1>2, <1>3, <1>4, StoppedFacts

\* Delete: the actor is taken out of the map and told to stop.
LEMMA DeleteFacts ==
    ASSUME TypeOK, NEW c \in Clients, Delete(c)
    PROVE  \A b \in Actors :
                /\ actor'[b].pc = actor[b].pc
                /\ actor'[b].stopped = (actor[b].stopped \/ b = registered)
<1> TAKE b \in Actors
<1>1. actor'[b] = [actor[b] EXCEPT !.stopped = @ \/ b = registered]
  BY Zenon DEF Delete
<1>2. actor \in [Actors -> ActorState]
  BY Zenon DEF TypeOK, ActorState
<1>3. QED
  BY Zenon, <1>1, <1>2, StoppedFacts

\* No other step of a request changes the map, or more of an actor than its
\* trigger.
LEMMA RequestFacts ==
    ASSUME TypeOK, NEW c \in Clients,
           Request(c) \/ RequestStep(c) \/ StatementFails(c),
           ~StartNode(c), ~Delete(c)
    PROVE  /\ registered' = registered
           /\ \A b \in Actors : /\ actor'[b].pc = actor[b].pc
                                /\ actor'[b].stopped = actor[b].stopped
<1>1. CASE Create(c) \/ Update(c) \/ Change(c)
  BY Zenon, <1>1 DEF Create, Update, Change
<1>2. CASE UpdateNode(c) \/ DeleteNode(c) \/ Lookup(c) \/ StatementFails(c)
  BY Zenon, <1>2 DEF UpdateNode, DeleteNode, Lookup, StatementFails
<1>3. CASE triggerReconcile(c)
  BY <1>3 DEF triggerReconcile, TypeOK
<1>4. QED
  BY Zenon, <1>1, <1>2, <1>3 DEF Request, RequestStep

\* A crash and an exit leave nothing in memory.
LEMMA VanishFacts ==
    ASSUME Vanish
    PROVE  /\ phase' = "down"
           /\ \A a \in Actors : ~Running(a)'
BY DEF Vanish, Running, Unspawned

-----------------------------------------------------------------------------
(***************************************************************************)
(* The invariant, conjunct by conjunct.                                    *)
(***************************************************************************)

\* An actor that runs without having been told to stop is the one in the map.
LEMMA RegisteredStep ==
    ASSUME ProgramTypeOK, RunningIsRegistered, [ProgramNext]_allVars
    PROVE  RunningIsRegistered'
<1> SUFFICES ASSUME NEW b \in Actors, Running(b)', ~actor'[b].stopped
             PROVE  registered' = b
  BY Zenon DEF RunningIsRegistered
<1> USE DEF RunningIsRegistered, ProgramTypeOK
<1>1. ASSUME NEW c \in Clients, Request(c) \/ RequestStep(c) \/ StatementFails(c)
      PROVE  registered' = b
  <2>1. CASE StartNode(c)
    BY Zenon, <2>1, StartNodeFacts DEF Running
  <2>2. CASE Delete(c)
    BY Zenon, <2>2, DeleteFacts DEF Running
  <2>3. CASE ~StartNode(c) /\ ~Delete(c)
    BY Zenon, <1>1, <2>3, RequestFacts DEF Running
  <2>4. QED
    BY Zenon, <2>1, <2>2, <2>3
<1>2. ASSUME NEW a \in Actors, Works(a) PROVE registered' = b
  BY Zenon, <1>2, RunFacts DEF Works, Running
<1>3. ASSUME UNCHANGED <<registered, actor>> PROVE registered' = b
  BY Zenon, <1>3 DEF Running
<1>4. ASSUME NEW c \in Clients, Accepts(c) \/ Proceeds(c) \/ Fails(c)
      PROVE  registered' = b
  BY Zenon, <1>1, <1>3, <1>4 DEF Accepts, Proceeds, Fails
<1>5. CASE Signal \/ ListenFails
  BY Zenon, <1>3, <1>5 DEF Signal, Cancel, ListenFails
<1>6. CASE Crash \/ Exits
  BY Zenon, <1>6, VanishFacts DEF Crash, Exits
<1>7. CASE Shutdown \/ ShutdownReturns \/ ShutdownTimesOut \/ StopReturns
  BY Zenon, <1>3, <1>7 DEF Shutdown, ShutdownReturns, ShutdownTimesOut, StopReturns, vars
<1>8. CASE Start
  BY <1>8 DEF Start, Running, Unspawned
<1>9. CASE UNCHANGED allVars
  BY Zenon, <1>3, <1>9 DEF allVars, vars
<1>10. QED
  BY Zenon, <1>2, <1>4, <1>5, <1>6, <1>7, <1>8, <1>9 DEF ProgramNext, runServe

\* A request that leaves a node without its actor says so: it is about to
\* start one or to delete the node, or a statement failed.
LEMMA RequestDue ==
    ASSUME TypeOK, ActorIsDue, NEW c \in Clients, phase' = phase,
           Request(c) \/ RequestStep(c) \/ StatementFails(c)
    PROVE  ActorIsDue'
<1> USE DEF ActorIsDue, TypeOK, GoTo
<1>1. CASE Create(c)
  BY <1>1 DEF Create
<1>2. CASE Update(c)
  BY <1>2 DEF Update, Accept
<1>3. CASE Delete(c)
  BY <1>3 DEF Delete
<1>4. CASE Change(c)
  BY <1>4 DEF Change, Accept
<1>5. CASE UpdateNode(c)
  BY <1>5 DEF UpdateNode
<1>6. CASE StartNode(c)
  BY Zenon, <1>6, StartNodeFacts, ManagerAssumption
<1>7. CASE DeleteNode(c)
  BY <1>7 DEF DeleteNode
<1>8. CASE Lookup(c)
  BY <1>8 DEF Lookup
<1>9. CASE triggerReconcile(c)
  BY <1>9 DEF triggerReconcile
<1>10. CASE StatementFails(c)
  BY <1>10 DEF StatementFails
<1>11. QED
  BY Zenon, <1>1, <1>2, <1>3, <1>4, <1>5, <1>6, <1>7, <1>8, <1>9, <1>10
     DEF Request, RequestStep

\* A node that exists has its actor, or one is due.
LEMMA DueStep ==
    ASSUME ProgramTypeOK, ActorIsDue, [ProgramNext]_allVars
    PROVE  ActorIsDue'
<1> USE DEF ActorIsDue, ProgramTypeOK
<1>1. ASSUME NEW c \in Clients, Accepts(c) \/ Proceeds(c) \/ Fails(c)
      PROVE  ActorIsDue'
  <2>1. CASE Request(c) \/ RequestStep(c) \/ StatementFails(c)
    BY Zenon, <1>1, <2>1, RequestDue DEF Accepts, Proceeds, Fails
  <2>2. CASE ~(Request(c) \/ RequestStep(c) \/ StatementFails(c))
    BY Zenon, <1>1, <2>2 DEF Accepts, Proceeds, Fails
  <2>3. QED
    BY Zenon, <2>1, <2>2
<1>2. ASSUME UNCHANGED <<exists, registered, req, failed>>, phase # "down"
      PROVE  ActorIsDue'
  BY Zenon, <1>2
<1>3. ASSUME NEW a \in Actors, Works(a) PROVE ActorIsDue'
  BY Zenon, <1>3, RunFacts DEF Works
<1>4. CASE Signal \/ ListenFails
  BY <1>2, <1>4 DEF Signal, Cancel, ListenFails
<1>5. CASE Crash \/ Exits
  BY Zenon, <1>5, VanishFacts DEF Crash, Exits
<1>6. CASE Shutdown \/ ShutdownReturns \/ ShutdownTimesOut \/ StopReturns
  BY <1>2, <1>6 DEF Shutdown, ShutdownReturns, ShutdownTimesOut, StopReturns, vars
<1>7. CASE Start
  BY Zenon, <1>7, SomeActor, ManagerAssumption DEF Start
<1>8. CASE UNCHANGED allVars
  BY Zenon, <1>8 DEF allVars, vars
<1>9. QED
  BY Zenon, <1>1, <1>3, <1>4, <1>5, <1>6, <1>7, <1>8 DEF ProgramNext, runServe

\* When no request is in progress only Accepts begins one.
LEMMA QuietStays ==
    ASSUME Quiet, NEW c \in Clients, Proceeds(c) \/ Fails(c)
    PROVE  FALSE
BY DEF Quiet, Proceeds, Fails, RequestStep, StatementFails, UpdateNode, StartNode,
       DeleteNode, Lookup, triggerReconcile

\* A clean stop stays clean: no request begins and no actor is started.
LEMMA CleanStep ==
    ASSUME ProgramTypeOK, CleanSoFar, [ProgramNext]_allVars
    PROVE  CleanSoFar'
<1> USE DEF CleanSoFar, ProgramTypeOK
<1>1. ASSUME UNCHANGED <<phase, code, req, actor>> PROVE CleanSoFar'
  BY Zenon, <1>1 DEF Quiet, Running
<1>2. ASSUME NEW c \in Clients, Accepts(c) PROVE CleanSoFar'
  BY <1>2 DEF Accepts
<1>3. ASSUME NEW c \in Clients, Proceeds(c) \/ Fails(c) PROVE CleanSoFar'
  BY Zenon, <1>3, QuietStays DEF Proceeds, Fails
<1>4. ASSUME NEW a \in Actors, Works(a) PROVE CleanSoFar'
  BY Zenon, <1>4, RunFacts DEF Works, Quiet
<1>5. CASE Signal
  BY Zenon, <1>1, <1>5 DEF Signal, Cancel
<1>6. CASE ListenFails
  BY <1>6 DEF ListenFails, Return
<1>7. CASE Crash \/ Exits
  BY <1>7, VanishFacts DEF Crash, Exits
<1>8. CASE Shutdown \/ ShutdownReturns \/ ShutdownTimesOut
  BY <1>8 DEF Shutdown, ShutdownReturns, ShutdownTimesOut, Return, vars, Quiet
<1>9. CASE StopReturns
  BY <1>9 DEF StopReturns, Return, vars, Quiet, Running
<1>10. CASE Start
  BY <1>10 DEF Start, Return
<1>11. CASE UNCHANGED allVars
  BY Zenon, <1>1, <1>11 DEF allVars, vars
<1>12. QED
  BY Zenon, <1>2, <1>3, <1>4, <1>5, <1>6, <1>7, <1>8, <1>9, <1>10, <1>11
     DEF ProgramNext, runServe

-----------------------------------------------------------------------------
(***************************************************************************)
(* The theorems.                                                           *)
(***************************************************************************)

\* The process as runServe starts it satisfies the invariant.
LEMMA InitProgram == ProgramInit => ProgramInv
<1> SUFFICES ASSUME ProgramInit PROVE ProgramInv
  OBVIOUS
<1>1. registered \in Actors \union {None} /\ (exists => registered # None)
  BY Zenon, SomeActor, ManagerAssumption DEF ProgramInit, Init
<1>2. ProgramTypeOK
  <2>1. actor \in [Actors -> ActorState]
    BY Zenon, NewActorType DEF ProgramInit, Init
  <2>2. req \in [Clients -> RequestState]
    BY DEF ProgramInit, Init, RequestState
  <2>3. /\ exists \in BOOLEAN /\ cancelled = FALSE /\ failed = FALSE /\ dirty = FALSE
        /\ spent = [ops |-> 0, misses |-> 0, faults |-> 0]
        /\ phase = "serving" /\ code = None /\ outages = 0
    BY Zenon DEF ProgramInit, Init
  <2>4. /\ spent \in [ops : 0..MaxOps, misses : 0..MaxMisses, faults : 0..MaxFaults]
        /\ outages \in 0..MaxOutages
    BY <2>3, ManagerAssumption, ProgramAssumption
  <2>5. QED
    BY Zenon, <1>1, <2>1, <2>2, <2>3, <2>4
       DEF ProgramTypeOK, TypeOK, ActorState, RequestState
<1>3. RunningIsRegistered
  <2>1. ASSUME NEW a \in Actors, a # registered PROVE actor[a] = Unspawned
    BY Zenon, <2>1 DEF ProgramInit, Init
  <2>2. QED
    BY <2>1 DEF RunningIsRegistered, Running, Unspawned
<1>4. ActorIsDue
  BY Zenon, <1>1 DEF ActorIsDue
<1>5. CleanSoFar
  BY DEF CleanSoFar, ProgramInit
<1>6. QED
  BY Zenon, <1>2, <1>3, <1>4, <1>5 DEF ProgramInv

\* Every step of requests, actors and runServe, and every crash, keeps it.
LEMMA NextProgram == ProgramInv /\ [ProgramNext]_allVars => ProgramInv'
BY Zenon, ProgramType, RegisteredStep, DueStep, CleanStep DEF ProgramInv

\* The inductive invariant holds for any number of actors and of requests that
\* overlap, and across any number of signals, crashes and restarts.
THEOREM ProgramInvariance == ProgramSpec => []ProgramInv
BY InitProgram, NextProgram, PTL DEF ProgramSpec

\* The fields of the manager and of its actors keep their types.
THEOREM ProgramTypes == ProgramSpec => []ProgramTypeOK
<1>1. ProgramInv => ProgramTypeOK
  BY Zenon DEF ProgramInv
<1>2. QED
  BY <1>1, ProgramInvariance, PTL

\* No actor is lost track of: StartNode and StopNode may interleave as they
\* like, an actor that runs and was not told to stop is the one in the map.
THEOREM NoActorLost == ProgramSpec => []RunningIsRegistered
<1>1. ProgramInv => RunningIsRegistered
  BY Zenon DEF ProgramInv
<1>2. QED
  BY <1>1, ProgramInvariance, PTL

\* A node that exists has its actor while the process serves and no request is
\* in progress, unless a statement failed since the process started.
THEOREM NodeIsServed == ProgramSpec => []ServedNodeHasActor
<1>1. ProgramInv => ServedNodeHasActor
  BY DEF ProgramInv, ActorIsDue, ServedNodeHasActor, NodeHasActor
<1>2. QED
  BY <1>1, ProgramInvariance, PTL

\* Exit code 0 of runServe: every request was answered and no actor runs.
THEOREM ExitIsClean == ProgramSpec => []CleanExit
<1>1. ProgramInv => CleanExit
  BY DEF ProgramInv, CleanSoFar, CleanExit
<1>2. QED
  BY <1>1, ProgramInvariance, PTL
=============================================================================
