----------------------------- MODULE NodeProofs -----------------------------
(***************************************************************************)
(* Proofs about the two modules for a row of the table nodes: NodeSettings *)
(* (what the actor dials with) and Health (what the probes record).        *)
(***************************************************************************)
EXTENDS Health, NodeSettings, TLAPS

-----------------------------------------------------------------------------
(***************************************************************************)
(* Settings.                                                               *)
(***************************************************************************)

\* Without material a configuration can be built.
LEMMA NothingBuilds ==
    /\ NoSettings \in Settings
    /\ buildTLSConfig(NoSettings)
    /\ NothingGiven \in NodeInput
BY DEF NoSettings, Settings, CACerts, ClientCerts, ClientKeys,
       buildTLSConfig, NothingGiven, NodeInput

\* What a request gives replaces what was read, and leaves settings.
LEMMA AppliedType ==
    ASSUME NEW n \in Settings, NEW in \in NodeInput
    PROVE  Applied(n, in) \in Settings
BY DEF Applied, Settings, NodeInput

RequestState ==
    [pc : {"idle", "insert", "update", "start"}, in : NodeInput, node : Settings]

\* A request that goes on with material that makes a configuration.
LEMMA RequestBuilds ==
    ASSUME SettingsInv, NEW c \in Clients, NEW s \in RequestState,
           buildTLSConfig(s.node), req' = [req EXCEPT ![c] = s]
    PROVE  /\ req' \in [Clients -> RequestState]
           /\ \A d \in Clients : buildTLSConfig(req'[d].node)
<1>1. /\ req' \in [Clients -> RequestState]
      /\ req'[c] = s
      /\ \A d \in Clients \ {c} : req'[d] = req[d]
  BY Zenon DEF SettingsInv, SettingsTypeOK, RequestState
<1>2. QED
  BY Zenon, <1>1 DEF SettingsInv

\* Create and Update: what is validated is what the request will write.
LEMMA ValidatedInv ==
    ASSUME SettingsInv, NEW c \in Clients, NEW in \in NodeInput,
           Create(c, in) \/ Update(c, in)
    PROVE  SettingsInv'
<1> USE DEF SettingsInv
<1>1. PICK p \in {"insert", "update"}, n \in Settings : Validated(c, p, n, in)
  BY Zenon, NothingBuilds DEF Create, Update, SettingsTypeOK
<1>2. UNCHANGED <<exists, material, dialled>> /\ ops' \in 0..MaxOps
  BY SettingsAssumption DEF Create, Update, Accept, SettingsTypeOK
<1>3. /\ req' \in [Clients -> RequestState]
      /\ \A d \in Clients : buildTLSConfig(req'[d].node)
  <2>1. CASE ValidateTLSMaterial(n, in)
    <3> DEFINE s == [pc |-> p, in |-> in, node |-> Applied(n, in)]
    <3>1. s \in RequestState /\ s.node = Applied(n, in)
      BY AppliedType DEF RequestState
    <3>2. req' = [req EXCEPT ![c] = s]
      BY Zenon, <1>1, <2>1 DEF Validated
    <3> HIDE DEF s
    <3>3. QED
      BY Zenon, <2>1, <3>1, <3>2, RequestBuilds DEF ValidateTLSMaterial
  <2>2. CASE ~ValidateTLSMaterial(n, in)
    BY Zenon, <1>1, <2>2 DEF Validated, SettingsTypeOK, RequestState
  <2>3. QED
    BY Zenon, <2>1, <2>2
<1>4. QED
  BY Zenon, <1>2, <1>3 DEF SettingsTypeOK, RequestState, buildTLSConfig

\* CreateNode and UpdateNode write what was validated.
LEMMA WriteInv ==
    ASSUME SettingsInv, NEW c \in Clients, CreateNode(c) \/ UpdateNode(c)
    PROVE  SettingsInv'
<1> USE DEF SettingsInv
<1> DEFINE s == [pc |-> "start", in |-> NothingGiven, node |-> req[c].node]
<1>1. /\ material' = req[c].node
      /\ req' = [req EXCEPT ![c] = s]
      /\ exists' \in BOOLEAN
      /\ UNCHANGED <<dialled, ops>>
  BY DEF CreateNode, UpdateNode, SettingsTypeOK
<1>2. s \in RequestState /\ s.node = req[c].node
  BY NothingBuilds DEF RequestState, SettingsTypeOK
<1> HIDE DEF s
<1>3. /\ req' \in [Clients -> RequestState]
      /\ \A d \in Clients : buildTLSConfig(req'[d].node)
  BY Zenon, <1>1, <1>2, RequestBuilds
<1>4. material' \in Settings
  BY Zenon, <1>1 DEF SettingsTypeOK
<1>5. QED
  BY Zenon, <1>1, <1>3, <1>4 DEF SettingsTypeOK, RequestState, buildTLSConfig

\* StartNode: the actor gets what the request has written.
LEMMA StartInv ==
    ASSUME SettingsInv, NEW c \in Clients, Reconnect(c)
    PROVE  SettingsInv'
<1> USE DEF SettingsInv
<1>1. /\ dialled' = req[c].node
      /\ req' = [req EXCEPT ![c] = Idle]
      /\ UNCHANGED <<exists, material, ops>>
  BY Zenon DEF Reconnect
<1>2. Idle \in RequestState /\ Idle.node = NoSettings
  BY NothingBuilds DEF RequestState, Idle
<1>3. /\ req' \in [Clients -> RequestState]
      /\ \A d \in Clients : buildTLSConfig(req'[d].node)
  BY Zenon, <1>1, <1>2, NothingBuilds, RequestBuilds
<1>4. QED
  BY Zenon, <1>1, <1>3 DEF SettingsTypeOK, RequestState, buildTLSConfig

\* Every step of the requests, and a restart, keeps the invariant.
LEMMA SettingsStep ==
    ASSUME SettingsInv, [SettingsNext]_settingsVars
    PROVE  SettingsInv'
<1>1. CASE Restart
  <2>1. Idle \in RequestState /\ Idle.node = NoSettings
    BY NothingBuilds DEF RequestState, Idle
  <2>2. QED
    BY Zenon, <1>1, <2>1, NothingBuilds
       DEF Restart, SettingsInv, SettingsTypeOK, RequestState, buildTLSConfig
<1>2. CASE UNCHANGED settingsVars
  BY Zenon, <1>2 DEF settingsVars, SettingsInv, SettingsTypeOK, buildTLSConfig
<1>3. QED
  BY Zenon, <1>1, <1>2, ValidatedInv, WriteInv, StartInv DEF SettingsNext

\* A node that is yet to be created has no material.
LEMMA SettingsStart ==
    ASSUME SettingsInit
    PROVE  SettingsInv
<1>1. Idle \in RequestState /\ Idle.node = NoSettings
  BY NothingBuilds DEF RequestState, Idle
<1>2. ops \in 0..MaxOps
  BY SettingsAssumption DEF SettingsInit
<1>3. QED
  BY Zenon, <1>1, <1>2, NothingBuilds
     DEF SettingsInit, SettingsInv, SettingsTypeOK, RequestState

\* The inductive invariant holds for any number of overlapping requests and any
\* material they carry.
THEOREM SettingsInvariance == SettingsSpec => []SettingsInv
BY SettingsStart, SettingsStep, PTL DEF SettingsSpec

\* Validation of the merged material suffices: Dial fails to make a
\* configuration from no row and for no actor, however updates overlap.
THEOREM MaterialBuilds == SettingsSpec => []StoredMaterialBuilds
<1>1. SettingsInv => StoredMaterialBuilds
  BY Zenon DEF SettingsInv, StoredMaterialBuilds, Dials
<1>2. QED
  BY <1>1, SettingsInvariance, PTL

-----------------------------------------------------------------------------
(***************************************************************************)
(* Health.                                                                 *)
(***************************************************************************)

NodeState == [reachable : BOOLEAN, uptime : 0..MaxUptime]
UpdateState == [pc : {"idle", "write", "start"}, status : NodeStatus]
Bounds == [restarts : 0..MaxRestarts, outages : 0..MaxOutages,
           starts : 0..MaxStarts, faults : 0..MaxFaults]
SeenState == [restart : BOOLEAN, since : 0..MaxUptime,
              missed : 0..healthFailThreshold, online : BOOLEAN]

\* What HealthInv says of an actor with fields f that has seen h, when the
\* uptime of the node is u.
Consistent(f, h, u) ==
    /\ h.missed = f.failCount
    /\ f.online => h.online /\ f.status = "online"
    /\ h.online /\ f.status # "online" => h.missed = healthFailThreshold
    /\ h.restart => f.pc # "none" /\ u <= h.since

\* The types and the invariant with these names.
LEMMA HealthTypes ==
    TypeOK <=> /\ node \in NodeState /\ actor \in [Actors -> ActorState] /\ registered \in Actors
               /\ update \in [Updates -> UpdateState] /\ row \in NodeStatus
               /\ spent \in Bounds /\ seen \in [Actors -> SeenState]
BY Zenon DEF TypeOK, NodeState, UpdateState, Bounds, SeenState

LEMMA HealthParts ==
    HealthInv <=> TypeOK /\ \A a \in Actors : Consistent(actor[a], seen[a], node.uptime)
BY Zenon DEF HealthInv, Consistent, Running

\* Up counts and saturates, and keeps the order.
LEMMA UpFacts ==
    /\ \A n \in 0..MaxUptime : Up(n) \in 0..MaxUptime
    /\ \A m, n \in 0..MaxUptime : m <= n => Up(m) <= Up(n)
BY HealthAssumption DEF Up

\* Using up a bound stays within it.
LEMMA SpendType ==
    ASSUME spent \in Bounds,
           \/ Spend("restarts", MaxRestarts) \/ Spend("outages", MaxOutages)
           \/ Spend("starts", MaxStarts) \/ Spend("faults", MaxFaults)
    PROVE  spent' \in Bounds
BY HealthAssumption DEF Spend, Bounds

\* Constants of the right type, and actors that start and end.
LEMMA NewActorFacts ==
    /\ Nothing \in SeenState /\ SeenOnline \in SeenState
    /\ \A s \in NodeStatus : newNodeActor(s) \in ActorState
    /\ NoActor \in ActorState
    /\ \A s \in NodeStatus, u \in 0..MaxUptime : Consistent(newNodeActor(s), Nothing, u)
    /\ \A u \in 0..MaxUptime : Consistent(NoActor, Nothing, u)
<1>1. 0 \in 0..healthFailThreshold /\ 0 \in 0..MaxUptime
  BY HealthAssumption DEF healthFailThreshold
<1>2. Nothing \in SeenState /\ SeenOnline \in SeenState
  BY Zenon, <1>1 DEF Nothing, SeenOnline, SeenState
<1>3. \A s \in NodeStatus : newNodeActor(s) \in ActorState
  BY Zenon, <1>1 DEF newNodeActor, Actor, ActorState
<1>4. NoActor \in ActorState
  BY Zenon, <1>1 DEF NoActor, Actor, ActorState, NodeStatus
<1>5. \A s \in NodeStatus, u \in 0..MaxUptime : Consistent(newNodeActor(s), Nothing, u)
  BY Zenon DEF newNodeActor, Actor, Nothing, Consistent
<1>6. \A u \in 0..MaxUptime : Consistent(NoActor, Nothing, u)
  BY Zenon DEF NoActor, Actor, Nothing, Consistent
<1>7. QED
  BY Zenon, <1>2, <1>3, <1>4, <1>5, <1>6

\* A step of one actor, which leaves the others and the node alone.
LEMMA OneActor ==
    ASSUME HealthInv, NEW a \in Actors, NEW f \in ActorState, NEW h \in SeenState,
           actor' = [actor EXCEPT ![a] = f], seen' = [seen EXCEPT ![a] = h],
           Consistent(f, h, node.uptime), UNCHANGED node,
           registered' \in Actors, update' \in [Updates -> UpdateState],
           row' \in NodeStatus, spent' \in Bounds
    PROVE  HealthInv'
<1>1. /\ node \in NodeState /\ actor \in [Actors -> ActorState] /\ seen \in [Actors -> SeenState]
      /\ \A b \in Actors : Consistent(actor[b], seen[b], node.uptime)
  BY Zenon, HealthTypes, HealthParts
<1>2. actor' \in [Actors -> ActorState] /\ seen' \in [Actors -> SeenState]
  BY Zenon, <1>1
<1>3. /\ actor'[a] = f /\ seen'[a] = h
      /\ \A b \in Actors \ {a} : actor'[b] = actor[b] /\ seen'[b] = seen[b]
  BY Zenon, <1>1
<1>4. \A b \in Actors : Consistent(actor'[b], seen'[b], node.uptime)
  <2>1. ASSUME NEW b \in Actors, b # a PROVE Consistent(actor'[b], seen'[b], node.uptime)
    BY Zenon, <1>1, <1>3, <2>1
  <2>2. QED
    BY Zenon, <1>3, <2>1
<1>5. TypeOK'
  BY Zenon, <1>1, <1>2 DEF TypeOK, NodeState, UpdateState, Bounds, SeenState
<1>6. QED
  BY Zenon, <1>4, <1>5 DEF HealthInv, Consistent, Running

\* A step that leaves the actors and the node alone.
LEMMA NoActorSteps ==
    ASSUME HealthInv, UNCHANGED <<node, actor, registered, seen>>,
           update' \in [Updates -> UpdateState], row' \in NodeStatus, spent' \in Bounds
    PROVE  HealthInv'
BY Zenon DEF HealthInv, Running, TypeOK, UpdateState, Bounds

\* Time passes: the uptime and the time since the last success go on together.
LEMMA TickInv == HealthInv /\ Tick => HealthInv'
<1> SUFFICES ASSUME HealthInv, Tick PROVE HealthInv'
  OBVIOUS
<1>1. /\ node \in NodeState /\ actor \in [Actors -> ActorState] /\ seen \in [Actors -> SeenState]
      /\ \A a \in Actors : Consistent(actor[a], seen[a], node.uptime)
  BY Zenon, HealthTypes, HealthParts
<1>2. node' = [node EXCEPT !.uptime = Up(@)] /\ UNCHANGED <<actor, registered, update, row, spent>>
  BY Zenon DEF Tick
<1>3. node' \in NodeState /\ node'.uptime = Up(node.uptime) /\ node.uptime \in 0..MaxUptime
  BY <1>1, <1>2, UpFacts DEF NodeState
<1>4. ASSUME NEW a \in Actors
      PROVE  seen'[a] \in SeenState /\ Consistent(actor'[a], seen'[a], node'.uptime)
  <2>1. CASE ~Running(a)
    <3>1. seen'[a] = seen[a] /\ seen[a] \in SeenState
      BY <1>1, <2>1 DEF Tick
    <3>2. ~seen[a].restart
      BY Zenon, <1>1, <2>1 DEF Consistent, Running
    <3>3. QED
      BY Zenon, <1>1, <1>2, <3>1, <3>2 DEF Consistent
  <2>2. CASE Running(a)
    <3>1. seen'[a] = [seen[a] EXCEPT !.since = Up(@)] /\ seen[a] \in SeenState
      BY <1>1, <2>2 DEF Tick
    <3>2. /\ seen'[a] \in SeenState /\ seen'[a].since = Up(seen[a].since)
          /\ seen'[a].restart = seen[a].restart /\ seen'[a].missed = seen[a].missed
          /\ seen'[a].online = seen[a].online /\ seen[a].since \in 0..MaxUptime
      BY <3>1, UpFacts DEF SeenState
    <3>3. QED
      BY Zenon, <1>1, <1>2, <1>3, <3>2, UpFacts DEF Consistent
  <2>3. QED
    BY Zenon, <2>1, <2>2
<1>5. seen' \in [Actors -> SeenState]
  <2>1. seen' = [a \in Actors |-> seen'[a]]
    BY Zenon DEF Tick
  <2>2. QED
    BY Zenon, <1>4, <2>1
<1>6. TypeOK'
  BY Zenon, <1>2, <1>3, <1>5 DEF HealthInv, TypeOK, NodeState, SeenState
<1>7. QED
  BY Zenon, <1>4, <1>6 DEF HealthInv, Consistent, Running

\* The node restarts: its uptime is not more than any time that has passed.
LEMMA NodeRestartInv == HealthInv /\ NodeRestart => HealthInv'
<1> SUFFICES ASSUME HealthInv, NodeRestart PROVE HealthInv'
  OBVIOUS
<1>1. /\ node \in NodeState /\ actor \in [Actors -> ActorState] /\ seen \in [Actors -> SeenState]
      /\ spent \in Bounds
      /\ \A a \in Actors : Consistent(actor[a], seen[a], node.uptime)
  BY Zenon, HealthTypes, HealthParts
<1>2. /\ node' = [node EXCEPT !.uptime = 0] /\ Spend("restarts", MaxRestarts)
      /\ UNCHANGED <<actor, registered, update, row>>
  BY Zenon DEF NodeRestart
<1>3. node' \in NodeState /\ node'.uptime = 0 /\ spent' \in Bounds
  BY <1>1, <1>2, HealthAssumption, SpendType DEF NodeState
<1>4. ASSUME NEW a \in Actors
      PROVE  seen'[a] \in SeenState /\ Consistent(actor'[a], seen'[a], node'.uptime)
  <2>1. seen[a] \in SeenState /\ seen[a].since \in 0..MaxUptime /\ 0 <= seen[a].since
    BY <1>1, HealthAssumption DEF SeenState
  <2>2. CASE ~Running(a)
    <3>1. seen'[a] = seen[a]
      BY <2>2 DEF NodeRestart
    <3>2. ~seen[a].restart
      BY Zenon, <1>1, <2>2 DEF Consistent, Running
    <3>3. QED
      BY Zenon, <1>1, <1>2, <2>1, <3>1, <3>2 DEF Consistent
  <2>3. CASE Running(a)
    <3>1. seen'[a] = [seen[a] EXCEPT !.restart = TRUE]
      BY <2>3 DEF NodeRestart
    <3>2. /\ seen'[a] \in SeenState /\ seen'[a].since = seen[a].since
          /\ seen'[a].missed = seen[a].missed /\ seen'[a].online = seen[a].online
      BY Zenon, <2>1, <3>1 DEF SeenState
    <3>3. QED
      BY Zenon, <1>1, <1>2, <1>3, <2>1, <2>3, <3>2 DEF Consistent, Running
  <2>4. QED
    BY Zenon, <2>2, <2>3
<1>5. seen' \in [Actors -> SeenState]
  <2>1. seen' = [a \in Actors |-> seen'[a]]
    BY Zenon DEF NodeRestart
  <2>2. QED
    BY Zenon, <1>4, <2>1
<1>6. TypeOK'
  BY Zenon, <1>2, <1>3, <1>5 DEF HealthInv, TypeOK, NodeState, SeenState, Bounds
<1>7. QED
  BY Zenon, <1>4, <1>6 DEF HealthInv, Consistent, Running

\* The node becomes unreachable, or returns.
LEMMA OutageInv == HealthInv /\ (Outage \/ OutageEnds) => HealthInv'
<1> SUFFICES ASSUME HealthInv, Outage \/ OutageEnds PROVE HealthInv'
  OBVIOUS
<1>1. node \in NodeState /\ spent \in Bounds
  BY Zenon, HealthTypes DEF HealthInv
<1>2. node' \in NodeState /\ node'.uptime = node.uptime
  BY <1>1 DEF Outage, OutageEnds, NodeState
<1>3. spent' \in Bounds
  BY <1>1, SpendType DEF Outage, OutageEnds
<1>4. UNCHANGED <<actor, registered, update, row, seen>>
  BY Zenon DEF Outage, OutageEnds
<1>5. TypeOK'
  BY Zenon, <1>2, <1>3, <1>4 DEF HealthInv, TypeOK, NodeState, Bounds
<1>6. QED
  BY Zenon, <1>2, <1>4, <1>5 DEF HealthInv, Running

\* Update reads the row and writes it back.
LEMMA UpdateInv ==
    ASSUME HealthInv, NEW c \in Updates, GetNode(c) \/ WriteNode(c)
    PROVE  HealthInv'
<1>1. update \in [Updates -> UpdateState] /\ row \in NodeStatus /\ spent \in Bounds
  BY Zenon, HealthTypes DEF HealthInv
<1>2. update' \in [Updates -> UpdateState] /\ row' \in NodeStatus
  BY <1>1 DEF GetNode, WriteNode, UpdateState
<1>3. spent' \in Bounds
  BY <1>1, SpendType DEF GetNode, WriteNode
<1>4. UNCHANGED <<node, actor, registered, seen>>
  BY Zenon DEF GetNode, WriteNode
<1>5. QED
  BY Zenon, <1>2, <1>3, <1>4, NoActorSteps

\* A new actor has seen nothing, whatever status it is given.
LEMMA StartNodeInv ==
    ASSUME HealthInv, NEW c \in Updates, StartNode(c)
    PROVE  HealthInv'
<1>1. /\ node \in NodeState /\ update \in [Updates -> UpdateState]
      /\ row \in NodeStatus /\ spent \in Bounds
  BY Zenon, HealthTypes DEF HealthInv
<1>2. PICK a \in Actors : /\ registered' = a
                          /\ actor' = [actor EXCEPT ![a] = newNodeActor(update[c].status)]
                          /\ seen' = [seen EXCEPT ![a] = Nothing]
  BY Zenon DEF StartNode
<1>3. update[c].status \in NodeStatus /\ update' \in [Updates -> UpdateState]
  BY <1>1 DEF StartNode, UpdateState
<1>4. UNCHANGED <<node, row, spent>> /\ node.uptime \in 0..MaxUptime
  BY <1>1 DEF StartNode, NodeState
<1>5. /\ newNodeActor(update[c].status) \in ActorState /\ Nothing \in SeenState
      /\ Consistent(newNodeActor(update[c].status), Nothing, node.uptime)
  BY Zenon, <1>3, <1>4, NewActorFacts
<1>6. QED
  BY Zenon, <1>1, <1>2, <1>3, <1>4, <1>5, OneActor

\* So has the one that a new process starts.
LEMMA ProcessStartInv == HealthInv /\ Start => HealthInv'
<1> SUFFICES ASSUME HealthInv, Start PROVE HealthInv'
  OBVIOUS
<1>1. node \in NodeState /\ row \in NodeStatus /\ spent \in Bounds
  BY Zenon, HealthTypes DEF HealthInv
<1>2. /\ registered' \in Actors
      /\ actor' = [a \in Actors |-> IF a = registered' THEN newNodeActor(row) ELSE NoActor]
      /\ update' = [c \in Updates |-> [pc |-> "idle", status |-> "unknown"]]
      /\ seen' = [a \in Actors |-> Nothing]
      /\ Spend("starts", MaxStarts) /\ UNCHANGED <<node, row>>
  BY Zenon DEF Start
<1>3. node.uptime \in 0..MaxUptime /\ spent' \in Bounds
  BY <1>1, <1>2, SpendType DEF NodeState
<1>4. update' \in [Updates -> UpdateState]
  BY <1>2 DEF UpdateState, NodeStatus
<1>5. \A a \in Actors : /\ actor'[a] \in ActorState /\ seen'[a] \in SeenState
                        /\ Consistent(actor'[a], seen'[a], node.uptime)
  <2> SUFFICES ASSUME NEW a \in Actors
               PROVE  /\ actor'[a] \in ActorState /\ seen'[a] \in SeenState
                      /\ Consistent(actor'[a], seen'[a], node.uptime)
    OBVIOUS
  <2>1. seen'[a] = Nothing /\ (actor'[a] = newNodeActor(row) \/ actor'[a] = NoActor)
    BY Zenon, <1>2
  <2>2. QED
    BY Zenon, <1>1, <1>3, <2>1, NewActorFacts
<1>6. actor' \in [Actors -> ActorState] /\ seen' \in [Actors -> SeenState]
  <2>1. actor' = [a \in Actors |-> actor'[a]] /\ seen' = [a \in Actors |-> seen'[a]]
    BY Zenon, <1>2
  <2>2. QED
    BY Zenon, <1>5, <2>1
<1>7. TypeOK'
  BY Zenon, <1>1, <1>2, <1>3, <1>4, <1>6 DEF TypeOK, NodeState, UpdateState, Bounds, SeenState
<1>8. QED
  BY Zenon, <1>2, <1>5, <1>7 DEF HealthInv, Consistent, Running

\* A probe fails: the count goes up, and only at the threshold the status
\* changes to offline.
LEMMA ProbeFailsInv ==
    ASSUME HealthInv, NEW a \in Actors, ProbeFails(a)
    PROVE  HealthInv'
<1> DEFINE f == IF actor[a].failCount < healthFailThreshold THEN actor[a].failCount + 1
                ELSE actor[a].failCount
           h == [seen[a] EXCEPT !.missed = f]
<1>1. /\ node \in NodeState /\ actor \in [Actors -> ActorState] /\ seen \in [Actors -> SeenState]
      /\ registered \in Actors /\ update \in [Updates -> UpdateState] /\ row \in NodeStatus
      /\ spent \in Bounds /\ Consistent(actor[a], seen[a], node.uptime)
  BY Zenon, HealthTypes, HealthParts
<1>2. actor[a] \in ActorState /\ seen[a] \in SeenState /\ actor[a].pc # "none"
  BY <1>1 DEF ProbeFails, Probes
<1>3. /\ f \in 0..healthFailThreshold
      /\ actor[a].failCount = healthFailThreshold => f = healthFailThreshold
      /\ f < healthFailThreshold \/ f = healthFailThreshold
  BY <1>2 DEF ActorState, healthFailThreshold
<1>4. UNCHANGED <<node, registered, update, row, spent>>
  BY Zenon DEF ProbeFails
<1>5. seen[a].missed = actor[a].failCount
  BY Zenon, <1>1 DEF Consistent
<1>6. seen' = [seen EXCEPT ![a] = h]
  BY <1>1, <1>5 DEF ProbeFails
<1> HIDE DEF f
<1>7. /\ h \in SeenState /\ h.missed = f /\ h.online = seen[a].online
      /\ h.restart = seen[a].restart /\ h.since = seen[a].since
  BY Zenon, <1>2, <1>3 DEF SeenState
<1> HIDE DEF h
<1>8. ASSUME NEW A \in ActorState, actor' = [actor EXCEPT ![a] = A], A.failCount = f,
             A.pc # "none", A.online => h.online /\ A.status = "online",
             h.online /\ A.status # "online" => f = healthFailThreshold
      PROVE  HealthInv'
  <2>1. Consistent(A, h, node.uptime)
    BY Zenon, <1>1, <1>7, <1>8 DEF Consistent
  <2>2. QED
    BY Zenon, <1>1, <1>4, <1>6, <1>7, <1>8, <2>1, OneActor
<1>9. CASE /\ f = healthFailThreshold
           /\ actor' = [actor EXCEPT ![a] = Actor("write", f, FALSE, @.lastUptime, "offline", FALSE)]
  <2> DEFINE A == Actor("write", f, FALSE, actor[a].lastUptime, "offline", FALSE)
  <2>1. A \in ActorState /\ A.failCount = f /\ A.pc # "none" /\ A.online = FALSE
    BY Zenon, <1>2, <1>3 DEF Actor, ActorState, NodeStatus
  <2>2. actor' = [actor EXCEPT ![a] = A]
    BY <1>1, <1>9
  <2> HIDE DEF A
  <2>3. QED
    BY Zenon, <1>8, <1>9, <2>1, <2>2
<1>10. ASSUME NEW p \in {"write", "loop"}, actor' = [actor EXCEPT ![a].pc = p, ![a].failCount = f]
       PROVE  HealthInv'
  <2> DEFINE A == [actor[a] EXCEPT !.pc = p, !.failCount = f]
  <2>1. /\ A \in ActorState /\ A.failCount = f /\ A.pc = p
        /\ A.online = actor[a].online /\ A.status = actor[a].status
    BY <1>2, <1>3, <1>10 DEF ActorState
  <2>2. actor' = [actor EXCEPT ![a] = A]
    BY <1>1, <1>10
  <2>3. h.online /\ actor[a].status # "online" => f = healthFailThreshold
    BY Zenon, <1>1, <1>3, <1>7 DEF Consistent
  <2>4. actor[a].online => h.online /\ actor[a].status = "online"
    BY Zenon, <1>1, <1>7 DEF Consistent
  <2>5. p # "none"
    BY Zenon, <1>10
  <2> HIDE DEF A
  <2>6. QED
    BY Zenon, <1>8, <2>1, <2>2, <2>3, <2>4, <2>5
<1>11. QED
  BY <1>9, <1>10 DEF ProbeFails, f

\* A probe succeeds: everything is counted anew.
LEMMA ProbeSucceedsInv ==
    ASSUME HealthInv, NEW a \in Actors, ProbeSucceeds(a)
    PROVE  HealthInv'
<1> DEFINE r == ~actor[a].online \/ restarted(a)
           A == Actor("write", 0, TRUE, node.uptime, "online", r)
<1>1. /\ node \in NodeState /\ actor \in [Actors -> ActorState]
      /\ registered \in Actors /\ update \in [Updates -> UpdateState] /\ row \in NodeStatus
      /\ spent \in Bounds
  BY Zenon, HealthTypes DEF HealthInv
<1>2. 0 \in 0..healthFailThreshold /\ node.uptime \in 0..MaxUptime
  BY <1>1 DEF healthFailThreshold, NodeState
<1>3. /\ actor' = [actor EXCEPT ![a] = A] /\ seen' = [seen EXCEPT ![a] = SeenOnline]
      /\ UNCHANGED <<node, registered, update, row, spent>>
  BY <1>1 DEF ProbeSucceeds
<1>4. r \in BOOLEAN
  BY Zenon
<1> HIDE DEF r
<1>5. A \in ActorState
  BY Zenon, <1>2, <1>4 DEF Actor, ActorState, NodeStatus
<1>6. Consistent(A, SeenOnline, node.uptime)
  BY Zenon DEF Actor, Consistent, SeenOnline
<1> HIDE DEF A
<1>7. QED
  BY Zenon, <1>1, <1>3, <1>5, <1>6, NewActorFacts, OneActor

\* The status is written, or not; a pass ends; an actor ends.
LEMMA LoopInv ==
    ASSUME HealthInv, NEW a \in Actors, SetNodeHealth(a) \/ EndPass(a) \/ Exit(a)
    PROVE  HealthInv'
<1>1. /\ node \in NodeState /\ actor \in [Actors -> ActorState] /\ seen \in [Actors -> SeenState]
      /\ registered \in Actors /\ update \in [Updates -> UpdateState] /\ row \in NodeStatus
      /\ spent \in Bounds /\ Consistent(actor[a], seen[a], node.uptime)
  BY Zenon, HealthTypes, HealthParts
<1>2. actor[a] \in ActorState /\ seen[a] \in SeenState /\ node.uptime \in 0..MaxUptime
  BY <1>1 DEF NodeState
<1>3. UNCHANGED <<node, registered, update>>
  BY Zenon DEF SetNodeHealth, EndPass, Exit
<1>4. row' \in NodeStatus /\ spent' \in Bounds
  <2>1. actor[a].status \in NodeStatus
    BY <1>2 DEF ActorState
  <2>2. QED
    BY Zenon, <1>1, <2>1, SpendType DEF SetNodeHealth, EndPass, Exit
<1>5. CASE Exit(a)
  BY Zenon, <1>1, <1>2, <1>3, <1>4, <1>5, NewActorFacts, OneActor DEF Exit
<1>6. CASE SetNodeHealth(a) \/ EndPass(a)
  <2>1. PICK p \in {"loop", "reconcile"}, b \in BOOLEAN :
            actor' = [actor EXCEPT ![a] = [actor[a] EXCEPT !.pc = p, !.pass = b]]
    <3>1. CASE EndPass(a)
      BY <1>1, <3>1 DEF EndPass
    <3>2. CASE SetNodeHealth(a)
      <4>1. PICK p \in {"loop", "reconcile"} : actor' = [actor EXCEPT ![a].pc = p]
        BY Zenon, <3>2 DEF SetNodeHealth
      <4>2. /\ actor[a].pass \in BOOLEAN
            /\ [actor[a] EXCEPT !.pc = p] = [actor[a] EXCEPT !.pc = p, !.pass = actor[a].pass]
        BY <1>2 DEF ActorState
      <4>3. actor' = [actor EXCEPT ![a] = [actor[a] EXCEPT !.pc = p]]
        BY <1>1, <4>1
      <4>4. QED
        BY Zenon, <4>2, <4>3
    <3>3. QED
      BY Zenon, <1>6, <3>1, <3>2
  <2> DEFINE A == [actor[a] EXCEPT !.pc = p, !.pass = b]
  <2>2. /\ A \in ActorState /\ A.failCount = actor[a].failCount /\ A.pc # "none"
        /\ A.online = actor[a].online /\ A.status = actor[a].status
    BY <1>2, <2>1 DEF ActorState
  <2>3. actor' = [actor EXCEPT ![a] = A]
    BY Zenon, <2>1
  <2> HIDE DEF A
  <2>4. Consistent(A, seen[a], node.uptime)
    BY Zenon, <1>1, <2>2 DEF Consistent
  <2>5. seen' = [seen EXCEPT ![a] = seen[a]]
    BY <1>1, <1>6 DEF SetNodeHealth, EndPass
  <2>6. QED
    BY Zenon, <1>1, <1>2, <1>3, <1>4, <2>2, <2>3, <2>4, <2>5, OneActor
<1>7. QED
  BY Zenon, <1>5, <1>6

\* The first actor of the node satisfies the invariant whatever the row.
LEMMA HealthInit == Init => HealthInv
<1> SUFFICES ASSUME Init PROVE HealthInv
  OBVIOUS
<1>1. PICK s \in NodeStatus :
        actor = [a \in Actors |-> IF a = registered THEN newNodeActor(s) ELSE NoActor]
  BY Zenon DEF Init
<1>2. /\ row \in NodeStatus /\ registered \in Actors
      /\ spent = [restarts |-> 0, outages |-> 0, starts |-> 0, faults |-> 0]
      /\ seen = [a \in Actors |-> Nothing]
  BY Zenon DEF Init
<1>3. node \in NodeState /\ node.uptime \in 0..MaxUptime
  BY HealthAssumption DEF Init, NodeState
<1>4. spent \in Bounds /\ update \in [Updates -> UpdateState]
  BY <1>2, HealthAssumption DEF Init, Bounds, UpdateState, NodeStatus
<1>5. \A a \in Actors : /\ actor[a] \in ActorState /\ seen[a] \in SeenState
                        /\ Consistent(actor[a], seen[a], node.uptime)
  <2> SUFFICES ASSUME NEW a \in Actors
               PROVE  /\ actor[a] \in ActorState /\ seen[a] \in SeenState
                      /\ Consistent(actor[a], seen[a], node.uptime)
    OBVIOUS
  <2>1. seen[a] = Nothing /\ (actor[a] = newNodeActor(s) \/ actor[a] = NoActor)
    BY Zenon, <1>1, <1>2
  <2>2. QED
    BY Zenon, <1>3, <2>1, NewActorFacts
<1>6. actor \in [Actors -> ActorState] /\ seen \in [Actors -> SeenState]
  <2>1. actor = [a \in Actors |-> actor[a]] /\ seen = [a \in Actors |-> seen[a]]
    BY Zenon, <1>1, <1>2
  <2>2. QED
    BY Zenon, <1>5, <2>1
<1>7. QED
  BY Zenon, <1>2, <1>3, <1>4, <1>5, <1>6, HealthTypes, HealthParts

\* Every step of the node, of requests and of actors keeps the invariant.
LEMMA HealthNext == HealthInv /\ [Next]_vars => HealthInv'
<1> SUFFICES ASSUME HealthInv, [Next]_vars PROVE HealthInv'
  OBVIOUS
<1>1. CASE UNCHANGED vars
  BY Zenon, <1>1 DEF vars, HealthInv, TypeOK, Running
<1>2. QED
  BY Zenon, <1>1, TickInv, NodeRestartInv, OutageInv, UpdateInv, StartNodeInv, ProcessStartInv,
     ProbeFailsInv, ProbeSucceedsInv, LoopInv DEF Next, checkHealth

\* The inductive invariant holds for any number of actors of the node, current
\* and replaced, and of overlapping updates.
THEOREM HealthInvariance == Spec => []HealthInv
BY HealthInit, HealthNext, PTL DEF Spec

\* checkHealth damps lost probes: an actor that has seen its node never turns the
\* row from online to offline before it has missed three probes in a row.
THEOREM OfflineIsDamped == Spec => OfflineNeedsMisses
<1> DEFINE Damped ==
        \A a \in Actors :
          SetNodeHealth(a) /\ seen[a].online /\ row = "online" /\ row' = "offline"
            => seen[a].missed = healthFailThreshold
<1>1. HealthInv /\ [Next]_vars => [Damped]_vars
  <2> SUFFICES ASSUME HealthInv, NEW a \in Actors, SetNodeHealth(a), seen[a].online,
                      row = "online", row' = "offline"
               PROVE  seen[a].missed = healthFailThreshold
    BY Zenon
  <2>1. actor[a].status # "online"
    BY DEF SetNodeHealth
  <2>2. QED
    BY Zenon, <2>1 DEF HealthInv
<1>2. QED
  BY <1>1, HealthInvariance, PTL DEF Spec, OfflineNeedsMisses

\* checkHealth notices a restart whenever the uptime it has recorded exceeds the
\* time since: the comparison of uptimes is sound for long uptimes.
THEOREM RestartIsNoticed == Spec => LongUptimeRestartNoticed
<1> DEFINE Noticed ==
        \A a \in Actors :
          ProbeSucceeds(a) /\ seen[a].restart /\ actor[a].lastUptime > seen[a].since
            => actor'[a].pass
<1>1. HealthInv /\ [Next]_vars => [Noticed]_vars
  <2> SUFFICES ASSUME HealthInv, NEW a \in Actors, ProbeSucceeds(a), seen[a].restart,
                      actor[a].lastUptime > seen[a].since
               PROVE  actor'[a].pass
    BY Zenon
  <2>1. /\ node.uptime \in Nat /\ seen[a].since \in Nat /\ actor[a].lastUptime \in Nat
        /\ node.uptime <= seen[a].since
    BY DEF HealthInv, TypeOK, ActorState
  <2>2. restarted(a)
    BY <2>1 DEF restarted
  <2>3. QED
    BY <2>2 DEF ProbeSucceeds, Actor, HealthInv, TypeOK
<1>2. QED
  BY <1>1, HealthInvariance, PTL DEF Spec, LongUptimeRestartNoticed
=============================================================================
