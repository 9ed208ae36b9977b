------------------------------- MODULE Health -------------------------------
(***************************************************************************)
(* Health probes of one node: the consecutive failures an actor counts,    *)
(* the detection of restarts by a drop of the uptime, and the status in    *)
(* the row of the node.  The row is written by the actor of the node, by   *)
(* an actor that was replaced and is not done yet, and by NodeService's    *)
(* Update, which writes back the status it read.                           *)
(*                                                                         *)
(* Abstractions.  Time is counted in ticks; a probe may come at any time   *)
(* after the last one.  A ping is a step, and so is the write that follows *)
(* it.  What a pass does is in module Reconcile; here it only takes the    *)
(* actor's time, so that passes of the reconcile ticker are left out.      *)
(* Creation and deletion of the node are in module Manager.  The uptime    *)
(* saturates at MaxUptime.  The status disabled is left out: no code sets  *)
(* it.                                                                     *)
(***************************************************************************)
EXTENDS Naturals

CONSTANTS
    Actors,         \* bound: actors of the node that run at the same time
    Updates,        \* requests that may update the node at the same time
    MaxUptime,      \* bound: largest uptime told apart
    MaxRestarts,    \* bound: restarts of the node
    MaxOutages,     \* bound: times the node becomes unreachable
    MaxStarts,      \* bound: updates of the node and starts of the process
    MaxFaults       \* bound: status writes and updates that fail

ASSUME HealthAssumption ==
    /\ Actors # {}
    /\ MaxUptime \in Nat \ {0}
    /\ {MaxRestarts, MaxOutages, MaxStarts, MaxFaults} \subseteq Nat

VARIABLES
    node,       \* the node: whether it is reachable, and its uptime
    actor,      \* per actor: its fields and what it is doing
    registered, \* the actor in the map of the manager
    update,     \* per request: its next statement and the status it read
    row,        \* the column status of the row of the node
    spent,      \* how much of each bound is used
    seen        \* history, per actor: what it has seen of the node

vars == <<node, actor, registered, update, row, spent, seen>>

healthFailThreshold == 3
NodeStatus == {"unknown", "online", "offline"}

\* The fields of an actor: status is that of the node struct it holds, pass
\* that checkHealth is going to reconcile.
Actor(p, f, o, u, s, r) ==
    [pc |-> p, failCount |-> f, online |-> o, lastUptime |-> u, status |-> s, pass |-> r]

NoActor == Actor("none", 0, FALSE, 0, "unknown", FALSE)
Running(a) == actor[a].pc # "none"

\* newNodeActor: nothing is known but the status in the struct; run probes at once.
newNodeActor(s) == Actor("probe", 0, FALSE, 0, s, FALSE)

\* History: whether the node restarted since the last successful probe of the
\* actor (or its start) and how long ago that was, the probes failed since,
\* and whether any succeeded.
Nothing == [restart |-> FALSE, since |-> 0, missed |-> 0, online |-> FALSE]

ActorState ==
    [pc : {"none", "probe", "loop", "write", "reconcile"}, failCount : 0..healthFailThreshold,
     online : BOOLEAN, lastUptime : 0..MaxUptime, status : NodeStatus, pass : BOOLEAN]

TypeOK ==
    /\ node \in [reachable : BOOLEAN, uptime : 0..MaxUptime]
    /\ actor \in [Actors -> ActorState]
    /\ registered \in Actors
    /\ update \in [Updates -> [pc : {"idle", "write", "start"}, status : NodeStatus]]
    /\ row \in NodeStatus
    /\ spent \in [restarts : 0..MaxRestarts, outages : 0..MaxOutages,
                  starts : 0..MaxStarts, faults : 0..MaxFaults]
    /\ seen \in [Actors -> [restart : BOOLEAN, since : 0..MaxUptime,
                            missed : 0..healthFailThreshold, online : BOOLEAN]]

\* An actor has started with the status of the row; after Create it may also be
\* the outcome of the first probe, which Create failed to record.
Init ==
    /\ node \in [reachable : BOOLEAN, uptime : {0, MaxUptime}]
    /\ row \in NodeStatus
    /\ registered \in Actors
    /\ \E s \in NodeStatus :
        /\ s = row \/ row = "unknown"
        /\ actor = [a \in Actors |-> IF a = registered THEN newNodeActor(s) ELSE NoActor]
    /\ update = [c \in Updates |-> [pc |-> "idle", status |-> "unknown"]]
    /\ spent = [restarts |-> 0, outages |-> 0, starts |-> 0, faults |-> 0]
    /\ seen = [a \in Actors |-> Nothing]

\* The step uses one of the max events of kind k.
Spend(k, max) == spent[k] < max /\ spent' = [spent EXCEPT ![k] = @ + 1]

-----------------------------------------------------------------------------
(***************************************************************************)
(* The node and time.                                                      *)
(***************************************************************************)

Up(n) == IF n < MaxUptime THEN n + 1 ELSE n

Tick ==
    /\ node' = [node EXCEPT !.uptime = Up(@)]
    /\ seen' = [a \in Actors |-> IF Running(a) THEN [seen[a] EXCEPT !.since = Up(@)] ELSE seen[a]]
    /\ UNCHANGED <<actor, registered, update, row, spent>>

\* Xray restarts: users added at run time are gone.
NodeRestart ==
    /\ Spend("restarts", MaxRestarts)
    /\ node' = [node EXCEPT !.uptime = 0]
    /\ seen' = [a \in Actors |-> IF Running(a) THEN [seen[a] EXCEPT !.restart = TRUE] ELSE seen[a]]
    /\ UNCHANGED <<actor, registered, update, row>>

Outage ==
    /\ node.reachable
    /\ Spend("outages", MaxOutages)
    /\ node' = [node EXCEPT !.reachable = FALSE]
    /\ UNCHANGED <<actor, registered, update, row, seen>>

OutageEnds ==
    /\ ~node.reachable
    /\ node' = [node EXCEPT !.reachable = TRUE]
    /\ UNCHANGED <<actor, registered, update, row, spent, seen>>

-----------------------------------------------------------------------------
(***************************************************************************)
(* NodeService.Update and the manager.                                     *)
(***************************************************************************)

\* Update reads the row, ...
GetNode(c) ==
    /\ update[c].pc = "idle"
    /\ Spend("starts", MaxStarts)
    /\ update' = [update EXCEPT ![c] = [pc |-> "write", status |-> row]]
    /\ UNCHANGED <<node, actor, registered, row, seen>>

\* ... writes it back with the status it read, or fails, ...
WriteNode(c) ==
    /\ update[c].pc = "write"
    /\ \/ /\ row' = update[c].status
          /\ update' = [update EXCEPT ![c].pc = "start"]
          /\ UNCHANGED spent
       \/ /\ Spend("faults", MaxFaults)
          /\ update' = [update EXCEPT ![c].pc = "idle"]
          /\ UNCHANGED row
    /\ UNCHANGED <<node, actor, registered, seen>>

\* ... and starts an actor with it.  The one it replaces is told to stop and
\* not waited for.
StartNode(c) ==
    /\ update[c].pc = "start"
    /\ \E a \in Actors :
        /\ ~Running(a)
        /\ registered' = a
        /\ actor' = [actor EXCEPT ![a] = newNodeActor(update[c].status)]
        /\ seen' = [seen EXCEPT ![a] = Nothing]
    /\ update' = [update EXCEPT ![c].pc = "idle"]
    /\ UNCHANGED <<node, row, spent>>

\* The process dies and Manager.Start spawns an actor with the row.
Start ==
    /\ Spend("starts", MaxStarts)
    /\ registered' \in Actors
    /\ actor' = [a \in Actors |-> IF a = registered' THEN newNodeActor(row) ELSE NoActor]
    /\ update' = [c \in Updates |-> [pc |-> "idle", status |-> "unknown"]]
    /\ seen' = [a \in Actors |-> Nothing]
    /\ UNCHANGED <<node, row>>

-----------------------------------------------------------------------------
(***************************************************************************)
(* An actor.                                                               *)
(***************************************************************************)

\* checkHealth begins: at startup, or on its ticker, also in an actor that was
\* told to stop as long as select takes the ticker.
Probes(a) == actor[a].pc \in {"probe", "loop"}

\* Mutant: no number of failures turns the actor offline.
ProbeFails_NeverOffline(a) ==
    LET f == IF actor[a].failCount < healthFailThreshold THEN actor[a].failCount + 1
                                                         ELSE actor[a].failCount
        p == IF f < healthFailThreshold THEN "write" ELSE "loop"
    IN  /\ Probes(a)
        /\ ~node.reachable
        /\ actor' = [actor EXCEPT ![a].pc = p, ![a].failCount = f]
        /\ seen' = [seen EXCEPT ![a].missed = f]
        /\ UNCHANGED <<node, registered, update, row, spent>>

\* checkHealth, ping fails.  The third failure in a row turns an online actor
\* offline; before it the old status is written again; after it nothing is.
\* (The count matters up to the threshold only.)
ProbeFails(a) ==
    LET f == IF actor[a].failCount < healthFailThreshold THEN actor[a].failCount + 1
                                                         ELSE actor[a].failCount
    IN  /\ Probes(a)
        /\ ~node.reachable
        /\ \/ /\ f = healthFailThreshold /\ actor[a].online
              /\ actor' = [actor EXCEPT ![a] = Actor("write", f, FALSE, @.lastUptime, "offline", FALSE)]
           \/ /\ f < healthFailThreshold
              /\ actor' = [actor EXCEPT ![a].pc = "write", ![a].failCount = f]
           \/ /\ f = healthFailThreshold /\ ~actor[a].online
              /\ actor' = [actor EXCEPT ![a].pc = "loop", ![a].failCount = f]
        /\ seen' = [seen EXCEPT ![a].missed = IF @ < healthFailThreshold THEN @ + 1 ELSE @]
        /\ UNCHANGED <<node, registered, update, row, spent>>

\* Mutant: a drop of the uptime after a failed probe does not count.
restarted_AfterSuccess(a) == node.uptime < actor[a].lastUptime /\ actor[a].failCount = 0

restarted(a) == actor[a].lastUptime > 0 /\ node.uptime < actor[a].lastUptime

\* History: the node was seen just now.
SeenOnline == [restart |-> FALSE, since |-> 0, missed |-> 0, online |-> TRUE]

\* Mutant: the status is written only when it changes for the actor.
ProbeSucceeds_WritesChanges(a) ==
    /\ Probes(a)
    /\ node.reachable
    /\ actor' = [actor EXCEPT ![a] =
                    Actor(IF @.online THEN IF restarted(a) THEN "reconcile" ELSE "loop" ELSE "write",
                          0, TRUE, node.uptime, "online", ~@.online \/ restarted(a))]
    /\ seen' = [seen EXCEPT ![a] = SeenOnline]
    /\ UNCHANGED <<node, registered, update, row, spent>>

\* Mutant: the failures are not counted anew.
ProbeSucceeds_KeepsCount(a) ==
    /\ Probes(a)
    /\ node.reachable
    /\ actor' = [actor EXCEPT ![a] = Actor("write", @.failCount, TRUE, node.uptime, "online",
                                           ~@.online \/ restarted(a))]
    /\ seen' = [seen EXCEPT ![a] = SeenOnline]
    /\ UNCHANGED <<node, registered, update, row, spent>>

\* checkHealth, ping succeeds: online, and a pass if the actor was not online
\* or the uptime dropped.
ProbeSucceeds(a) ==
    /\ Probes(a)
    /\ node.reachable
    /\ actor' = [actor EXCEPT ![a] = Actor("write", 0, TRUE, node.uptime, "online",
                                           ~@.online \/ restarted(a))]
    /\ seen' = [seen EXCEPT ![a] = SeenOnline]
    /\ UNCHANGED <<node, registered, update, row, spent>>

\* The statement of setHealth; that it fails is logged.
SetNodeHealth(a) ==
    /\ actor[a].pc = "write"
    /\ \/ row' = actor[a].status /\ UNCHANGED spent
       \/ Spend("faults", MaxFaults) /\ UNCHANGED row
    /\ actor' = [actor EXCEPT ![a].pc = IF actor[a].pass THEN "reconcile" ELSE "loop"]
    /\ UNCHANGED <<node, registered, update, seen>>

\* The pass that checkHealth runs ends, whether it succeeds or not.
EndPass(a) ==
    /\ actor[a].pc = "reconcile"
    /\ actor' = [actor EXCEPT ![a].pc = "loop", ![a].pass = FALSE]
    /\ UNCHANGED <<node, registered, update, row, spent, seen>>

\* select takes the stop channel.
Exit(a) ==
    /\ actor[a].pc = "loop"
    /\ a # registered
    /\ actor' = [actor EXCEPT ![a] = NoActor]
    /\ seen' = [seen EXCEPT ![a] = Nothing]
    /\ UNCHANGED <<node, registered, update, row, spent>>

-----------------------------------------------------------------------------

checkHealth(a) == ProbeFails(a) \/ ProbeSucceeds(a) \/ SetNodeHealth(a) \/ EndPass(a)

Next ==
    \/ Tick
    \/ NodeRestart
    \/ Outage
    \/ OutageEnds
    \/ Start
    \/ \E c \in Updates : GetNode(c) \/ WriteNode(c) \/ StartNode(c)
    \/ \E a \in Actors : checkHealth(a) \/ Exit(a)

Spec == Init /\ [][Next]_vars

\* The health tickers fire for ever, probes end, and a request that was
\* accepted goes on.  Nothing is assumed of the node.
FairSpec ==
    /\ Spec
    /\ \A a \in Actors : WF_vars(checkHealth(a))
    /\ \A c \in Updates : WF_vars(WriteNode(c) \/ StartNode(c))
-----------------------------------------------------------------------------
(***************************************************************************)
(* Properties.                                                             *)
(***************************************************************************)

\* A restart between two successful probes of an actor is noticed at the
\* second one, and a pass follows, provided the uptime read by the first
\* exceeds the time between them.
LongUptimeRestartNoticed ==
    [][\A a \in Actors :
        ProbeSucceeds(a) /\ seen[a].restart /\ actor[a].lastUptime > seen[a].since
            => actor'[a].pass]_vars

\* Lost probes are damped: an actor that has seen its node turns the row from
\* online to offline only after three failed probes in a row, however failures
\* and successes alternate.  (An actor that has not, and Update, may write an
\* "offline" they were started with or have read.)
OfflineNeedsMisses ==
    [][\A a \in Actors :
        SetNodeHealth(a) /\ seen[a].online /\ row = "online" /\ row' = "offline"
            => seen[a].missed = healthFailThreshold]_vars

\* A node that stays reachable is shown online and stays so, although status
\* writes fail, Update writes back a status that has changed since it was read,
\* and an actor that was replaced writes what it found before its successor.
ShownOnline == <>[]node.reachable => <>[](row = "online")

\* No update is in progress or to come, no actor but the registered one runs,
\* and no more writes fail.
Settled ==
    /\ spent.starts = MaxStarts /\ spent.faults = MaxFaults
    /\ \A c \in Updates : update[c].pc = "idle"
    /\ \A a \in Actors : Running(a) => a = registered

\* A node that its actor has seen online and that stays unreachable is shown
\* offline, if nobody else writes the row and the writes succeed.
OfflineShown ==
    (Settled /\ actor[registered].online /\ ~node.reachable)
        ~> row # "online" \/ node.reachable

\* The inductive invariant behind LongUptimeRestartNoticed and
\* OfflineNeedsMisses: checkHealth counts the failures since the last success;
\* an actor that has seen its node holds the status offline only at the
\* threshold; and since a restart the node has not been up for longer than
\* since the last successful probe.
HealthInv ==
    /\ TypeOK
    /\ \A a \in Actors :
        /\ seen[a].missed = actor[a].failCount
        /\ actor[a].online => seen[a].online /\ actor[a].status = "online"
        /\ seen[a].online /\ actor[a].status # "online" => seen[a].missed = healthFailThreshold
        /\ seen[a].restart => Running(a) /\ node.uptime <= seen[a].since

\* "Re-pushed within one health interval": after a restart the next successful
\* probe of the actor starts a pass.
RestartDetected ==
    [][\A a \in Actors : ProbeSucceeds(a) /\ seen[a].restart => actor'[a].pass]_vars

\* The status is "the observed health" of the node: one that stays unreachable
\* is not shown online for ever.
ShownOffline == ~node.reachable ~> row # "online" \/ node.reachable

\* "Every mutation runs in this one goroutine, so [...] races [...] cannot
\* occur": while the actor of the node is at rest and considers the node online,
\* the row says so, unless a write failed.
OnlineAgrees ==
    spent.faults = 0 /\ actor[registered].online /\ actor[registered].pc = "loop"
        => row = "online"
=============================================================================
