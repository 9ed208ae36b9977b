----------------------------- MODULE Reconcile -----------------------------
(***************************************************************************)
(* Convergence of the Xray nodes to the state held in the database.        *)
(*                                                                         *)
(* Three kinds of processes share the tables users and user_inbounds:      *)
(*   - requests (HTTP handlers, billing events, the expiry sweeper and the *)
(*     quota enforcer), which commit a change and then trigger the actors  *)
(*     of the affected nodes;                                              *)
(*   - one actor per node, which runs reconcile passes: load the removals, *)
(*     apply them, load the desired assignments, push them;                *)
(*   - the nodes themselves, whose runtime users are wiped by a restart.   *)
(*                                                                         *)
(* Every SQL statement (or transaction) and every gRPC call is one step, so *)
(* that requests interleave with a pass between any two of its calls.      *)
(*                                                                         *)
(* Abstractions.  A status other than 'active' is "inactive" (suspended,   *)
(* expired and disabled are told apart in module Lifecycle).  Inbounds are *)
(* a fixed set.  The rows a query returns carry no ORDER BY and are taken  *)
(* in any order.  The dial in ensureClient is lazy and never fails; an     *)
(* unreachable node is an RPC that fails.                                  *)
(*                                                                         *)
(* Assumption: a node has one actor.  An update of the node replaces its   *)
(* actor while the old one may still be in a pass (ManagerOverlap.cfg).    *)
(* Two passes over the same rows are not modelled: the one could mark a    *)
(* tombstone applied that the other has loaded and is about to purge, or   *)
(* push a user the other has removed.  The properties are shown for nodes  *)
(* whose actor is not replaced in the middle of a pass.                    *)
(***************************************************************************)
EXTENDS Naturals, FiniteSets

CONSTANTS
    Users,      \* user ids: a deleted id is never used again
    Emails,     \* the key of a user on a node
    EmailOf,    \* [Users -> Emails]; two ids may carry one email in turn
    Inbounds,
    Nodes,
    NodeOf,     \* [Inbounds -> Nodes]
    Clients,    \* requests that may be in progress at the same time
    None,       \* an empty runtime slot
    MaxOps,     \* bound: requests accepted
    MaxFaults   \* bound: failed calls, node restarts, process crashes

ASSUME ConstantsAssumption ==
    /\ EmailOf \in [Users -> Emails]
    /\ NodeOf \in [Inbounds -> Nodes]
    /\ None \notin Users
    /\ MaxOps \in Nat
    /\ MaxFaults \in Nat

VARIABLES
    status,     \* users.status, "none" before the insert, "deleted" after it is gone
    sync,       \* user_inbounds.sync_status per (user, inbound), "none": no row
    runtime,    \* per (inbound, email): whose credentials the node holds
    trigger,    \* per node: reconcileCh, a buffered channel of size 1
    pc,         \* per node: where its actor stands in a pass
    todo,       \* per node: rows loaded by the current query, not yet handled
    cur,        \* per node: the row whose follow-up statement is due
    client,     \* per request: its progress
    ops,
    faults,
    \* History variables: no action reads them.
    want,       \* per user: the inbounds last requested and committed
    untold      \* nodes with a change that no trigger announces

dbVars == <<status, sync, want>>
actorVars == <<pc, todo, cur>>
vars == <<status, sync, runtime, trigger, pc, todo, cur, client, ops, faults,
          want, untold>>

Assignments == Users \X Inbounds
SyncStatus == {"pending", "applied", "failed", "removing"}
Row == [a : Assignments, s : SyncStatus]
Slots == Inbounds \X Emails

NodeFor(a) == NodeOf[a[2]]
Slot(a) == <<a[2], EmailOf[a[1]]>>
Exists(u) == status[u] \in {"active", "inactive"}
HasRow(a) == sync[a] # "none"

\* A request: what it does next, its user, the inbounds asked for, the nodes
\* read or still to be triggered, and what it carries along (the status it
\* read, or that it is a deletion).
Req(p, u, S, T, k) ==
    [pc |-> p, u |-> u, inbounds |-> S, targets |-> T, keep |-> k]

Idle == Req("idle", None, {}, {}, "none")

ClientState ==
    [pc : {"idle", "notify", "trigger", "set", "mark", "delete", "rotate"},
     u : Users \union {None}, inbounds : SUBSET Inbounds,
     targets : SUBSET Nodes, keep : {"none", "active", "inactive", "delete"}]

TypeOK ==
    /\ status \in [Users -> {"none", "active", "inactive", "deleted"}]
    /\ sync \in [Assignments -> SyncStatus \union {"none"}]
    /\ runtime \in [Slots -> Users \union {None}]
    /\ trigger \in [Nodes -> BOOLEAN]
    /\ pc \in [Nodes -> {"idle", "remove", "purge", "add", "mark"}]
    /\ todo \in [Nodes -> SUBSET Row]
    /\ cur \in [Nodes -> Row \union {None}]
    /\ client \in [Clients -> ClientState]
    /\ ops \in 0..MaxOps
    /\ faults \in 0..MaxFaults
    /\ want \in [Users -> SUBSET Inbounds]
    /\ untold \in SUBSET Nodes

Init ==
    /\ status = [u \in Users |-> "none"]
    /\ sync = [a \in Assignments |-> "none"]
    /\ runtime = [x \in Slots |-> None]
    /\ trigger = [n \in Nodes |-> FALSE]
    /\ pc = [n \in Nodes |-> "idle"]
    /\ todo = [n \in Nodes |-> {}]
    /\ cur = [n \in Nodes |-> None]
    /\ client = [c \in Clients |-> Idle]
    /\ ops = 0
    /\ faults = 0
    /\ want = [u \in Users |-> {}]
    /\ untold = {}

-----------------------------------------------------------------------------
(***************************************************************************)
(* Queries of the store.                                                   *)
(***************************************************************************)

RowsOn(n) == {[a |-> a, s |-> sync[a]] :
                  a \in {b \in Assignments : HasRow(b) /\ NodeFor(b) = n}}

\* Mutant: only tombstones are removed, suspended users stay on the node.
RemovalsForNode_TombstonesOnly(n) == {d \in RowsOn(n) : d.s = "removing"}

\* Rows that should be absent on the node: tombstones, and every row of a
\* user that is not active.
RemovalsForNode(n) ==
    {d \in RowsOn(n) : d.s = "removing" \/ status[d.a[1]] # "active"}

\* Mutant: rows whose push failed are not tried again.
DesiredForNode_SkipsFailed(n) ==
    {d \in RowsOn(n) : d.s \notin {"removing", "failed"} /\ status[d.a[1]] = "active"}

\* Rows that should be present on the node.
DesiredForNode(n) ==
    {d \in RowsOn(n) : d.s # "removing" /\ status[d.a[1]] = "active"}

\* The nodes of every row of the user, whatever its sync status.
AssignmentTargetsForUser(u) ==
    {NodeOf[i] : i \in {j \in Inbounds : HasRow(<<u, j>>)}}

-----------------------------------------------------------------------------
(***************************************************************************)
(* Requests.  A request is accepted by an idle client and commits at once  *)
(* or goes through the states "set", "mark", "delete" and "rotate";        *)
(* "notify" is the query of ReconcileForUser, "trigger" the sends.         *)
(***************************************************************************)

Accept(c) ==
    /\ client[c].pc = "idle"
    /\ ops < MaxOps
    /\ ops' = ops + 1

GoTo(c, state) == client' = [client EXCEPT ![c] = state]

Notify(c, u) == GoTo(c, Req("notify", u, {}, {}, "none"))

\* The transaction of Create.  The email is UNIQUE among the users that exist.
Create(c, u, S) ==
    /\ Accept(c)
    /\ status[u] = "none"
    /\ \A v \in Users : Exists(v) => EmailOf[v] # EmailOf[u]
    /\ S # {}
    /\ status' = [status EXCEPT ![u] = "active"]
    /\ sync' = [a \in Assignments |->
                    IF a[1] = u /\ a[2] \in S THEN "pending" ELSE sync[a]]
    /\ want' = [want EXCEPT ![u] = S]
    /\ Notify(c, u)
    /\ UNCHANGED <<runtime, trigger, actorVars, faults, untold>>

\* A committed status change followed by ReconcileForUser.
SetUserStatus(c, u, s) ==
    /\ Accept(c)
    /\ Exists(u)
    /\ status' = [status EXCEPT ![u] = s]
    /\ Notify(c, u)
    /\ UNCHANGED <<sync, runtime, trigger, actorVars, faults, want, untold>>

Suspend(c, u) == SetUserStatus(c, u, "inactive")

\* The quota and expiry checks of Resume are left open.
Resume(c, u) == SetUserStatus(c, u, "active")

\* One user flipped by the expiry sweeper or by the quota enforcer.
Sweep(c, u) ==
    /\ status[u] = "active"
    /\ SetUserStatus(c, u, "inactive")

Fault(S) ==
    /\ faults < MaxFaults
    /\ faults' = faults + 1
    /\ untold' = untold \union S

\* SetInbounds captures the old node set before its transaction.  When that
\* query fails the error is dropped, and the request goes on without any.
SetInbounds(c, u, S) ==
    /\ Accept(c)
    /\ Exists(u)
    /\ \/ /\ GoTo(c, Req("set", u, S, AssignmentTargetsForUser(u), "none"))
          /\ UNCHANGED <<faults, untold>>
       \/ /\ GoTo(c, Req("set", u, S, {}, "none"))
          /\ Fault({})
    /\ UNCHANGED <<dbVars, runtime, trigger, actorVars>>

\* Mutant: ON CONFLICT DO UPDATE revives a tombstone.
Replaced_Revives(u, S) ==
    [a \in Assignments |->
        IF a[1] # u THEN sync[a]
        ELSE IF a[2] \in S THEN "pending"
        ELSE IF HasRow(a) THEN "removing" ELSE "none"]

\* Rows outside the set become tombstones; missing rows are inserted, and ON
\* CONFLICT DO NOTHING leaves a row that exists as it is.
Replaced(u, S) ==
    [a \in Assignments |->
        IF a[1] # u THEN sync[a]
        ELSE IF HasRow(a) THEN IF a[2] \in S THEN sync[a] ELSE "removing"
        ELSE IF a[2] \in S THEN "pending" ELSE "none"]

\* Nodes on which a row turns into a tombstone.
Tombstoned == {NodeFor(a) : a \in {b \in Assignments :
                                    sync[b] # "removing" /\ sync'[b] = "removing"}}

\* The transaction of SetInbounds.  An insert for a user deleted in the
\* meantime violates the foreign key and the request fails.
SetAssignmentsForUserTx(c) ==
    LET u == client[c].u
        S == client[c].inbounds
        T == client[c].targets \union {NodeOf[i] : i \in S}
    IN  /\ client[c].pc = "set"
        /\ IF Exists(u) \/ S = {}
             THEN /\ sync' = Replaced(u, S)
                  /\ want' = [want EXCEPT ![u] = S]
                  /\ untold' = untold \union (Tombstoned \ T)
                  /\ GoTo(c, Req("trigger", u, {}, T, "none"))
             ELSE /\ GoTo(c, Idle)
                  /\ UNCHANGED <<sync, want, untold>>
        /\ UNCHANGED <<status, runtime, trigger, actorVars, ops, faults>>

\* Delete: read the targets, tombstone, trigger, delete the user's row.
Delete(c, u) ==
    /\ Accept(c)
    /\ Exists(u)
    /\ GoTo(c, Req("mark", u, {}, AssignmentTargetsForUser(u), "delete"))
    /\ UNCHANGED <<dbVars, runtime, trigger, actorVars, faults, untold>>

MarkAssignmentsRemovingForUser(c) ==
    LET u == client[c].u
    IN  /\ client[c].pc = "mark"
        /\ sync' = [a \in Assignments |->
                        IF a[1] = u /\ HasRow(a) THEN "removing" ELSE sync[a]]
        /\ untold' = untold \union (Tombstoned \ client[c].targets)
        /\ GoTo(c, Req("trigger", u, {}, client[c].targets, "delete"))
        /\ UNCHANGED <<status, want, runtime, trigger, actorVars, ops, faults>>

\* The rows of the user go with it (ON DELETE CASCADE).
DeleteUser(c) ==
    LET u == client[c].u
    IN  /\ client[c].pc = "delete"
        /\ status' = [status EXCEPT ![u] = "deleted"]
        /\ sync' = [a \in Assignments |-> IF a[1] = u THEN "none" ELSE sync[a]]
        /\ GoTo(c, Idle)
        /\ UNCHANGED <<runtime, trigger, actorVars, ops, faults, want, untold>>

\* RotateSubToken reads the whole user row ...
RotateSubToken(c, u) ==
    /\ Accept(c)
    /\ Exists(u)
    /\ GoTo(c, Req("rotate", u, {}, {}, status[u]))
    /\ UNCHANGED <<dbVars, runtime, trigger, actorVars, faults, untold>>

\* ... and writes it back, the status it read included, and triggers nothing.
UpdateUser(c) ==
    LET u == client[c].u
    IN  /\ client[c].pc = "rotate"
        /\ IF Exists(u)
             THEN /\ status' = [status EXCEPT ![u] = client[c].keep]
                  /\ untold' = IF status[u] = client[c].keep THEN untold
                               ELSE untold \union AssignmentTargetsForUser(u)
             ELSE UNCHANGED <<status, untold>>
        /\ GoTo(c, Idle)
        /\ UNCHANGED <<sync, runtime, trigger, actorVars, ops, faults, want>>

\* The query of ReconcileForUser.
ReconcileForUser(c) ==
    LET u == client[c].u
    IN  /\ client[c].pc = "notify"
        /\ GoTo(c, Req("trigger", u, {}, AssignmentTargetsForUser(u), "none"))
        /\ UNCHANGED <<dbVars, runtime, trigger, actorVars, ops, faults, untold>>

\* Mutant: a busy actor does not take the trigger.
triggerReconcile_LostWhenBusy(n) ==
    trigger' = [trigger EXCEPT ![n] = @ \/ pc[n] = "idle"]

\* A non-blocking send: the trigger is coalesced with one that is pending.
triggerReconcile(n) == trigger' = [trigger EXCEPT ![n] = TRUE]

\* Manager.Reconcile for one of the nodes.
SendTrigger(c, n) ==
    /\ client[c].pc = "trigger"
    /\ n \in client[c].targets
    /\ triggerReconcile(n)
    /\ GoTo(c, Req("trigger", client[c].u, {}, client[c].targets \ {n}, client[c].keep))
    /\ UNCHANGED <<dbVars, runtime, actorVars, ops, faults, untold>>

AllSent(c) ==
    /\ client[c].pc = "trigger"
    /\ client[c].targets = {}
    /\ GoTo(c, IF client[c].keep = "delete"
                 THEN Req("delete", client[c].u, {}, {}, "delete")
                 ELSE Idle)
    /\ UNCHANGED <<dbVars, runtime, trigger, actorVars, ops, faults, untold>>

-----------------------------------------------------------------------------
(***************************************************************************)
(* The reconcile pass of the actor of node n.                              *)
(***************************************************************************)

Pass(n, p, T, row) ==
    /\ pc' = [pc EXCEPT ![n] = p]
    /\ todo' = [todo EXCEPT ![n] = T]
    /\ cur' = [cur EXCEPT ![n] = row]

\* A pass begins when the actor takes the trigger out of the channel, or at a
\* tick (periodic reconcile, or a probe that found the node back or
\* restarted), which leaves the channel as it is.
StartPass(n) ==
    /\ pc[n] = "idle"
    /\ trigger' \in {trigger, [trigger EXCEPT ![n] = FALSE]}
    /\ Pass(n, "remove", RemovalsForNode(n), None)
    /\ untold' = untold \ {n}
    /\ UNCHANGED <<dbVars, runtime, client, ops, faults>>

\* RemoveUser succeeds, also when the node has no such user.
RemoveUser(n) ==
    /\ pc[n] = "remove"
    /\ \E d \in todo[n] :
        /\ runtime' = [runtime EXCEPT ![Slot(d.a)] = None]
        /\ IF d.s = "removing"
             THEN Pass(n, "purge", todo[n] \ {d}, d)
             ELSE Pass(n, "remove", todo[n] \ {d}, None)
    /\ UNCHANGED <<dbVars, trigger, client, ops, faults, untold>>

\* Unconditional on the row's present sync status.
DeleteAssignment(n) ==
    /\ pc[n] = "purge"
    /\ sync' = [sync EXCEPT ![cur[n].a] = "none"]
    /\ Pass(n, "remove", todo[n], None)
    /\ UNCHANGED <<status, want, runtime, trigger, client, ops, faults, untold>>

LoadDesired(n) ==
    /\ pc[n] = "remove"
    /\ todo[n] = {}
    /\ Pass(n, "add", DesiredForNode(n), None)
    /\ UNCHANGED <<dbVars, runtime, trigger, client, ops, faults, untold>>

\* The node refuses an email it already has ("already exists"), which
\* mapAlterErr turns into success: the credentials it holds stay.
Pushed(a) ==
    IF runtime[Slot(a)] = None
      THEN [runtime EXCEPT ![Slot(a)] = a[1]]
      ELSE runtime

AddUser(n) ==
    /\ pc[n] = "add"
    /\ \E d \in todo[n] :
        /\ runtime' = Pushed(d.a)
        /\ IF d.s = "applied"
             THEN Pass(n, "add", todo[n] \ {d}, None)
             ELSE Pass(n, "mark", todo[n] \ {d}, [a |-> d.a, s |-> "applied"])
    /\ UNCHANGED <<dbVars, trigger, client, ops, faults, untold>>

\* Unconditional on the row's present sync status; no effect without a row.
\* A row is marked failed on the way out of an aborted pass.
MarkAssignmentSynced(n) ==
    LET d == cur[n]
    IN  /\ pc[n] = "mark"
        /\ sync' = IF HasRow(d.a) THEN [sync EXCEPT ![d.a] = d.s] ELSE sync
        /\ IF d.s = "failed" THEN Pass(n, "idle", {}, None)
                             ELSE Pass(n, "add", todo[n], None)
        /\ UNCHANGED <<status, want, runtime, trigger, client, ops, faults, untold>>

FinishPass(n) ==
    /\ pc[n] = "add"
    /\ todo[n] = {}
    /\ Pass(n, "idle", {}, None)
    /\ UNCHANGED <<dbVars, runtime, trigger, client, ops, faults, untold>>

-----------------------------------------------------------------------------
(***************************************************************************)
(* Faults.                                                                 *)
(***************************************************************************)

\* RemovalsForNode fails: the trigger that started the pass is consumed.
LoadRemovalsFails(n) ==
    /\ pc[n] = "idle"
    /\ Fault({n})
    /\ trigger' \in {trigger, [trigger EXCEPT ![n] = FALSE]}
    /\ UNCHANGED <<dbVars, runtime, actorVars, client, ops>>

\* RemoveUser fails; the node may have executed the call.  The pass ends.
RemoveUserFails(n) ==
    /\ pc[n] = "remove"
    /\ Fault({n})
    /\ \E d \in todo[n] :
        runtime' \in {runtime, [runtime EXCEPT ![Slot(d.a)] = None]}
    /\ Pass(n, "idle", {}, None)
    /\ UNCHANGED <<dbVars, trigger, client, ops>>

\* DeleteAssignment fails: logged, the pass goes on.
DeleteAssignmentFails(n) ==
    /\ pc[n] = "purge"
    /\ Fault({n})
    /\ Pass(n, "remove", todo[n], None)
    /\ UNCHANGED <<dbVars, runtime, trigger, client, ops>>

LoadDesiredFails(n) ==
    /\ pc[n] = "remove"
    /\ todo[n] = {}
    /\ Fault({n})
    /\ Pass(n, "idle", {}, None)
    /\ UNCHANGED <<dbVars, runtime, trigger, client, ops>>

\* AddUser fails; the node may have executed the call.  The row is marked
\* failed and the pass ends.
AddUserFails(n) ==
    /\ pc[n] = "add"
    /\ Fault({n})
    /\ \E d \in todo[n] :
        /\ runtime' \in {runtime, Pushed(d.a)}
        /\ Pass(n, "mark", {}, [a |-> d.a, s |-> "failed"])
    /\ UNCHANGED <<dbVars, trigger, client, ops>>

\* The error of MarkAssignmentSynced is dropped.
MarkFails(n) ==
    /\ pc[n] = "mark"
    /\ Fault({})
    /\ IF cur[n].s = "failed" THEN Pass(n, "idle", {}, None)
                              ELSE Pass(n, "add", todo[n], None)
    /\ UNCHANGED <<dbVars, runtime, trigger, client, ops>>

\* The query of ReconcileForUser fails: logged, nothing is triggered.
NotifyFails(c) ==
    /\ client[c].pc = "notify"
    /\ Fault(AssignmentTargetsForUser(client[c].u))
    /\ GoTo(c, Idle)
    /\ UNCHANGED <<dbVars, runtime, trigger, actorVars, ops>>

\* Xray restarts: its runtime users are gone.
NodeRestart(n) ==
    /\ Fault({n})
    /\ runtime' = [x \in Slots |-> IF NodeOf[x[1]] = n THEN None ELSE runtime[x]]
    /\ UNCHANGED <<dbVars, trigger, actorVars, client, ops>>

\* The control plane dies and starts again: requests, triggers and passes
\* are gone, the database stays.
Crash ==
    /\ Fault(Nodes)
    /\ client' = [c \in Clients |-> Idle]
    /\ trigger' = [n \in Nodes |-> FALSE]
    /\ pc' = [n \in Nodes |-> "idle"]
    /\ todo' = [n \in Nodes |-> {}]
    /\ cur' = [n \in Nodes |-> None]
    /\ UNCHANGED <<dbVars, runtime, ops>>

-----------------------------------------------------------------------------

Request(c) ==
    \E u \in Users :
        \/ Suspend(c, u)
        \/ Resume(c, u)
        \/ Sweep(c, u)
        \/ Delete(c, u)
        \/ RotateSubToken(c, u)
        \/ \E S \in SUBSET Inbounds : Create(c, u, S) \/ SetInbounds(c, u, S)

RequestStep(c) ==
    \/ SetAssignmentsForUserTx(c)
    \/ MarkAssignmentsRemovingForUser(c)
    \/ DeleteUser(c)
    \/ UpdateUser(c)
    \/ ReconcileForUser(c)
    \/ \E n \in Nodes : SendTrigger(c, n)
    \/ AllSent(c)

PassStep(n) ==
    \/ StartPass(n)
    \/ RemoveUser(n)
    \/ DeleteAssignment(n)
    \/ LoadDesired(n)
    \/ AddUser(n)
    \/ MarkAssignmentSynced(n)
    \/ FinishPass(n)

FaultStep ==
    \/ \E n \in Nodes :
        \/ LoadRemovalsFails(n)
        \/ RemoveUserFails(n)
        \/ DeleteAssignmentFails(n)
        \/ LoadDesiredFails(n)
        \/ AddUserFails(n)
        \/ MarkFails(n)
        \/ NodeRestart(n)
    \/ \E c \in Clients : NotifyFails(c)
    \/ Crash

Next ==
    \/ \E c \in Clients : Request(c) \/ RequestStep(c)
    \/ \E n \in Nodes : PassStep(n)
    \/ FaultStep

Spec == Init /\ [][Next]_vars

\* A request that was accepted goes on, and the actor's select loop keeps
\* running passes: the reconcile ticker fires for ever.
Fairness ==
    /\ \A c \in Clients : WF_vars(RequestStep(c))
    /\ \A n \in Nodes : WF_vars(PassStep(n))

FairSpec == Spec /\ Fairness
-----------------------------------------------------------------------------
(***************************************************************************)
(* Properties.                                                             *)
(***************************************************************************)

\* What the database asks of the node for a row that exists.
Wanted(a) == status[a[1]] = "active" /\ sync[a] # "removing"

Synced(a) ==
    /\ Wanted(a) <=> runtime[Slot(a)] # None
    /\ sync[a] # "removing"

\* A request still has to trigger node n on behalf of user u.
Owed(u, n) ==
    \E c \in Clients :
        \/ client[c].pc = "notify" /\ client[c].u = u
        \/ client[c].pc = "trigger" /\ n \in client[c].targets

\* A trigger is in the channel, or the actor is busy, or a request will send one.
Awake(u, n) == pc[n] # "idle" \/ trigger[n] \/ Owed(u, n)

\* Triggers are sent after the commit and consumed before the query, so none
\* is lost by coalescing: when the actor of a node rests with an empty
\* channel, every row of the node is in force (pushed if wanted, removed and
\* purged if not), unless the node has seen a change that no trigger
\* announces since its last pass began.
NoForgottenWork ==
    \A a \in Assignments :
        HasRow(a) =>
            \/ Awake(a[1], NodeFor(a))
            \/ NodeFor(a) \in untold
            \/ Synced(a)

\* A pass purges a row it loaded as a tombstone without looking at it again.
\* That never takes away a live assignment: a row that is not a tombstone
\* disappears only together with its user.
OnlyTombstonesPurged ==
    [][\A a \in Assignments :
          (sync[a] \notin {"none", "removing"} /\ sync'[a] = "none")
             => status'[a[1]] = "deleted"]_vars

\* Once requests and faults stop, the passes bring every row into force and
\* keep it so: aborted passes, lost triggers, restarts and crashes delay
\* convergence and never prevent it.
Converges == <>[](\A a \in Assignments : HasRow(a) => Synced(a))

\* Delete "tombstone[s] assignments and reconcile[s] so nodes drop the user":
\* a deleted user eventually leaves every node.
DeletedUserLeavesNodes ==
    \A u \in Users :
        (status[u] = "deleted") ~> (\A x \in Slots : runtime[x] # u)

\* SetInbounds replaces the user's assignment set: an inbound that is not in
\* the set last requested has no row, or a tombstone.
UnrequestedIsTombstoned ==
    \A a \in Assignments :
        HasRow(a) /\ a[2] \notin want[a[1]] => sync[a] = "removing"

\* SetInbounds replaces the user's assignment set: an inbound of the set last
\* requested has a row, and the row is not a tombstone, until the user is
\* deleted.
RequestedIsAssigned ==
    \A a \in Assignments :
        Exists(a[1]) /\ a[2] \in want[a[1]] =>
            \/ sync[a] \notin {"none", "removing"}
            \/ \E c \in Clients : client[c].u = a[1] /\ client[c].keep = "delete"

\* SetInbounds captures the old node set "so removed-from nodes also
\* reconcile": a tombstone it writes is never left on a node nobody wakes.
RemovedFromNodesReconcile ==
    \A a \in Assignments :
        sync[a] = "removing" /\ a[2] \notin want[a[1]] => Awake(a[1], NodeFor(a))

\* An assignment that is marked applied, at rest, is served with the
\* credentials of its own user.
AppliedMeansOwnCredentials ==
    \A a \in Assignments :
        sync[a] = "applied" /\ status[a[1]] = "active"
            => Awake(a[1], NodeFor(a)) \/ runtime[Slot(a)] = a[1]
-----------------------------------------------------------------------------
(***************************************************************************)
(* The inductive invariant behind NoForgottenWork and OnlyTombstonesPurged. *)
(***************************************************************************)

\* Something will start another pass on the row's node, or the node has seen
\* a change that nothing announces.
Excused(a) ==
    \/ trigger[NodeFor(a)]
    \/ Owed(a[1], NodeFor(a))
    \/ NodeFor(a) \in untold

\* The rows the actor still has to remove and to purge.
Purging(n) == todo[n] \union (IF pc[n] = "purge" THEN {cur[n]} ELSE {})

\* A row loaded as a tombstone stays one until it is purged or its user is
\* gone for good.
TombstoneStays(a) ==
    sync[a] = "removing" \/ (sync[a] = "none" /\ status[a[1]] = "deleted")

\* What the actor holds in memory.
PassInv(n) ==
    /\ \A d \in todo[n] : NodeFor(d.a) = n
    /\ \A d, e \in todo[n] : d.a = e.a => d = e
    /\ pc[n] \in {"purge", "mark"} => cur[n] \in Row /\ NodeFor(cur[n].a) = n
    /\ pc[n] = "purge" =>
        cur[n].s = "removing" /\ \A d \in todo[n] : d.a # cur[n].a
    /\ pc[n] = "mark" =>
        \/ cur[n].s = "applied"
        \/ cur[n].s = "failed" /\ n \in untold
    /\ pc[n] \in {"remove", "purge"} =>
        \A d \in Purging(n) : d.s = "removing" => TombstoneStays(d.a)

\* How far the pass in progress has brought a row that nothing else wakes.
Progress(a, n) ==
    /\ pc[n] = "idle" => Synced(a)
    /\ pc[n] \in {"remove", "purge"} =>
        /\ sync[a] = "removing" => [a |-> a, s |-> "removing"] \in Purging(n)
        /\ ~Wanted(a) => \/ runtime[Slot(a)] = None
                         \/ \E d \in todo[n] : d.a = a
    /\ pc[n] \in {"add", "mark"} =>
        /\ sync[a] # "removing"
        /\ Wanted(a) => \/ runtime[Slot(a)] # None
                        \/ \E d \in todo[n] : d.a = a
        /\ ~Wanted(a) => /\ runtime[Slot(a)] = None
                         /\ \A d \in todo[n] : Slot(d.a) # Slot(a)

RowsHaveUsers == \A a \in Assignments : HasRow(a) => Exists(a[1])

EmailsUnique ==
    \A u, v \in Users : Exists(u) /\ Exists(v) /\ EmailOf[u] = EmailOf[v] => u = v

ClientsKnowTheirUser ==
    \A c \in Clients :
        /\ client[c].pc # "idle" => client[c].u \in Users
        /\ client[c].pc = "rotate" => client[c].keep \in {"active", "inactive"}

IInv ==
    /\ TypeOK
    /\ RowsHaveUsers
    /\ EmailsUnique
    /\ ClientsKnowTheirUser
    /\ \A n \in Nodes : PassInv(n)
    /\ \A a \in Assignments : HasRow(a) /\ ~Excused(a) => Progress(a, NodeFor(a))
=============================================================================
