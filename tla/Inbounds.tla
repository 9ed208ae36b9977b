------------------------------ MODULE Inbounds ------------------------------
(***************************************************************************)
(* The inbounds of one node.  The database knows an inbound by its id, the *)
(* node by its tag; a pass of the reconciler pushes users under the tags   *)
(* that its query read.  Requests create, rename and delete inbounds while *)
(* users are assigned to them, suspended and resumed and passes run.  A tag *)
(* that is not in the configuration of the node is refused in every pass.  *)
(*                                                                         *)
(* Abstractions.  Inputs have passed validation, and of an inbound only    *)
(* the tag is kept.  No row is a tombstone and the node does not fail:     *)
(* module Reconcile has both.  The node has one actor: an update of the    *)
(* node, which may leave the pass of the old actor running beside the new  *)
(* one (ManagerOverlap.cfg), is not among the requests.                    *)
(***************************************************************************)
EXTENDS Naturals

CONSTANTS
    InboundIds,
    Tags,
    Configured, \* the tags the configuration of the node has
    Users,
    Clients,    \* requests that may be in progress at the same time
    None,
    MaxOps      \* bound: requests accepted

ASSUME InboundsAssumption ==
    /\ None \notin Tags /\ "unused" \notin Tags
    /\ Configured \subseteq Tags
    /\ MaxOps \in Nat

VARIABLES
    tag,        \* inbounds.tag per id; "unused" before the insert, None after the delete
    status,     \* users.status; "new" before the user is created
    rows,       \* user_inbounds: pairs of user and inbound id
    runtime,    \* per tag: the users the node holds
    trigger,    \* reconcileCh of the actor
    pc, todo,   \* the pass: its next step, removals or pushes still to be done
    failed,     \* the last pass to end was given up
    req,        \* per request: its next step and its parameters
    ops

pass == <<pc, todo, failed>>
vars == <<tag, status, rows, runtime, trigger, pass, req, ops>>

Exists(i) == tag[i] \in Tags

Req(p, i, t, u, S) == [pc |-> p, inbound |-> i, tag |-> t, user |-> u, inbounds |-> S]
Idle == Req("idle", None, None, None, {})

TypeOK ==
    /\ tag \in [InboundIds -> Tags \union {"unused", None}]
    /\ status \in [Users -> {"new", "active", "suspended"}]
    /\ rows \subseteq Users \X InboundIds
    /\ runtime \in [Tags -> SUBSET Users]
    /\ trigger \in BOOLEAN
    /\ pc \in {"idle", "load", "remove", "add"}
    /\ todo \subseteq Users \X Tags
    /\ failed \in BOOLEAN
    /\ req \in [Clients -> [pc : {"idle", "update", "assign", "notify", "trigger"},
                            inbound : InboundIds \union {None}, tag : Tags \union {None},
                            user : Users \union {None}, inbounds : SUBSET InboundIds]]
    /\ ops \in 0..MaxOps

Init ==
    /\ tag = [i \in InboundIds |-> "unused"]
    /\ status = [u \in Users |-> "new"]
    /\ rows = {}
    /\ runtime = [t \in Tags |-> {}]
    /\ trigger = FALSE
    /\ pc = "idle"
    /\ todo = {}
    /\ failed = FALSE
    /\ req = [c \in Clients |-> Idle]
    /\ ops = 0

-----------------------------------------------------------------------------

Accept(c) ==
    /\ req[c].pc = "idle"
    /\ ops < MaxOps
    /\ ops' = ops + 1

GoTo(c, r) == req' = [req EXCEPT ![c] = r]

\* Tags are unique on a node.
Free(i, t) == \A j \in InboundIds \ {i} : tag[j] # t

CreateInbound(c, i, t) ==
    /\ Accept(c)
    /\ tag[i] = "unused"
    /\ Free(i, t)
    /\ tag' = [tag EXCEPT ![i] = t]
    /\ UNCHANGED <<status, rows, runtime, trigger, pass, req>>

\* UpdateInbound reads the inbound, ...
UpdateInbound(c, i, t) ==
    /\ Accept(c)
    /\ Exists(i)
    /\ GoTo(c, Req("update", i, t, None, {}))
    /\ UNCHANGED <<tag, status, rows, runtime, trigger, pass>>

\* Mutant: nothing is triggered.
UpdateInboundStmt_Silent(c) ==
    LET i == req[c].inbound
        t == req[c].tag
    IN  /\ req[c].pc = "update"
        /\ tag' = IF Exists(i) /\ Free(i, t) THEN [tag EXCEPT ![i] = t] ELSE tag
        /\ GoTo(c, Idle)
        /\ UNCHANGED <<status, rows, runtime, trigger, pass, ops>>

\* ... writes it (an error if it is gone or the tag is taken) and goes on to
\* trigger the node.
UpdateInboundStmt(c) ==
    LET i == req[c].inbound
        t == req[c].tag
    IN  /\ req[c].pc = "update"
        /\ IF Exists(i) /\ Free(i, t)
             THEN tag' = [tag EXCEPT ![i] = t] /\ GoTo(c, Req("trigger", i, t, None, {}))
             ELSE GoTo(c, Idle) /\ UNCHANGED tag
        /\ UNCHANGED <<status, rows, runtime, trigger, pass, ops>>

\* Mutant: the rows are not deleted with the inbound.
DeleteInbound_KeepsRows(c, i) ==
    /\ Accept(c)
    /\ Exists(i)
    /\ tag' = [tag EXCEPT ![i] = None]
    /\ UNCHANGED <<status, rows, runtime, trigger, pass, req>>

\* The assignments go with the inbound (ON DELETE CASCADE); nothing is triggered.
DeleteInbound(c, i) ==
    /\ Accept(c)
    /\ Exists(i)
    /\ tag' = [tag EXCEPT ![i] = None]
    /\ rows' = {r \in rows : r[2] # i}
    /\ UNCHANGED <<status, runtime, trigger, pass, req>>

\* A user is created with inbounds that exist when they are looked up, ...
ListInboundsByIDs(c, u, S) ==
    /\ Accept(c)
    /\ status[u] = "new"
    /\ \A d \in Clients : req[d].user # u
    /\ S # {}
    /\ \A i \in S : Exists(i)
    /\ GoTo(c, Req("assign", None, None, u, S))
    /\ UNCHANGED <<tag, status, rows, runtime, trigger, pass>>

\* ... and inserted in a transaction that fails if one has gone since.
AddAssignmentTx(c) ==
    LET S == req[c].inbounds
        u == req[c].user
    IN  /\ req[c].pc = "assign"
        /\ IF \A i \in S : Exists(i)
             THEN /\ status' = [status EXCEPT ![u] = "active"]
                  /\ rows' = rows \union ({u} \X S)
                  /\ GoTo(c, Req("notify", None, None, u, {}))
             ELSE GoTo(c, Idle) /\ UNCHANGED <<status, rows>>
        /\ UNCHANGED <<tag, runtime, trigger, pass, ops>>

\* Suspend and Resume change one column and go on to trigger the nodes.
SetUserStatus(c, u, s) ==
    /\ Accept(c)
    /\ status[u] \in {"active", "suspended"} \ {s}
    /\ status' = [status EXCEPT ![u] = s]
    /\ GoTo(c, Req("notify", None, None, u, {}))
    /\ UNCHANGED <<tag, rows, runtime, trigger, pass>>

\* The query of ReconcileForUser: the node is a target if the user has a row.
ReconcileForUser(c) ==
    /\ req[c].pc = "notify"
    /\ GoTo(c, IF \E r \in rows : r[1] = req[c].user
                 THEN Req("trigger", None, None, req[c].user, {}) ELSE Idle)
    /\ UNCHANGED <<tag, status, rows, runtime, trigger, pass, ops>>

triggerReconcile(c) ==
    /\ req[c].pc = "trigger"
    /\ trigger' = TRUE
    /\ GoTo(c, Idle)
    /\ UNCHANGED <<tag, status, rows, runtime, pass, ops>>

-----------------------------------------------------------------------------

\* The rows joined with the inbounds: users and the tags to remove them from ...
RemovalsForNode == {<<r[1], tag[r[2]]>> : r \in {x \in rows : status[x[1]] # "active"}}

\* ... and to push them under.
DesiredForNode == {<<r[1], tag[r[2]]>> : r \in {x \in rows : status[x[1]] = "active"}}

\* On a trigger or a tick; the state is read after the trigger was taken.
StartPass ==
    /\ pc = "idle"
    /\ trigger' \in {trigger, FALSE}
    /\ pc' = "load"
    /\ UNCHANGED <<tag, status, rows, runtime, todo, failed, req, ops>>

LoadRemovals ==
    /\ pc = "load"
    /\ pc' = "remove"
    /\ todo' = RemovalsForNode
    /\ UNCHANGED <<tag, status, rows, runtime, trigger, failed, req, ops>>

GiveUp == pc' = "idle" /\ todo' = {} /\ failed' = TRUE

\* Mutant: a tag the node does not have is an error here too.
RemoveUser_NotFoundFails ==
    /\ pc = "remove"
    /\ \E d \in todo :
        /\ runtime' = [runtime EXCEPT ![d[2]] = @ \ {d[1]}]
        /\ IF d[2] \in Configured THEN todo' = todo \ {d} /\ UNCHANGED <<pc, failed>> ELSE GiveUp
    /\ UNCHANGED <<tag, status, rows, trigger, req, ops>>

\* "not found", of the user or of the tag, is fine.
RemoveUser ==
    /\ pc = "remove"
    /\ \E d \in todo :
        /\ runtime' = [runtime EXCEPT ![d[2]] = @ \ {d[1]}]
        /\ todo' = todo \ {d}
    /\ UNCHANGED <<tag, status, rows, trigger, pc, failed, req, ops>>

LoadDesired ==
    /\ pc = "remove"
    /\ todo = {}
    /\ pc' = "add"
    /\ todo' = DesiredForNode
    /\ UNCHANGED <<tag, status, rows, runtime, trigger, failed, req, ops>>

\* A user that is there already is fine; a tag the node does not have ends the
\* pass.
AddUser ==
    /\ pc = "add"
    /\ \E d \in todo :
        IF d[2] \in Configured
          THEN /\ runtime' = [runtime EXCEPT ![d[2]] = @ \union {d[1]}]
               /\ todo' = todo \ {d}
               /\ UNCHANGED <<pc, failed>>
          ELSE GiveUp /\ UNCHANGED runtime
    /\ UNCHANGED <<tag, status, rows, trigger, req, ops>>

FinishPass ==
    /\ pc = "add"
    /\ todo = {}
    /\ pc' = "idle"
    /\ failed' = FALSE
    /\ UNCHANGED <<tag, status, rows, runtime, trigger, todo, req, ops>>

-----------------------------------------------------------------------------

Request(c) ==
    \/ \E i \in InboundIds :
        \/ DeleteInbound(c, i)
        \/ \E t \in Tags : CreateInbound(c, i, t) \/ UpdateInbound(c, i, t)
    \/ \E u \in Users :
        \/ \E S \in SUBSET InboundIds : ListInboundsByIDs(c, u, S)
        \/ \E s \in {"active", "suspended"} : SetUserStatus(c, u, s)

RequestStep(c) ==
    UpdateInboundStmt(c) \/ AddAssignmentTx(c) \/ ReconcileForUser(c) \/ triggerReconcile(c)

PassStep == StartPass \/ LoadRemovals \/ RemoveUser \/ LoadDesired \/ AddUser \/ FinishPass

Next == (\E c \in Clients : Request(c) \/ RequestStep(c)) \/ PassStep

Spec == Init /\ [][Next]_vars

\* Requests go on, and the reconcile ticker fires for ever.
FairSpec == Spec /\ WF_vars(PassStep) /\ \A c \in Clients : WF_vars(RequestStep(c))
-----------------------------------------------------------------------------
(***************************************************************************)
(* Properties.                                                             *)
(***************************************************************************)

\* When the actor rests and no request has a trigger to send, a user of the
\* rows is on the node under the present tag of the inbound if and only if it
\* is active, also if the tag or the status changed in the middle of a pass; of
\* a pass that was given up only the removals are certain.
NodeFollowsRows ==
    (pc = "idle" /\ ~trigger /\ \A c \in Clients : req[c].pc \notin {"notify", "trigger"})
        => \A r \in rows :
            IF status[r[1]] = "active"
              THEN failed \/ r[1] \in runtime[tag[r[2]]]
              ELSE r[1] \notin runtime[tag[r[2]]]

\* "process removals first": a suspended user leaves the inbounds it has, even
\* if a push is refused in every pass.
SuspendedLeaves ==
    \A u \in Users, i \in InboundIds, t \in Tags :
        (status[u] = "suspended" /\ <<u, i>> \in rows /\ tag[i] = t)
            ~> (status[u] = "active" \/ <<u, i>> \notin rows \/ tag[i] # t \/ u \notin runtime[t])

\* "reconcile converges the node to the DB-desired state": an active user is
\* served under the tags that the node has.
ActiveIsServed ==
    \A u \in Users, i \in InboundIds, t \in Configured :
        (status[u] = "active" /\ <<u, i>> \in rows /\ tag[i] = t)
            ~> (status[u] # "active" \/ <<u, i>> \notin rows \/ tag[i] # t \/ u \in runtime[t])

\* A node converges to the desired state: in the end no user is left under a
\* tag that no inbound the user is assigned to has.
NoUserLeftBehind ==
    <>[](\A t \in Tags : \A u \in runtime[t] : \E r \in rows : r[1] = u /\ tag[r[2]] = t)

\* Rows are of inbounds that exist (ON DELETE CASCADE), and a request that goes
\* on knows what it is about.
RowsHaveInbounds == \A r \in rows : Exists(r[2])

RequestsKnow ==
    \A c \in Clients :
        /\ req[c].pc = "update" => req[c].inbound \in InboundIds /\ req[c].tag \in Tags
        /\ req[c].pc \in {"assign", "notify"} => req[c].user \in Users

\* A trigger is on its way on behalf of user u.
Announced(u) ==
    \/ trigger
    \/ \E c \in Clients :
        req[c].pc = "trigger" \/ (req[c].pc = "notify" /\ req[c].user = u)

\* The pass that is under way, or ended, has dealt with a row as the row is
\* now, or will.
Reached(r) ==
    LET d == <<r[1], tag[r[2]]>>
        active == status[r[1]] = "active"
        there == r[1] \in runtime[tag[r[2]]]
    IN  /\ pc = "idle" => IF active THEN failed \/ there ELSE ~there
        /\ pc = "remove" /\ ~active => d \in todo \/ ~there
        /\ pc = "add" => IF active THEN d \in todo \/ there ELSE d \notin todo /\ ~there

\* The inductive invariant behind NodeFollowsRows: whatever the reconciler and
\* the requests do next, for every row the pass deals with it or a trigger is on
\* its way.
InboundsInv ==
    /\ TypeOK
    /\ RowsHaveInbounds
    /\ RequestsKnow
    /\ \A r \in rows : Announced(r[1]) \/ Reached(r)
=============================================================================
