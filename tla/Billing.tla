------------------------------ MODULE Billing ------------------------------
(***************************************************************************)
(* Billing webhooks: a provider delivers signed events, at least once and  *)
(* in any order; the service records the event id, executes the action of  *)
(* a fresh event through the user service, and acknowledges.  Several      *)
(* deliveries are handled at the same time, also of the same event.        *)
(*                                                                         *)
(* Abstractions.  Signature check and decoding happen before any state is  *)
(* touched: deliveries here have passed them, and the plans and inbounds   *)
(* they name exist.  A user is identified by its email, which is unique;   *)
(* quota and clock are in module Lifecycle, so Resume may be refused at    *)
(* any time.                                                               *)
(***************************************************************************)
EXTENDS Naturals, FiniteSets

CONSTANTS
    Events,         \* event ids
    Payload,        \* Payload[e]: action, external id and email of event e
    Emails,
    ExternalIds,
    None,           \* no user, no external id
    Handlers,       \* deliveries that may be handled at the same time
    MaxDeliveries,  \* bound: deliveries by the provider
    MaxFaults       \* bound: statements that fail, replies that get lost

Actions == {"provision", "renew", "suspend", "resume", "cancel"}

ASSUME BillingAssumption ==
    /\ Payload \in [Events -> [action : Actions, ext : ExternalIds \union {None},
                               email : Emails \union {None}]]
    /\ None \notin Emails \union ExternalIds
    /\ MaxDeliveries \in Nat /\ MaxFaults \in Nat

VARIABLES
    webhook_events, \* the ids recorded
    users,          \* the row of each email, or None
    handler,        \* per handler: its progress, its event, the user it resolved
    acked,          \* events the provider has a 200 for
    deliveries, faults,
    executed        \* history: how often the action of each event took effect

vars == <<webhook_events, users, handler, acked, deliveries, faults, executed>>

Statuses == {"active", "disabled"}
UserRow(x, s, n) == [ext |-> x, status |-> s, periods |-> n]
Users == [ext : ExternalIds \union {None}, status : Statuses, periods : Nat]

ASSUME NoneIsNoUser == None \notin Users

PCs == {"idle", "record", "execute", "create", "renew", "activate", "reply"}
At(p, e, m, r) == [pc |-> p, ev |-> e, email |-> m, row |-> r]
Idle == At("idle", None, None, None)

TypeOK ==
    /\ webhook_events \subseteq Events
    /\ users \in [Emails -> Users \union {None}]
    /\ handler \in [Handlers -> [pc : PCs, ev : Events \union {None},
                                 email : Emails \union {None}, row : Users \union {None}]]
    /\ acked \subseteq Events
    /\ deliveries \in 0..MaxDeliveries
    /\ faults \in 0..MaxFaults
    /\ executed \in [Events -> Nat]

\* Some users exist that were created through the API, without external id.
Init ==
    /\ webhook_events = {}
    /\ \E M \in SUBSET Emails :
        users = [m \in Emails |-> IF m \in M THEN UserRow(None, "active", 0) ELSE None]
    /\ handler = [h \in Handlers |-> Idle]
    /\ acked = {}
    /\ deliveries = 0
    /\ faults = 0
    /\ executed = [e \in Events |-> 0]

-----------------------------------------------------------------------------

\* The provider delivers an event, again if it wants to.
Deliver(h, e) ==
    /\ handler[h].pc = "idle"
    /\ deliveries < MaxDeliveries
    /\ deliveries' = deliveries + 1
    /\ handler' = [handler EXCEPT ![h] = At("record", e, None, None)]
    /\ UNCHANGED <<webhook_events, users, acked, faults, executed>>

Handles(h, p) == handler[h].pc = p
Ev(h) == handler[h].ev
GoTo(h, p, m, r) == handler' = [handler EXCEPT ![h] = At(p, Ev(h), m, r)]

\* The action of the event has taken effect; the reply is 200.
Executed(h) ==
    /\ executed' = [executed EXCEPT ![Ev(h)] = @ + 1]
    /\ GoTo(h, "reply", None, None)

\* An error reply: the provider has no acknowledgement.
Error(h) ==
    /\ handler' = [handler EXCEPT ![h] = Idle]
    /\ UNCHANGED <<users, executed>>

\* Mutant: the id is looked up and not inserted atomically with the lookup.
RecordWebhookEvent_Checked(h) ==
    /\ Handles(h, "record")
    /\ webhook_events' = webhook_events
    /\ GoTo(h, IF Ev(h) \in webhook_events THEN "reply" ELSE "execute", None, None)
    /\ UNCHANGED <<users, acked, deliveries, faults, executed>>

\* Mutant: a replay is refused instead of acknowledged.
RecordWebhookEvent_Refuses(h) ==
    /\ Handles(h, "record")
    /\ webhook_events' = webhook_events \union {Ev(h)}
    /\ IF Ev(h) \in webhook_events THEN handler' = [handler EXCEPT ![h] = Idle]
                                   ELSE GoTo(h, "execute", None, None)
    /\ UNCHANGED <<users, acked, deliveries, faults, executed>>

\* INSERT ... ON CONFLICT DO NOTHING: one delivery of an event finds it fresh,
\* every other is acknowledged as a duplicate.
RecordWebhookEvent(h) ==
    /\ Handles(h, "record")
    /\ webhook_events' = webhook_events \union {Ev(h)}
    /\ GoTo(h, IF Ev(h) \in webhook_events THEN "reply" ELSE "execute", None, None)
    /\ UNCHANGED <<users, acked, deliveries, faults, executed>>

Exists(m) == users[m] # None
WithExternalId(x) == {m \in Emails : Exists(m) /\ users[m].ext = x}

\* The users an event addresses: by external id if it has one, else by email.
resolveUser(e) ==
    IF Payload[e].ext # None THEN WithExternalId(Payload[e].ext)
    ELSE {m \in Emails : Exists(m) /\ m = Payload[e].email}

Step(h, A) ==
    /\ Handles(h, "execute")
    /\ Payload[Ev(h)].action \in A
    /\ UNCHANGED <<webhook_events, acked, deliveries, faults>>

\* provision needs an external id; a user that has it is returned as it is.
provision(h) ==
    /\ Step(h, {"provision"})
    /\ \/ /\ Payload[Ev(h)].ext # None
          /\ IF WithExternalId(Payload[Ev(h)].ext) # {}
               THEN Executed(h)
               ELSE GoTo(h, "create", None, None) /\ UNCHANGED executed
          /\ UNCHANGED users
       \/ /\ Payload[Ev(h)].ext = None
          /\ Error(h)

\* Mutant: external ids are not unique in the table.
CreateUserTx_SharedExternalId(x, m) ==
    /\ ~Exists(m)
    /\ users' = [users EXCEPT ![m] = UserRow(x, "active", 0)]

\* The INSERT: emails and external ids are unique.
CreateUserTx(x, m) ==
    /\ ~Exists(m)
    /\ WithExternalId(x) = {}
    /\ users' = [users EXCEPT ![m] = UserRow(x, "active", 0)]

\* UserService.Create: it validates, then inserts; a conflict is an error.
Create(h) ==
    /\ Handles(h, "create")
    /\ LET p == Payload[Ev(h)]
       IN  \/ p.email # None /\ CreateUserTx(p.ext, p.email) /\ Executed(h)
           \/ /\ p.email = None \/ WithExternalId(p.ext) # {} \/ (p.email # None /\ Exists(p.email))
              /\ Error(h)
    /\ UNCHANGED <<webhook_events, acked, deliveries, faults>>

NotFound(h) ==
    /\ Step(h, Actions \ {"provision"})
    /\ resolveUser(Ev(h)) = {}
    /\ Error(h)

\* renew resolves the user, and UserService.Renew reads the row and adds to it.
renew(h) ==
    /\ Step(h, {"renew"})
    /\ \E m \in resolveUser(Ev(h)) :
        GoTo(h, "renew", m, [users[m] EXCEPT !.periods = @ + 1])
    /\ UNCHANGED <<users, executed>>

RenewUpdateUser(h) ==
    /\ Handles(h, "renew")
    /\ users' = [users EXCEPT ![handler[h].email] = handler[h].row]
    /\ Executed(h)
    /\ UNCHANGED <<webhook_events, acked, deliveries, faults>>

\* suspend and cancel both end in UserService.Suspend.
cancel(h) ==
    /\ Step(h, {"suspend", "cancel"})
    /\ \E m \in resolveUser(Ev(h)) :
        users' = [users EXCEPT ![m].status = "disabled"]
    /\ Executed(h)

\* resume reads the row and may refuse; else it sets the status.
resume(h) ==
    /\ Step(h, {"resume"})
    /\ \E m \in resolveUser(Ev(h)) :
        \/ GoTo(h, "activate", m, users[m]) /\ UNCHANGED <<users, executed>>
        \/ Error(h)

ResumeSetUserStatus(h) ==
    /\ Handles(h, "activate")
    /\ users' = [users EXCEPT ![handler[h].email].status = "active"]
    /\ Executed(h)
    /\ UNCHANGED <<webhook_events, acked, deliveries, faults>>

Reply(h) ==
    /\ Handles(h, "reply")
    /\ acked' = acked \union {Ev(h)}
    /\ handler' = [handler EXCEPT ![h] = Idle]
    /\ UNCHANGED <<webhook_events, users, deliveries, faults, executed>>

\* The database fails, the process dies or the reply gets lost.
Fails(h) ==
    /\ ~Handles(h, "idle")
    /\ faults < MaxFaults
    /\ faults' = faults + 1
    /\ Error(h)
    /\ UNCHANGED <<webhook_events, acked, deliveries>>

-----------------------------------------------------------------------------

Process(h) ==
    \/ RecordWebhookEvent(h)
    \/ provision(h)
    \/ Create(h)
    \/ NotFound(h)
    \/ renew(h)
    \/ RenewUpdateUser(h)
    \/ cancel(h)
    \/ resume(h)
    \/ ResumeSetUserStatus(h)
    \/ Reply(h)

Next ==
    \/ \E h \in Handlers, e \in Events : Deliver(h, e)
    \/ \E h \in Handlers : Process(h) \/ Fails(h)

Spec == Init /\ [][Next]_vars

\* A handler runs to its end.
FairSpec == Spec /\ \A h \in Handlers : WF_vars(Process(h))
-----------------------------------------------------------------------------
(***************************************************************************)
(* Properties.                                                             *)
(***************************************************************************)

\* Replays are not executed again: whatever the provider delivers and
\* whatever fails, the action of an event takes effect at most once.
AtMostOnce == \A e \in Events : executed[e] <= 1

\* A new event id for the same purchase cannot create a second account, even
\* when both are handled at the same time.
OneAccount == \A x \in ExternalIds : Cardinality(WithExternalId(x)) <= 1

\* Retries end: a delivery of an event already recorded is acknowledged once
\* no fault can hit it any more, so a provider that retries comes to rest.
ReplaysAcknowledged ==
    \A e \in Events :
        (e \in webhook_events /\ faults = MaxFaults
            /\ \E h \in Handlers : handler[h].pc = "record" /\ Ev(h) = e)
                ~> e \in acked

Abstract == INSTANCE Inbox WITH taken <- webhook_events

\* Whatever the provider delivers and whatever fails, the endpoint is an inbox:
\* RecordWebhookEvent takes an event once, and only what it took is executed
\* and acknowledged.
ImplementsInbox == Abstract!Spec

\* The provider may rely on its retries: an acknowledged event that nobody is
\* still executing has taken effect.
AcknowledgedIsExecuted ==
    \A e \in acked : executed[e] = 1 \/ \E h \in Handlers : Ev(h) = e /\ handler[h].pc # "idle"
=============================================================================
