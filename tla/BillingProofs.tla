---------------------------- MODULE BillingProofs ---------------------------
(***************************************************************************)
(* No event is executed twice and no purchase has two accounts, for any    *)
(* number of events, users and overlapping deliveries and any failures.    *)
(*                                                                         *)
(* The argument: the insert of the id is atomic, so among the deliveries   *)
(* of an event at most one ever executes it, and while it does the event   *)
(* has not taken effect.                                                   *)
(***************************************************************************)
EXTENDS Billing, FiniteSetTheorems, TLAPS

Executing(h) == handler[h].pc \in {"execute", "create", "renew", "activate"}

\* One delivery at most executes an event, and the event is recorded by then.
Claims ==
    /\ \A h \in Handlers : handler[h].pc # "idle" => Ev(h) \in Events
    /\ \A h \in Handlers : Executing(h) => Ev(h) \in webhook_events /\ executed[Ev(h)] = 0
    /\ \A h \in Handlers : handler[h].pc = "reply" => Ev(h) \in webhook_events
    /\ \A g, h \in Handlers : Executing(g) /\ Executing(h) /\ Ev(g) = Ev(h) => g = h
    /\ \A e \in Events : executed[e] \in {0, 1} /\ (executed[e] = 1 => e \in webhook_events)

\* An external id belongs to one user.
UniqueIds ==
    \A m, n \in Emails :
        Exists(m) /\ Exists(n) /\ users[m].ext # None /\ users[m].ext = users[n].ext => m = n

\* What a handler will write to a row leaves the external id as it is.
Keeps ==
    \A h \in Handlers : handler[h].pc \in {"renew", "activate"} =>
        /\ handler[h].email \in Emails
        /\ users[handler[h].email] \in Users /\ Exists(handler[h].email)
        /\ handler[h].pc = "renew" =>
            handler[h].row \in Users /\ handler[h].row.ext = users[handler[h].email].ext

Inv == TypeOK /\ Claims /\ UniqueIds /\ Keeps

-----------------------------------------------------------------------------
(***************************************************************************)
(* Lemmas.                                                                 *)
(***************************************************************************)

\* The progress of a handler changes, and nothing else that Claims is about:
\* it goes on with its event, or it ends.
LEMMA ClaimsGoOn ==
    ASSUME TypeOK, Claims, NEW h \in Handlers, Executing(h),
           NEW p \in {"create", "renew", "activate"}, NEW m, NEW r, GoTo(h, p, m, r),
           UNCHANGED <<webhook_events, executed>>
    PROVE  Claims'
  BY DEF TypeOK, Claims, Executing, GoTo, At, Ev

LEMMA ClaimsEnd ==
    ASSUME TypeOK, Claims, NEW h \in Handlers, handler' = [handler EXCEPT ![h] = Idle],
           UNCHANGED <<webhook_events, executed>>
    PROVE  Claims'
  BY DEF TypeOK, Claims, Executing, Idle, At, Ev

\* The action takes effect: nobody else executes the event.
LEMMA ClaimsExecuted ==
    ASSUME TypeOK, Claims, NEW h \in Handlers, Executing(h), Executed(h),
           UNCHANGED webhook_events
    PROVE  Claims'
  <1> DEFINE e == Ev(h)
  <1>1. e \in Events /\ e \in webhook_events /\ executed[e] = 0
    BY DEF Claims, Executing
  <1>2. /\ executed'[e] = 1
        /\ \A f \in Events \ {e} : executed'[f] = executed[f]
    BY <1>1 DEF TypeOK, Executed
  <1>3. /\ handler'[h] = At("reply", e, None, None)
        /\ \A g \in Handlers \ {h} : handler'[g] = handler[g]
    BY DEF TypeOK, Executed, GoTo
  <1>4. \A g \in Handlers \ {h} : Executing(g) => Ev(g) # e
    BY DEF Claims
  <1> QED
    BY <1>1, <1>2, <1>3, <1>4 DEF Claims, Executing, At, Ev

\* Deliver and RecordWebhookEvent: the first delivery to insert the id is the
\* only one that executes the event.
LEMMA ClaimsDeliver ==
    ASSUME TypeOK, Claims, NEW h \in Handlers, NEW e \in Events, Deliver(h, e)
    PROVE  Claims'
  BY DEF TypeOK, Claims, Executing, Deliver, At, Ev

LEMMA ClaimsRecord ==
    ASSUME TypeOK, Claims, NEW h \in Handlers, RecordWebhookEvent(h)
    PROVE  Claims'
  <1> DEFINE e == Ev(h)
  <1>1. e \in Events
    BY DEF Claims, RecordWebhookEvent, Handles
  <1>2. /\ webhook_events' = webhook_events \union {e}
        /\ executed' = executed
        /\ handler'[h] = At(IF e \in webhook_events THEN "reply" ELSE "execute", e, None, None)
        /\ \A g \in Handlers \ {h} : handler'[g] = handler[g]
    BY DEF TypeOK, RecordWebhookEvent, GoTo
  <1>3. e \notin webhook_events => executed[e] = 0 /\ \A g \in Handlers : Executing(g) => Ev(g) # e
    BY <1>1 DEF Claims
  <1> QED
    BY <1>1, <1>2, <1>3 DEF Claims, Executing, At, Ev

-----------------------------------------------------------------------------

\* Whatever a handler does, one delivery at most executes an event.
LEMMA ClaimsStep ==
    ASSUME TypeOK, Claims, NEW h \in Handlers, Process(h) \/ Fails(h)
    PROVE  Claims'
  <1>1. CASE RecordWebhookEvent(h)
    BY <1>1, ClaimsRecord
  <1>2. CASE provision(h)
    BY <1>2, ClaimsGoOn, ClaimsExecuted, ClaimsEnd
       DEF provision, Step, Handles, Executing, Error
  <1>3. CASE Create(h)
    BY <1>3, ClaimsExecuted, ClaimsEnd DEF Create, Handles, Executing, Error
  <1>4. CASE NotFound(h)
    BY <1>4, ClaimsEnd DEF NotFound, Step, Error
  <1>5. CASE renew(h)
    BY <1>5, ClaimsGoOn DEF renew, Step, Handles, Executing
  <1>6. CASE RenewUpdateUser(h)
    BY <1>6, ClaimsExecuted DEF RenewUpdateUser, Handles, Executing
  <1>7. CASE cancel(h)
    BY <1>7, ClaimsExecuted DEF cancel, Step, Handles, Executing
  <1>8. CASE resume(h)
    BY <1>8, ClaimsGoOn, ClaimsEnd DEF resume, Step, Handles, Executing, Error
  <1>9. CASE ResumeSetUserStatus(h)
    BY <1>9, ClaimsExecuted DEF ResumeSetUserStatus, Handles, Executing
  <1>10. CASE Reply(h)
    BY <1>10, ClaimsEnd DEF Reply
  <1>11. CASE Fails(h)
    BY <1>11, ClaimsEnd DEF Fails, Error
  <1> QED
    BY <1>1, <1>2, <1>3, <1>4, <1>5, <1>6, <1>7, <1>8, <1>9, <1>10, <1>11 DEF Process

-----------------------------------------------------------------------------

\* No row disappears and no external id changes.
Kept ==
    /\ users' \in [Emails -> Users \union {None}]
    /\ \A m \in Emails : Exists(m) => users'[m] # None /\ users'[m].ext = users[m].ext

LEMMA KeptIds ==
    ASSUME UniqueIds, Kept, \A m \in Emails : ~Exists(m) => users'[m] = None
    PROVE  UniqueIds'
  BY DEF UniqueIds, Kept, Exists

\* A new row has an id that nobody has.
LEMMA CreatedIds ==
    ASSUME TypeOK, UniqueIds, NEW x \in ExternalIds \union {None}, NEW m \in Emails,
           CreateUserTx(x, m)
    PROVE  UniqueIds' /\ Kept
  <1>1. /\ users'[m] = UserRow(x, "active", 0)
        /\ \A n \in Emails \ {m} : users'[n] = users[n]
        /\ \A n \in Emails : Exists(n) => users[n].ext # x
    BY DEF TypeOK, CreateUserTx, WithExternalId
  <1>2. UserRow(x, "active", 0) \in Users /\ UserRow(x, "active", 0).ext = x
    BY DEF UserRow, Users, Statuses
  <1> QED
    BY <1>1, <1>2 DEF TypeOK, CreateUserTx, UniqueIds, Kept, Exists

\* Setting the status of a user, and writing a row with the same id.
LEMMA WrittenIds ==
    ASSUME TypeOK, UniqueIds, NEW m \in Emails, Exists(m), NEW r \in Users,
           r.ext = users[m].ext, users' = [users EXCEPT ![m] = r]
    PROVE  UniqueIds' /\ Kept
  <1>1. Kept /\ \A n \in Emails : ~Exists(n) => users'[n] = None
    BY NoneIsNoUser DEF TypeOK, Kept, Exists
  <1> QED
    BY <1>1, KeptIds

LEMMA StatusIds ==
    ASSUME TypeOK, UniqueIds, NEW m \in Emails, Exists(m), NEW t \in Statuses,
           users' = [users EXCEPT ![m].status = t]
    PROVE  UniqueIds' /\ Kept
  <1>1. users[m] \in Users
    BY DEF TypeOK, Exists
  <1>2. [users[m] EXCEPT !.status = t] \in Users
        /\ [users[m] EXCEPT !.status = t].ext = users[m].ext
    BY <1>1 DEF Users
  <1>3. users' = [users EXCEPT ![m] = [users[m] EXCEPT !.status = t]]
    OBVIOUS
  <1> QED
    BY <1>2, <1>3, WrittenIds

\* The users that events resolve to are there.
LEMMA Resolved ==
    ASSUME NEW e \in Events, NEW m \in resolveUser(e)
    PROVE  m \in Emails /\ Exists(m)
  BY DEF resolveUser, WithExternalId

\* Nothing is written.
LEMMA SameIds ==
    ASSUME TypeOK, UniqueIds, UNCHANGED users
    PROVE  UniqueIds' /\ Kept
  BY DEF TypeOK, UniqueIds, Kept, Exists

\* The step of a handler that is not about to write afterwards.
LEMMA KeepsStay ==
    ASSUME TypeOK, Keeps, Kept, NEW h \in Handlers, NEW a \in [pc : PCs, ev : Events \union {None},
                email : Emails \union {None}, row : Users \union {None}],
           a.pc \notin {"renew", "activate"}, handler' = [handler EXCEPT ![h] = a]
    PROVE  Keeps'
  BY DEF TypeOK, Keeps, Kept, Exists

-----------------------------------------------------------------------------

\* A handler ends, with or without an effect: the rest of the state is typed.
LEMMA IdsExecuted ==
    ASSUME Inv, NEW h \in Handlers, Executing(h), Executed(h), UniqueIds' /\ Kept,
           UNCHANGED <<webhook_events, acked, deliveries, faults>>
    PROVE  TypeOK' /\ UniqueIds' /\ Keeps'
  <1>1. Ev(h) \in Events
    BY DEF Inv, Claims, Executing
  <1>2. At("reply", Ev(h), None, None) \in
            [pc : PCs, ev : Events \union {None}, email : Emails \union {None},
             row : Users \union {None}]
    BY <1>1 DEF At, PCs
  <1>3. Keeps'
    BY <1>2, KeepsStay DEF Inv, Executed, GoTo, At
  <1>4. handler' \in [Handlers -> [pc : PCs, ev : Events \union {None},
                                   email : Emails \union {None}, row : Users \union {None}]]
    BY <1>2 DEF Inv, TypeOK, Executed, GoTo
  <1>5. executed' \in [Events -> Nat]
    BY <1>1 DEF Inv, TypeOK, Executed
  <1> QED
    BY <1>3, <1>4, <1>5 DEF Inv, TypeOK, Kept

LEMMA IdsEnd ==
    ASSUME Inv, NEW h \in Handlers, handler' = [handler EXCEPT ![h] = Idle],
           webhook_events' \subseteq Events, acked' \subseteq Events,
           faults' \in 0..MaxFaults, UNCHANGED <<users, deliveries, executed>>
    PROVE  TypeOK' /\ UniqueIds' /\ Keeps'
  <1>1. Idle \in [pc : PCs, ev : Events \union {None}, email : Emails \union {None},
                  row : Users \union {None}] /\ Idle.pc = "idle"
    BY DEF Idle, At, PCs
  <1>2. UniqueIds' /\ Kept
    BY SameIds DEF Inv
  <1>3. Keeps'
    BY <1>1, <1>2, KeepsStay DEF Inv
  <1> QED
    BY <1>1, <1>2, <1>3 DEF Inv, TypeOK

\* A handler goes on without writing.
LEMMA IdsGoOn ==
    ASSUME Inv, NEW h \in Handlers, Ev(h) \in Events, NEW p \in PCs,
           NEW m \in Emails \union {None}, NEW r \in Users \union {None}, GoTo(h, p, m, r),
           p \in {"renew", "activate"} => m \in Emails /\ Exists(m) /\ r \in Users
                                            /\ r.ext = users[m].ext,
           webhook_events' \subseteq Events,
           UNCHANGED <<users, acked, deliveries, faults, executed>>
    PROVE  TypeOK' /\ UniqueIds' /\ Keeps'
  <1>1. UniqueIds' /\ Kept
    BY SameIds DEF Inv
  <1>2. /\ handler'[h] = [pc |-> p, ev |-> Ev(h), email |-> m, row |-> r]
        /\ \A g \in Handlers \ {h} : handler'[g] = handler[g]
        /\ handler' \in [Handlers -> [pc : PCs, ev : Events \union {None},
                                      email : Emails \union {None}, row : Users \union {None}]]
    BY DEF Inv, TypeOK, GoTo, At
  <1>3. Keeps'
    BY <1>2 DEF Inv, TypeOK, Keeps, Exists
  <1> QED
    BY <1>1, <1>2, <1>3 DEF Inv, TypeOK

\* Whatever a handler does, external ids stay unique.
LEMMA IdsStep ==
    ASSUME Inv, NEW h \in Handlers, Process(h) \/ Fails(h)
    PROVE  TypeOK' /\ UniqueIds' /\ Keeps'
  <1> USE DEF Handles
  <1>0. TypeOK /\ UniqueIds /\ Keeps /\ (handler[h].pc # "idle" => Ev(h) \in Events)
    BY DEF Inv, Claims
  <1>1. CASE RecordWebhookEvent(h)
    <2> DEFINE p == IF Ev(h) \in webhook_events THEN "reply" ELSE "execute"
    <2>1. p \in PCs \ {"renew", "activate"} /\ GoTo(h, p, None, None)
      BY <1>1 DEF RecordWebhookEvent, PCs
    <2> HIDE DEF p
    <2> QED
      BY <1>0, <1>1, <2>1, IdsGoOn DEF RecordWebhookEvent, TypeOK
  <1>2. CASE provision(h)
    <2>1. CASE Executed(h) /\ UNCHANGED users
      BY <1>0, <1>2, <2>1, SameIds, IdsExecuted DEF provision, Step, Executing
    <2>2. CASE GoTo(h, "create", None, None) /\ UNCHANGED <<users, executed>>
      BY <1>0, <1>2, <2>2, IdsGoOn DEF provision, Step, TypeOK, PCs
    <2>3. CASE Error(h)
      BY <1>0, <1>2, <2>3, IdsEnd DEF provision, Step, Error, TypeOK
    <2> QED
      BY <1>2, <2>1, <2>2, <2>3 DEF provision
  <1>3. CASE Create(h)
    <2> DEFINE d == Payload[Ev(h)]
    <2>1. d.ext \in ExternalIds \union {None} /\ d.email \in Emails \union {None}
      BY <1>0, <1>3, BillingAssumption DEF Create
    <2>2. CASE d.email # None /\ CreateUserTx(d.ext, d.email) /\ Executed(h)
      BY <1>0, <1>3, <2>1, <2>2, CreatedIds, IdsExecuted DEF Create, Executing
    <2>3. CASE Error(h)
      BY <1>0, <1>3, <2>3, IdsEnd DEF Create, Error, TypeOK
    <2> QED
      BY <1>3, <2>2, <2>3 DEF Create
  <1>4. CASE NotFound(h)
    BY <1>0, <1>4, IdsEnd DEF NotFound, Step, Error, TypeOK
  <1>5. CASE renew(h)
    <2>1. PICK m \in resolveUser(Ev(h)) : GoTo(h, "renew", m, [users[m] EXCEPT !.periods = @ + 1])
      BY <1>5 DEF renew
    <2>2. Ev(h) \in Events /\ m \in Emails /\ Exists(m) /\ users[m] \in Users
      BY <1>0, <1>5, Resolved DEF renew, Step, TypeOK, Exists
    <2>3. /\ [users[m] EXCEPT !.periods = @ + 1] \in Users
          /\ [users[m] EXCEPT !.periods = @ + 1].ext = users[m].ext
      BY <2>2 DEF Users
    <2> QED
      BY <1>0, <1>5, <2>1, <2>2, <2>3, IdsGoOn DEF renew, Step, TypeOK, PCs
  <1>6. CASE RenewUpdateUser(h)
    <2>1. UniqueIds' /\ Kept
      BY <1>0, <1>6, WrittenIds DEF RenewUpdateUser, Keeps
    <2> QED
      BY <1>6, <2>1, IdsExecuted DEF RenewUpdateUser, Executing
  <1>7. CASE cancel(h)
    <2>1. PICK m \in resolveUser(Ev(h)) : users' = [users EXCEPT ![m].status = "disabled"]
      BY <1>7 DEF cancel
    <2>2. m \in Emails /\ Exists(m)
      BY <1>0, <1>7, Resolved DEF cancel, Step
    <2>3. UniqueIds' /\ Kept
      BY <1>0, <2>1, <2>2, StatusIds DEF Statuses
    <2> QED
      BY <1>7, <2>3, IdsExecuted DEF cancel, Step, Executing
  <1>8. CASE resume(h)
    <2>1. PICK m \in resolveUser(Ev(h)) :
            (GoTo(h, "activate", m, users[m]) /\ UNCHANGED <<users, executed>>) \/ Error(h)
      BY <1>8 DEF resume
    <2>2. Ev(h) \in Events /\ m \in Emails /\ Exists(m) /\ users[m] \in Users
      BY <1>0, <1>8, Resolved DEF resume, Step, TypeOK, Exists
    <2>3. CASE GoTo(h, "activate", m, users[m]) /\ UNCHANGED <<users, executed>>
      BY <1>0, <1>8, <2>2, <2>3, IdsGoOn DEF resume, Step, TypeOK, PCs
    <2>4. CASE Error(h)
      BY <1>0, <1>8, <2>4, IdsEnd DEF resume, Step, Error, TypeOK
    <2> QED
      BY <2>1, <2>3, <2>4
  <1>9. CASE ResumeSetUserStatus(h)
    <2>1. UniqueIds' /\ Kept
      BY <1>0, <1>9, StatusIds DEF ResumeSetUserStatus, Keeps, Statuses
    <2> QED
      BY <1>9, <2>1, IdsExecuted DEF ResumeSetUserStatus, Executing
  <1>10. CASE Reply(h)
    BY <1>0, <1>10, IdsEnd DEF Reply, TypeOK
  <1>11. CASE Fails(h)
    <2>1. faults' \in 0..MaxFaults
      BY <1>0, <1>11, BillingAssumption DEF Fails, TypeOK
    <2> QED
      BY <1>0, <1>11, <2>1, IdsEnd DEF Fails, Error, TypeOK
  <1> QED
    BY <1>1, <1>2, <1>3, <1>4, <1>5, <1>6, <1>7, <1>8, <1>9, <1>10, <1>11 DEF Process

LEMMA IdsDeliver ==
    ASSUME Inv, NEW h \in Handlers, NEW e \in Events, Deliver(h, e)
    PROVE  TypeOK' /\ UniqueIds' /\ Keeps'
  <1>1. At("record", e, None, None) \in
            [pc : PCs, ev : Events \union {None}, email : Emails \union {None},
             row : Users \union {None}] /\ At("record", e, None, None).pc = "record"
    BY DEF At, PCs
  <1>2. UniqueIds' /\ Kept
    BY SameIds DEF Inv, Deliver
  <1>3. Keeps'
    BY <1>1, <1>2, KeepsStay DEF Inv, Deliver
  <1> QED
    BY <1>1, <1>2, <1>3, BillingAssumption DEF Inv, TypeOK, Deliver

-----------------------------------------------------------------------------
(***************************************************************************)
(* Theorems.                                                               *)
(***************************************************************************)

\* The inductive invariant holds whatever is delivered and whatever fails.
THEOREM Invariance == Spec => []Inv
  <1>1. Init => Inv
    <2> SUFFICES ASSUME Init PROVE Inv
      OBVIOUS
    <2>1. /\ users \in [Emails -> Users \union {None}]
          /\ \A m \in Emails : Exists(m) => users[m].ext = None
      BY DEF Init, UserRow, Users, Statuses, Exists
    <2>2. TypeOK
      BY <2>1, BillingAssumption DEF Init, TypeOK, Idle, At, PCs
    <2> QED
      BY <2>1, <2>2 DEF Init, Inv, Claims, UniqueIds, Keeps, Executing, Idle, At
  <1>2. Inv /\ [Next]_vars => Inv'
    <2> SUFFICES ASSUME Inv, [Next]_vars PROVE Inv'
      OBVIOUS
    <2>1. ASSUME NEW h \in Handlers, NEW e \in Events, Deliver(h, e) PROVE Inv'
      BY <2>1, ClaimsDeliver, IdsDeliver DEF Inv
    <2>2. ASSUME NEW h \in Handlers, Process(h) \/ Fails(h) PROVE Inv'
      BY <2>2, ClaimsStep, IdsStep DEF Inv
    <2>3. CASE UNCHANGED vars
      BY <2>3 DEF vars, Inv, TypeOK, Claims, UniqueIds, Keeps, Executing, Ev, Exists
    <2> QED
      BY <2>1, <2>2, <2>3 DEF Next
  <1> QED
    BY <1>1, <1>2, PTL DEF Spec

\* RecordWebhookEvent lets one delivery of an event execute it: the action
\* takes effect at most once.
THEOREM ExecutedOnce == Spec => []AtMostOnce
  <1>1. Inv => AtMostOnce
    BY DEF Inv, Claims, AtMostOnce
  <1> QED
    BY <1>1, Invariance, PTL

\* The unique constraint on external ids, and the fact that no statement
\* changes one, leave a purchase with one account.
THEOREM OnePurchaseOneAccount == Spec => []OneAccount
  <1>1. Inv => OneAccount
    <2> SUFFICES ASSUME Inv, NEW x \in ExternalIds PROVE Cardinality(WithExternalId(x)) <= 1
      BY DEF OneAccount
    <2>1. \A m, n \in WithExternalId(x) : m = n
      BY BillingAssumption DEF Inv, UniqueIds, WithExternalId
    <2>2. CASE WithExternalId(x) = {}
      BY <2>2, FS_EmptySet
    <2>3. ASSUME NEW m \in WithExternalId(x) PROVE Cardinality(WithExternalId(x)) <= 1
      <3>1. WithExternalId(x) = {m}
        BY <2>1
      <3>2. Cardinality({m}) = 1
        BY FS_Singleton, Zenon
      <3> QED
        BY <3>1, <3>2
    <2> QED
      BY <2>2, <2>3
  <1> QED
    BY <1>1, Invariance, PTL

\* The endpoint is an inbox: an event is taken once, and executed and
\* acknowledged only after it was taken.
THEOREM Refinement == Spec => ImplementsInbox
  <1>1. Init => Abstract!Init
    BY DEF Init, Abstract!Init
  <1>2. Inv /\ [Next]_vars => [Abstract!Next]_<<webhook_events, executed, acked>>
    <2> SUFFICES ASSUME Inv, [Next]_vars
                 PROVE  Abstract!Next \/ UNCHANGED <<webhook_events, executed, acked>>
      OBVIOUS
    <2>1. ASSUME NEW h \in Handlers, NEW e \in Events, Deliver(h, e)
          PROVE  UNCHANGED <<webhook_events, executed, acked>>
      BY <2>1 DEF Deliver
    <2>2. ASSUME NEW h \in Handlers, handler[h].pc # "idle"
          PROVE  Ev(h) \in Events
      BY <2>2 DEF Inv, Claims
    <2>3. ASSUME NEW h \in Handlers, Executing(h), Executed(h), UNCHANGED <<webhook_events, acked>>
          PROVE  Abstract!Execute(Ev(h))
      <3>1. Ev(h) \in webhook_events /\ executed[Ev(h)] = 0
        BY <2>3 DEF Inv, Claims
      <3>2. executed' = [executed EXCEPT ![Ev(h)] = 1]
        BY <2>3, <3>1 DEF Executed
      <3> QED
        BY <2>3, <3>1, <3>2 DEF Abstract!Execute
    <2>4. ASSUME NEW h \in Handlers, RecordWebhookEvent(h)
          PROVE  Abstract!Take(Ev(h)) \/ UNCHANGED <<webhook_events, executed, acked>>
      BY <2>4 DEF RecordWebhookEvent, Abstract!Take
    <2>5. ASSUME NEW h \in Handlers, Reply(h) PROVE Abstract!Acknowledge(Ev(h))
      BY <2>5 DEF Inv, Claims, Reply, Handles, Abstract!Acknowledge
    <2>6. ASSUME NEW h \in Handlers, Process(h) \/ Fails(h), ~RecordWebhookEvent(h), ~Reply(h)
          PROVE  \/ UNCHANGED <<webhook_events, executed, acked>>
                 \/ Executing(h) /\ Executed(h) /\ UNCHANGED <<webhook_events, acked>>
      BY <2>6 DEF Process, Fails, provision, Create, NotFound, renew, RenewUpdateUser, cancel,
                  resume, ResumeSetUserStatus, Step, Handles, Executing, Error
    <2>7. ASSUME NEW h \in Handlers, Process(h) \/ Fails(h) PROVE handler[h].pc # "idle"
      BY <2>7 DEF Process, Fails, RecordWebhookEvent, provision, Create, NotFound, renew,
                  RenewUpdateUser, cancel, resume, ResumeSetUserStatus, Reply, Step, Handles
    <2>8. ASSUME NEW h \in Handlers, Process(h) \/ Fails(h)
          PROVE  Abstract!Next \/ UNCHANGED <<webhook_events, executed, acked>>
      BY <2>2, <2>3, <2>4, <2>5, <2>6, <2>7, <2>8 DEF Abstract!Next
    <2>9. CASE UNCHANGED vars
      BY <2>9 DEF vars
    <2> QED
      BY <2>1, <2>8, <2>9 DEF Next
  <1> QED
    BY <1>1, <1>2, Invariance, PTL DEF Spec, ImplementsInbox, Abstract!Spec
=============================================================================
