-------------------------- MODULE ReconcileProofs ---------------------------
(*****************************************************************************)
(* Proofs about Reconcile: IInv is an inductive invariant, and with it no    *)
(* committed change is forgotten by the actors (NoForgottenWork) and no      *)
(* live assignment is purged (OnlyTombstonesPurged), for any number of       *)
(* users, inbounds, nodes and concurrent requests.                           *)
(*****************************************************************************)
EXTENDS Reconcile, TLAPS

-----------------------------------------------------------------------------
(*****************************************************************************)
(* Facts about the operators of Reconcile, and the frames that the proofs    *)
(* about its steps share: what a step that leaves an actor, a row or the     *)
(* other nodes alone preserves of the invariant IInv.                        *)
(*****************************************************************************)

\* The parts of an assignment.
LEMMA AssignmentFacts ==
    ASSUME NEW a \in Assignments
    PROVE  /\ a[1] \in Users
           /\ a[2] \in Inbounds
           /\ NodeFor(a) \in Nodes
           /\ Slot(a) \in Slots
BY Zenon, ConstantsAssumption DEF Assignments, NodeFor, Slot, Slots

\* Rows of different nodes never share a slot.
LEMMA SlotFacts ==
    ASSUME NEW a \in Assignments, NEW b \in Assignments, Slot(a) = Slot(b)
    PROVE  /\ NodeFor(a) = NodeFor(b)
           /\ EmailOf[a[1]] = EmailOf[b[1]]
           /\ a[1] = b[1] => a = b
BY DEF Assignments, NodeFor, Slot

\* What a query of the store returns.
LEMMA RowsOnFacts ==
    ASSUME TypeOK, NEW n \in Nodes
    PROVE  /\ RowsOn(n) \subseteq Row
           /\ \A d \in RowsOn(n) : NodeFor(d.a) = n /\ HasRow(d.a) /\ d.s = sync[d.a]
           /\ \A d, e \in RowsOn(n) : d.a = e.a => d = e
           /\ \A a \in Assignments :
                HasRow(a) /\ NodeFor(a) = n => [a |-> a, s |-> sync[a]] \in RowsOn(n)
BY DEF TypeOK, RowsOn, Row, HasRow

\* The nodes of a user's rows.
LEMMA TargetsFacts ==
    ASSUME NEW u \in Users
    PROVE  /\ AssignmentTargetsForUser(u) \subseteq Nodes
           /\ \A a \in Assignments :
                HasRow(a) /\ a[1] = u => NodeFor(a) \in AssignmentTargetsForUser(u)
<1>1. AssignmentTargetsForUser(u) \subseteq Nodes
  BY Zenon, ConstantsAssumption DEF AssignmentTargetsForUser
<1>2. ASSUME NEW a \in Assignments, HasRow(a), a[1] = u
      PROVE  NodeFor(a) \in AssignmentTargetsForUser(u)
  <2>1. a = <<u, a[2]>> /\ a[2] \in Inbounds
    BY <1>2 DEF Assignments
  <2>2. QED
    BY Zenon, <1>2, <2>1 DEF AssignmentTargetsForUser, NodeFor
<1>3. QED
  BY Zenon, <1>1, <1>2

\* What a push leaves in the slots: a slot is filled or kept, never emptied.
LEMMA PushedFacts ==
    ASSUME TypeOK, NEW a \in Assignments
    PROVE  /\ Pushed(a) \in [Slots -> Users \union {None}]
           /\ Pushed(a)[Slot(a)] # None
           /\ \A x \in Slots : runtime[x] # None => Pushed(a)[x] # None
           /\ \A x \in Slots : x # Slot(a) => Pushed(a)[x] = runtime[x]
BY Zenon, AssignmentFacts, ConstantsAssumption DEF Pushed, TypeOK

\* A slot of another node's row is not the slot of a row of n.
LEMMA OtherSlots ==
    ASSUME NEW n \in Nodes, NEW b \in Assignments, NodeFor(b) = n,
           NEW a \in Assignments, NodeFor(a) # n
    PROVE  Slot(a) # Slot(b)
BY Zenon, SlotFacts

-----------------------------------------------------------------------------
(***************************************************************************)
(* Frames: what keeps the two families of conjuncts that speak of passes.  *)
(***************************************************************************)

\* A step that leaves the actor of n alone keeps its PassInv if it neither
\* revives a tombstone nor forgets an unannounced change.
LEMMA PassFrame ==
    ASSUME NEW n \in Nodes, TypeOK, PassInv(n),
           pc'[n] = pc[n], todo'[n] = todo[n], cur'[n] = cur[n],
           n \in untold => n \in untold',
           \A a \in Assignments : NodeFor(a) = n /\ TombstoneStays(a) => TombstoneStays(a)'
    PROVE  PassInv(n)'
<1>1. todo[n] \subseteq Row
  BY Zenon DEF TypeOK
<1>2. QED
  BY <1>1 DEF PassInv, Purging, Row

\* A row keeps its progress in a step that leaves it, its user, its slot and
\* the actor of its node alone.
LEMMA ProgressFrame ==
    ASSUME NEW a \in Assignments, NEW n \in Nodes, Progress(a, n),
           pc'[n] = pc[n], todo'[n] = todo[n], cur'[n] = cur[n],
           sync'[a] = sync[a], status'[a[1]] = status[a[1]],
           runtime'[Slot(a)] = runtime[Slot(a)]
    PROVE  Progress(a, n)'
BY Zenon DEF Progress, Synced, Wanted, Purging

\* What a step of the actor of n, or a fault at n, owes: the other nodes and
\* their rows are untouched, so only the type of the state, PassInv(n) and
\* the progress of the rows of n remain to be shown.
LEMMA NodeStep ==
    ASSUME IInv, NEW n \in Nodes, TypeOK',
           UNCHANGED <<status, client>>,
           \A m \in Nodes \ {n} :
              /\ pc'[m] = pc[m] /\ todo'[m] = todo[m] /\ cur'[m] = cur[m]
              /\ trigger'[m] = trigger[m]
              /\ m \in untold' <=> m \in untold,
           \A a \in Assignments : HasRow(a)' => HasRow(a),
           \A a \in Assignments :
              NodeFor(a) # n => /\ sync'[a] = sync[a]
                                /\ runtime'[Slot(a)] = runtime[Slot(a)],
           PassInv(n)',
           \A a \in Assignments :
              NodeFor(a) = n /\ HasRow(a)' /\ ~Excused(a)' => Progress(a, n)'
    PROVE  IInv'
<1> USE DEF IInv
<1>1. RowsHaveUsers' /\ EmailsUnique' /\ ClientsKnowTheirUser'
  BY Zenon DEF RowsHaveUsers, EmailsUnique, ClientsKnowTheirUser, Exists
<1>2. ASSUME NEW m \in Nodes PROVE PassInv(m)'
  <2>1. CASE m # n
    <3>1. \A a \in Assignments : NodeFor(a) = m /\ TombstoneStays(a) => TombstoneStays(a)'
      BY Zenon, <2>1 DEF TombstoneStays
    <3>2. QED
      BY Zenon, <2>1, <3>1, PassFrame
  <2>2. QED
    BY Zenon, <2>1
<1>3. ASSUME NEW a \in Assignments, HasRow(a)', ~Excused(a)'
      PROVE  Progress(a, NodeFor(a))'
  <2>1. CASE NodeFor(a) # n
    <3>1. NodeFor(a) \in Nodes \ {n}
      BY Zenon, <2>1, AssignmentFacts
    <3>2. HasRow(a) /\ ~Excused(a)
      BY Zenon, <1>3, <3>1 DEF Excused, Owed
    <3>3. QED
      BY Zenon, <2>1, <3>1, <3>2, ProgressFrame
  <2>2. QED
    BY Zenon, <1>3, <2>1
<1>4. QED
  BY Zenon, <1>1, <1>2, <1>3
-----------------------------------------------------------------------------
(*****************************************************************************)
(* Every step of a request preserves IInv.                                   *)
(*****************************************************************************)

\* Create: the new rows are owed a trigger, and the email was free.
LEMMA CreateInv ==
    ASSUME IInv, NEW c \in Clients, NEW u \in Users,
           NEW S \in SUBSET Inbounds, Create(c, u, S)
    PROVE  IInv'
<1> USE DEF IInv
<1>0. /\ client' = [client EXCEPT ![c] = Req("notify", u, {}, {}, "none")]
      /\ client[c].pc = "idle"
      /\ UNCHANGED <<runtime, trigger, pc, todo, cur, untold>>
  BY Zenon DEF Create, Accept, Notify, GoTo, actorVars
<1>1. TypeOK'
  BY <1>0, ConstantsAssumption DEF TypeOK, Create, Accept, Req, ClientState, SyncStatus
<1>2. RowsHaveUsers'
  BY Zenon, AssignmentFacts DEF RowsHaveUsers, HasRow, Exists, Create, TypeOK
<1>3. EmailsUnique'
  BY Zenon DEF EmailsUnique, Exists, Create, TypeOK
<1>4. ClientsKnowTheirUser'
  BY Zenon, <1>0 DEF ClientsKnowTheirUser, TypeOK, Req
<1>5. \A n \in Nodes : PassInv(n)'
  <2>1. \A a \in Assignments : TombstoneStays(a) => TombstoneStays(a)'
    BY Zenon, AssignmentFacts DEF TombstoneStays, Create, RowsHaveUsers, HasRow, Exists, TypeOK
  <2>2. QED
    BY Zenon, <1>0, <2>1, PassFrame
<1>6. ASSUME NEW a \in Assignments, HasRow(a)', ~Excused(a)'
      PROVE  Progress(a, NodeFor(a))'
  <2>1. a[1] # u
    BY Zenon, <1>0, <1>6 DEF Excused, Owed, TypeOK, Req
  <2>2. ~Excused(a)
    BY Zenon, <1>0, <1>6 DEF Excused, Owed, TypeOK, Req
  <2>3. sync'[a] = sync[a] /\ status'[a[1]] = status[a[1]]
    BY Zenon, <2>1, AssignmentFacts DEF Create, TypeOK
  <2>4. Progress(a, NodeFor(a))
    BY Zenon, <1>6, <2>2, <2>3 DEF HasRow
  <2>5. QED
    BY Zenon, <1>0, <2>3, <2>4, AssignmentFacts, ProgressFrame
<1>7. QED
  BY Zenon, <1>1, <1>2, <1>3, <1>4, <1>5, <1>6

\* A status change: every row of the user is owed a trigger.
LEMMA SetUserStatusInv ==
    ASSUME IInv, NEW c \in Clients, NEW u \in Users,
           NEW s \in {"active", "inactive"}, SetUserStatus(c, u, s)
    PROVE  IInv'
<1> USE DEF IInv
<1>0. /\ client' = [client EXCEPT ![c] = Req("notify", u, {}, {}, "none")]
      /\ client[c].pc = "idle"
      /\ UNCHANGED <<sync, runtime, trigger, pc, todo, cur, untold>>
      /\ status' = [status EXCEPT ![u] = s]
      /\ Exists(u)
  BY Zenon DEF SetUserStatus, Accept, Notify, GoTo, actorVars
<1>1. TypeOK'
  BY <1>0, ConstantsAssumption DEF TypeOK, SetUserStatus, Accept, Req, ClientState
<1>2. RowsHaveUsers' /\ EmailsUnique'
  BY Zenon, <1>0, AssignmentFacts DEF RowsHaveUsers, EmailsUnique, HasRow, Exists, TypeOK
<1>3. ClientsKnowTheirUser'
  BY Zenon, <1>0 DEF ClientsKnowTheirUser, TypeOK, Req
<1>4. \A n \in Nodes : PassInv(n)'
  <2>1. \A a \in Assignments : TombstoneStays(a) => TombstoneStays(a)'
    BY Zenon, <1>0, AssignmentFacts DEF TombstoneStays, Exists, TypeOK
  <2>2. QED
    BY Zenon, <1>0, <2>1, PassFrame
<1>5. ASSUME NEW a \in Assignments, HasRow(a)', ~Excused(a)'
      PROVE  Progress(a, NodeFor(a))'
  <2>1. a[1] # u /\ ~Excused(a)
    BY Zenon, <1>0, <1>5 DEF Excused, Owed, TypeOK, Req
  <2>2. status'[a[1]] = status[a[1]]
    BY Zenon, <1>0, <2>1, AssignmentFacts DEF TypeOK
  <2>3. Progress(a, NodeFor(a))
    BY Zenon, <1>0, <1>5, <2>1 DEF HasRow
  <2>4. QED
    BY Zenon, <1>0, <2>2, <2>3, AssignmentFacts, ProgressFrame
<1>6. QED
  BY Zenon, <1>1, <1>2, <1>3, <1>4, <1>5

\* Steps in which only a request moves, and owes no fewer triggers than
\* before: the reads of SetInbounds, Delete and RotateSubToken, the query of
\* ReconcileForUser and the end of the sends.
LEMMA RequestReadsInv ==
    ASSUME IInv, NEW c \in Clients, NEW u \in Users,
           NEW S \in SUBSET Inbounds,
           \/ SetInbounds(c, u, S)
           \/ Delete(c, u)
           \/ RotateSubToken(c, u)
           \/ ReconcileForUser(c)
           \/ AllSent(c)
    PROVE  IInv'
<1> USE DEF IInv
<1>0. /\ UNCHANGED <<status, sync, want, runtime, trigger, pc, todo, cur, untold>>
      /\ faults' \in 0..MaxFaults
      /\ ops' \in 0..MaxOps
  <2>1. UNCHANGED <<status, sync, want, runtime, trigger, pc, todo, cur>>
    BY Zenon DEF SetInbounds, Delete, RotateSubToken, ReconcileForUser, AllSent,
       dbVars, actorVars
  <2>2. faults \in 0..MaxFaults /\ ops \in 0..MaxOps /\ untold \union {} = untold
    BY Zenon DEF TypeOK
  <2>3. \/ UNCHANGED <<faults, untold>>
        \/ faults < MaxFaults /\ faults' = faults + 1 /\ untold' = untold \union {}
    BY Zenon DEF SetInbounds, Delete, RotateSubToken, ReconcileForUser, AllSent, Fault
  <2>4. ops' = ops \/ (ops < MaxOps /\ ops' = ops + 1)
    BY Zenon DEF SetInbounds, Delete, RotateSubToken, ReconcileForUser, AllSent, Accept
  <2>5. faults' \in 0..MaxFaults /\ ops' \in 0..MaxOps
    BY <2>2, <2>3, <2>4, ConstantsAssumption
  <2>6. QED
    BY Zenon, <2>1, <2>2, <2>3, <2>5
<1>1. PICK r \in ClientState :
        /\ client' = [client EXCEPT ![c] = r]
        /\ r.pc # "idle" => r.u \in Users
        /\ r.pc = "rotate" => r.keep \in {"active", "inactive"}
        /\ \A a \in Assignments :
              HasRow(a) /\ client[c].pc = "notify" /\ client[c].u = a[1] =>
                  r.pc = "trigger" /\ NodeFor(a) \in r.targets
        /\ client[c].pc = "trigger" => client[c].targets = {}
  <2>1. CASE SetInbounds(c, u, S)
    <3>1. /\ Req("set", u, S, AssignmentTargetsForUser(u), "none") \in ClientState
          /\ Req("set", u, S, {}, "none") \in ClientState
      BY Zenon, TargetsFacts DEF Req, ClientState
    <3>2. QED
      BY Zenon, <2>1, <3>1 DEF SetInbounds, Accept, GoTo, Req
  <2>2. CASE Delete(c, u)
    <3>1. Req("mark", u, {}, AssignmentTargetsForUser(u), "delete") \in ClientState
      BY Zenon, TargetsFacts DEF Req, ClientState
    <3>2. QED
      BY Zenon, <2>2, <3>1 DEF Delete, Accept, GoTo, Req
  <2>3. CASE RotateSubToken(c, u)
    <3>1. Req("rotate", u, {}, {}, status[u]) \in ClientState
      BY Zenon, <2>3 DEF RotateSubToken, Exists, Req, ClientState
    <3>2. QED
      BY Zenon, <2>3, <3>1 DEF RotateSubToken, Exists, Accept, GoTo, Req
  <2>4. CASE ReconcileForUser(c)
    <3> DEFINE v == client[c].u
    <3>1. v \in Users /\ client[c].pc = "notify"
      BY Zenon, <2>4 DEF ReconcileForUser, ClientsKnowTheirUser
    <3>2. Req("trigger", v, {}, AssignmentTargetsForUser(v), "none") \in ClientState
      BY Zenon, <3>1, TargetsFacts DEF Req, ClientState
    <3>3. QED
      BY Zenon, <2>4, <3>1, <3>2, TargetsFacts DEF ReconcileForUser, GoTo, Req
  <2>5. CASE AllSent(c)
    <3>1. client[c].u \in Users /\ client[c].pc = "trigger" /\ client[c].targets = {}
      BY Zenon, <2>5 DEF AllSent, ClientsKnowTheirUser
    <3>2. /\ Req("delete", client[c].u, {}, {}, "delete") \in ClientState
          /\ Idle \in ClientState
      BY Zenon, <3>1 DEF Idle, Req, ClientState
    <3>3. QED
      BY Zenon, <2>5, <3>1, <3>2 DEF AllSent, GoTo, Idle, Req
  <2>6. QED
    BY Zenon, <2>1, <2>2, <2>3, <2>4, <2>5
<1>2. TypeOK'
  BY Zenon, <1>0, <1>1 DEF TypeOK
<1>3. RowsHaveUsers' /\ EmailsUnique'
  BY Zenon, <1>0 DEF RowsHaveUsers, EmailsUnique, HasRow, Exists
<1>4. ClientsKnowTheirUser'
  BY Zenon, <1>1 DEF ClientsKnowTheirUser, TypeOK
<1>5. \A n \in Nodes : PassInv(n)'
  BY Zenon, <1>0, PassFrame DEF TombstoneStays
<1>6. ASSUME NEW a \in Assignments, HasRow(a)', ~Excused(a)'
      PROVE  Progress(a, NodeFor(a))'
  <2>1. HasRow(a)
    BY Zenon, <1>0, <1>6 DEF HasRow
  <2>2. ~Excused(a)
    BY Zenon, <1>0, <1>1, <1>6, <2>1 DEF Excused, Owed, TypeOK
  <2>3. QED
    BY Zenon, <1>0, <2>1, <2>2, AssignmentFacts, ProgressFrame
<1>7. QED
  BY Zenon, <1>2, <1>3, <1>4, <1>5, <1>6

\* The transaction of SetInbounds: the nodes of inserted rows are owed a
\* trigger, the nodes of tombstones too or they are untold.
LEMMA SetAssignmentsForUserTxInv ==
    ASSUME IInv, NEW c \in Clients, SetAssignmentsForUserTx(c)
    PROVE  IInv'
<1> USE DEF IInv
<1> DEFINE u == client[c].u
           S == client[c].inbounds
           T == client[c].targets \union {NodeOf[i] : i \in S}
<1>0. /\ UNCHANGED <<status, runtime, trigger, pc, todo, cur, ops, faults>>
      /\ client[c].pc = "set"
      /\ u \in Users /\ S \subseteq Inbounds /\ T \subseteq Nodes
  BY ConstantsAssumption
     DEF SetAssignmentsForUserTx, actorVars, ClientsKnowTheirUser, TypeOK, ClientState
<1>a. CASE ~(Exists(u) \/ S = {})
  <2>1. client' = [client EXCEPT ![c] = Idle] /\ UNCHANGED <<sync, want, untold>>
    BY Zenon, <1>a DEF SetAssignmentsForUserTx, GoTo
  <2>2. TypeOK' /\ ClientsKnowTheirUser'
    BY Zenon, <1>0, <2>1 DEF TypeOK, ClientsKnowTheirUser, Idle, Req, ClientState
  <2>3. RowsHaveUsers' /\ EmailsUnique'
    BY Zenon, <1>0, <2>1 DEF RowsHaveUsers, EmailsUnique, HasRow, Exists
  <2>4. \A n \in Nodes : PassInv(n)'
    BY Zenon, <1>0, <2>1, PassFrame DEF TombstoneStays
  <2>5. ASSUME NEW a \in Assignments, HasRow(a)', ~Excused(a)'
        PROVE  Progress(a, NodeFor(a))'
    <3>1. HasRow(a) /\ ~Excused(a)
      BY Zenon, <1>0, <2>1, <2>5 DEF Excused, Owed, HasRow, TypeOK, Idle, Req
    <3>2. QED
      BY Zenon, <1>0, <2>1, <3>1, AssignmentFacts, ProgressFrame
  <2>6. QED
    BY Zenon, <2>2, <2>3, <2>4, <2>5
<1>b. CASE Exists(u) \/ S = {}
  <2>1. /\ client' = [client EXCEPT ![c] = Req("trigger", u, {}, T, "none")]
        /\ sync' = Replaced(u, S)
        /\ want' = [want EXCEPT ![u] = S]
        /\ untold' = untold \union (Tombstoned \ T)
    BY Zenon, <1>b DEF SetAssignmentsForUserTx, GoTo
  <2>2. TypeOK'
    <3>1. sync' \in [Assignments -> SyncStatus \union {"none"}]
      BY Zenon, <2>1 DEF TypeOK, Replaced, SyncStatus
    <3>2. Tombstoned \subseteq Nodes
      BY Zenon, AssignmentFacts DEF Tombstoned
    <3>3. Req("trigger", u, {}, T, "none") \in ClientState
      BY Zenon, <1>0 DEF Req, ClientState
    <3>4. QED
      BY Zenon, <1>0, <2>1, <3>1, <3>2, <3>3 DEF TypeOK
  <2>3. ClientsKnowTheirUser'
    BY SMTT(30), <1>0, <2>1 DEF ClientsKnowTheirUser, TypeOK, Req
  <2>4. RowsHaveUsers' /\ EmailsUnique'
    BY SMTT(30), <1>0, <1>b, <2>1 DEF RowsHaveUsers, EmailsUnique, HasRow, Exists, Replaced
  <2>5. \A a \in Assignments : TombstoneStays(a) => TombstoneStays(a)'
    BY Zenon, <1>0, <1>b, <2>1, AssignmentFacts
       DEF TombstoneStays, Exists, HasRow, Replaced, RowsHaveUsers
  <2>6. \A n \in Nodes : PassInv(n)'
    BY Zenon, <1>0, <2>1, <2>5, PassFrame
  <2>7. ASSUME NEW a \in Assignments, HasRow(a)', ~Excused(a)'
        PROVE  Progress(a, NodeFor(a))'
    <3>1. NodeFor(a) \notin T
      BY Zenon, <2>1, <2>7 DEF Excused, Owed, TypeOK, Req
    <3>2. sync'[a] = sync[a]
      <4>1. a[2] \in S => NodeFor(a) \in T
        BY Zenon DEF NodeFor
      <4>2. sync[a] # "removing" /\ sync'[a] = "removing" => NodeFor(a) \in Tombstoned
        BY Zenon DEF Tombstoned
      <4>3. NodeFor(a) \notin Tombstoned
        BY Zenon, <2>1, <2>7, <3>1 DEF Excused
      <4>4. QED
        BY Zenon, <2>1, <3>1, <4>1, <4>2, <4>3 DEF Replaced, HasRow
    <3>3. HasRow(a) /\ ~Excused(a)
      BY Zenon, <1>0, <2>1, <2>7, <3>2 DEF Excused, Owed, HasRow, TypeOK, Req
    <3>4. QED
      BY Zenon, <1>0, <3>2, <3>3, AssignmentFacts, ProgressFrame
  <2>8. QED
    BY Zenon, <2>2, <2>3, <2>4, <2>6, <2>7
<1>1. QED
  BY Zenon, <1>a, <1>b

\* The tombstones of Delete: their nodes are owed a trigger or are untold.
LEMMA MarkAssignmentsRemovingForUserInv ==
    ASSUME IInv, NEW c \in Clients, MarkAssignmentsRemovingForUser(c)
    PROVE  IInv'
<1> USE DEF IInv
<1> DEFINE u == client[c].u
           T == client[c].targets
<1>0. /\ UNCHANGED <<status, want, runtime, trigger, pc, todo, cur, ops, faults>>
      /\ client[c].pc = "mark"
      /\ u \in Users /\ T \subseteq Nodes
      /\ client' = [client EXCEPT ![c] = Req("trigger", u, {}, T, "delete")]
      /\ sync' = [a \in Assignments |->
                     IF a[1] = u /\ HasRow(a) THEN "removing" ELSE sync[a]]
      /\ untold' = untold \union (Tombstoned \ T)
  BY Zenon DEF MarkAssignmentsRemovingForUser, GoTo, actorVars, ClientsKnowTheirUser, TypeOK,
         ClientState
<1>1. TypeOK'
  <2>1. sync' \in [Assignments -> SyncStatus \union {"none"}]
    BY Zenon, <1>0 DEF TypeOK, SyncStatus
  <2>2. Tombstoned \subseteq Nodes
    BY Zenon, AssignmentFacts DEF Tombstoned
  <2>3. Req("trigger", u, {}, T, "delete") \in ClientState
    BY Zenon, <1>0 DEF Req, ClientState
  <2>4. QED
    BY Zenon, <1>0, <2>1, <2>2, <2>3 DEF TypeOK
<1>2. ClientsKnowTheirUser'
  BY Zenon, <1>0 DEF ClientsKnowTheirUser, TypeOK, Req
<1>3. RowsHaveUsers' /\ EmailsUnique'
  BY Zenon, <1>0 DEF RowsHaveUsers, EmailsUnique, HasRow, Exists
<1>4. \A a \in Assignments : TombstoneStays(a) => TombstoneStays(a)'
  BY Zenon, <1>0 DEF TombstoneStays, HasRow
<1>5. \A n \in Nodes : PassInv(n)'
  BY Zenon, <1>0, <1>4, PassFrame
<1>6. ASSUME NEW a \in Assignments, HasRow(a)', ~Excused(a)'
      PROVE  Progress(a, NodeFor(a))'
  <2>1. NodeFor(a) \notin T
    BY Zenon, <1>0, <1>6 DEF Excused, Owed, TypeOK, Req
  <2>2. sync[a] # "removing" /\ sync'[a] = "removing" => NodeFor(a) \in Tombstoned
    BY Zenon DEF Tombstoned
  <2>3. NodeFor(a) \notin Tombstoned
    BY Zenon, <1>0, <1>6, <2>1 DEF Excused
  <2>4. sync'[a] = sync[a]
    BY Zenon, <1>0, <2>2, <2>3
  <2>5. HasRow(a) /\ ~Excused(a)
    BY Zenon, <1>0, <1>6, <2>4 DEF Excused, Owed, HasRow, TypeOK, Req
  <2>6. QED
    BY Zenon, <1>0, <2>4, <2>5, AssignmentFacts, ProgressFrame
<1>7. QED
  BY Zenon, <1>1, <1>2, <1>3, <1>5, <1>6

\* The user's rows go with the user.
LEMMA DeleteUserInv ==
    ASSUME IInv, NEW c \in Clients, DeleteUser(c)
    PROVE  IInv'
<1> USE DEF IInv
<1> DEFINE u == client[c].u
<1>0. /\ UNCHANGED <<runtime, trigger, pc, todo, cur, ops, faults, want, untold>>
      /\ client[c].pc = "delete" /\ u \in Users
      /\ client' = [client EXCEPT ![c] = Idle]
      /\ status' = [status EXCEPT ![u] = "deleted"]
      /\ sync' = [a \in Assignments |-> IF a[1] = u THEN "none" ELSE sync[a]]
  BY Zenon DEF DeleteUser, GoTo, actorVars, ClientsKnowTheirUser
<1>1. TypeOK' /\ ClientsKnowTheirUser'
  BY Zenon, <1>0 DEF TypeOK, ClientsKnowTheirUser, Idle, Req, ClientState
<1>2. RowsHaveUsers' /\ EmailsUnique'
  BY Zenon, <1>0, AssignmentFacts DEF RowsHaveUsers, EmailsUnique, HasRow, Exists, TypeOK
<1>3. \A a \in Assignments : TombstoneStays(a) => TombstoneStays(a)'
  BY Zenon, <1>0, AssignmentFacts DEF TombstoneStays, TypeOK
<1>4. \A n \in Nodes : PassInv(n)'
  BY Zenon, <1>0, <1>3, PassFrame
<1>5. ASSUME NEW a \in Assignments, HasRow(a)', ~Excused(a)'
      PROVE  Progress(a, NodeFor(a))'
  <2>1. a[1] # u
    BY Zenon, <1>0, <1>5 DEF HasRow
  <2>2. sync'[a] = sync[a] /\ status'[a[1]] = status[a[1]]
    BY Zenon, <1>0, <2>1, AssignmentFacts DEF TypeOK
  <2>3. HasRow(a) /\ ~Excused(a)
    BY Zenon, <1>0, <1>5, <2>2 DEF Excused, Owed, HasRow, TypeOK, Idle, Req
  <2>4. QED
    BY Zenon, <1>0, <2>2, <2>3, AssignmentFacts, ProgressFrame
<1>6. QED
  BY Zenon, <1>1, <1>2, <1>4, <1>5

\* RotateSubToken writes an old status back: the user's nodes are untold if
\* it differs.
LEMMA UpdateUserInv ==
    ASSUME IInv, NEW c \in Clients, UpdateUser(c)
    PROVE  IInv'
<1> USE DEF IInv
<1> DEFINE u == client[c].u
           k == client[c].keep
<1>0. /\ UNCHANGED <<sync, runtime, trigger, pc, todo, cur, ops, faults, want>>
      /\ client[c].pc = "rotate" /\ u \in Users /\ k \in {"active", "inactive"}
      /\ client' = [client EXCEPT ![c] = Idle]
      /\ untold \subseteq untold' /\ untold' \subseteq Nodes
      /\ status' \in {status, [status EXCEPT ![u] = k]}
      /\ status' # status => Exists(u)
      /\ status'[u] # status[u] => AssignmentTargetsForUser(u) \subseteq untold'
  BY Zenon, TargetsFacts DEF UpdateUser, GoTo, actorVars, ClientsKnowTheirUser, TypeOK
<1>1. TypeOK' /\ ClientsKnowTheirUser'
  BY <1>0 DEF TypeOK, ClientsKnowTheirUser, Idle, Req, ClientState
<1>2. RowsHaveUsers' /\ EmailsUnique'
  BY ZenonT(40), <1>0, AssignmentFacts DEF RowsHaveUsers, EmailsUnique, HasRow, Exists, TypeOK
<1>3. \A a \in Assignments : TombstoneStays(a) => TombstoneStays(a)'
  BY Zenon, <1>0, AssignmentFacts DEF TombstoneStays, Exists, TypeOK
<1>4. \A n \in Nodes : PassInv(n)'
  BY SMTT(30), <1>0, <1>3, PassFrame
<1>5. ASSUME NEW a \in Assignments, HasRow(a)', ~Excused(a)'
      PROVE  Progress(a, NodeFor(a))'
  <2>1. HasRow(a) /\ ~Excused(a)
    BY Zenon, <1>0, <1>5 DEF Excused, Owed, HasRow, TypeOK, Idle, Req
  <2>2. a[1] = u => NodeFor(a) \in AssignmentTargetsForUser(u)
    BY Zenon, <1>0, <2>1, TargetsFacts
  <2>3. status'[a[1]] = status[a[1]]
    BY Zenon, <1>0, <1>5, <2>2, AssignmentFacts DEF Excused, TypeOK
  <2>4. QED
    BY Zenon, <1>0, <2>1, <2>3, AssignmentFacts, ProgressFrame
<1>6. QED
  BY Zenon, <1>1, <1>2, <1>4, <1>5

\* A trigger that is no longer owed is in the channel.
LEMMA SendTriggerInv ==
    ASSUME IInv, NEW c \in Clients, NEW n \in Nodes, SendTrigger(c, n)
    PROVE  IInv'
<1> USE DEF IInv
<1> DEFINE r == Req("trigger", client[c].u, {}, client[c].targets \ {n}, client[c].keep)
<1>0. /\ UNCHANGED <<status, sync, want, runtime, pc, todo, cur, ops, faults, untold>>
      /\ client[c].pc = "trigger" /\ client[c].u \in Users
      /\ client' = [client EXCEPT ![c] = r]
      /\ trigger' = [trigger EXCEPT ![n] = TRUE]
  BY SMTT(30) DEF SendTrigger, triggerReconcile, GoTo, dbVars, actorVars, ClientsKnowTheirUser
<1>1. r \in ClientState
  BY Zenon, <1>0 DEF TypeOK, Req, ClientState
<1>2. TypeOK'
  BY Zenon, <1>0, <1>1 DEF TypeOK
<1>3. ClientsKnowTheirUser'
  BY Zenon, <1>0 DEF ClientsKnowTheirUser, TypeOK, Req
<1>4. RowsHaveUsers' /\ EmailsUnique'
  BY Zenon, <1>0 DEF RowsHaveUsers, EmailsUnique, HasRow, Exists
<1>5. \A m \in Nodes : PassInv(m)'
  BY SMTT(30), <1>0, PassFrame DEF TombstoneStays
<1>6. ASSUME NEW a \in Assignments, HasRow(a)', ~Excused(a)'
      PROVE  Progress(a, NodeFor(a))'
  <2>1. NodeFor(a) # n
    BY Zenon, <1>0, <1>6 DEF Excused, TypeOK
  <2>2. HasRow(a) /\ ~Excused(a)
    BY Zenon, <1>0, <1>6, <2>1, AssignmentFacts DEF Excused, Owed, HasRow, TypeOK, Req
  <2>3. QED
    BY Zenon, <1>0, <2>2, AssignmentFacts, ProgressFrame
<1>7. QED
  BY SMTT(30), <1>2, <1>3, <1>4, <1>5, <1>6
-----------------------------------------------------------------------------
(*****************************************************************************)
(* Every step of the actor of a node preserves IInv.                         *)
(*****************************************************************************)

\* StartPass: the query finds every tombstone and every unwanted row.
LEMMA StartPassInv ==
    ASSUME IInv, NEW n \in Nodes, StartPass(n)
    PROVE  IInv'
<1> USE DEF IInv
<1>0. /\ UNCHANGED <<status, sync, want, runtime, client, ops, faults>>
      /\ pc' = [pc EXCEPT ![n] = "remove"]
      /\ todo' = [todo EXCEPT ![n] = RemovalsForNode(n)]
      /\ cur' = [cur EXCEPT ![n] = None]
      /\ trigger' \in {trigger, [trigger EXCEPT ![n] = FALSE]}
      /\ untold' = untold \ {n}
  BY Zenon DEF StartPass, Pass, dbVars
<1>1. /\ RemovalsForNode(n) \subseteq Row
      /\ \A d \in RemovalsForNode(n) : NodeFor(d.a) = n /\ d.s = sync[d.a]
      /\ \A d, e \in RemovalsForNode(n) : d.a = e.a => d = e
  BY Zenon, RowsOnFacts DEF RemovalsForNode
<1>2. TypeOK'
  BY Zenon, <1>0, <1>1 DEF TypeOK
<1>3. PassInv(n)'
  <2>1. pc'[n] = "remove" /\ todo'[n] = RemovalsForNode(n)
    BY Zenon, <1>0 DEF TypeOK
  <2>2. \A d \in RemovalsForNode(n) : d.s = "removing" => TombstoneStays(d.a)'
    BY Zenon, <1>0, <1>1 DEF TombstoneStays
  <2>3. QED
    BY <1>1, <2>1, <2>2 DEF PassInv, Purging
<1>4. ASSUME NEW a \in Assignments, NodeFor(a) = n, HasRow(a)'
      PROVE  Progress(a, n)'
  <2>1. pc'[n] = "remove" /\ todo'[n] = RemovalsForNode(n)
    BY Zenon, <1>0 DEF TypeOK
  <2>2. [a |-> a, s |-> sync[a]] \in RowsOn(n)
    BY Zenon, <1>0, <1>4, RowsOnFacts DEF HasRow
  <2>3. ~Wanted(a) => [a |-> a, s |-> sync[a]] \in RemovalsForNode(n)
    BY Zenon, <2>2 DEF RemovalsForNode, Wanted
  <2>4. QED
    BY <1>0, <2>1, <2>3 DEF Progress, Purging, Wanted
<1>5. QED
  BY Zenon, <1>0, <1>2, <1>3, <1>4, NodeStep DEF TypeOK, HasRow

\* RemoveUser empties the slot of a loaded row; a tombstone goes on to the purge.
LEMMA RemoveUserInv ==
    ASSUME IInv, NEW n \in Nodes, RemoveUser(n)
    PROVE  IInv'
<1> USE DEF IInv
<1>0. /\ UNCHANGED <<status, sync, want, trigger, client, ops, faults, untold>>
      /\ pc[n] = "remove"
  BY Zenon DEF RemoveUser, dbVars
<1>1. PICK d \in todo[n] :
        /\ runtime' = [runtime EXCEPT ![Slot(d.a)] = None]
        /\ IF d.s = "removing"
             THEN Pass(n, "purge", todo[n] \ {d}, d)
             ELSE Pass(n, "remove", todo[n] \ {d}, None)
  BY Zenon DEF RemoveUser
<1>2. /\ d \in Row /\ d.a \in Assignments /\ NodeFor(d.a) = n /\ Slot(d.a) \in Slots
      /\ todo[n] \subseteq Row
  BY AssignmentFacts DEF TypeOK, PassInv, Row
<1>3. /\ pc' = [pc EXCEPT ![n] = IF d.s = "removing" THEN "purge" ELSE "remove"]
      /\ todo' = [todo EXCEPT ![n] = todo[n] \ {d}]
      /\ cur' = [cur EXCEPT ![n] = IF d.s = "removing" THEN d ELSE None]
  BY Zenon, <1>1 DEF Pass
<1>4. TypeOK'
  BY Zenon, <1>0, <1>1, <1>2, <1>3 DEF TypeOK
<1>5. PassInv(n)'
  <2>1. /\ pc'[n] = IF d.s = "removing" THEN "purge" ELSE "remove"
        /\ todo'[n] = todo[n] \ {d}
        /\ cur'[n] = IF d.s = "removing" THEN d ELSE None
    BY Zenon, <1>3 DEF TypeOK
  <2>2. \A e \in todo[n] : e.s = "removing" => TombstoneStays(e.a)'
    BY Zenon, <1>0 DEF PassInv, Purging, TombstoneStays
  <2>3. QED
    BY <1>2, <2>1, <2>2 DEF PassInv, Purging
<1>6. ASSUME NEW a \in Assignments, NodeFor(a) = n, HasRow(a)', ~Excused(a)'
      PROVE  Progress(a, n)'
  <2>1. Progress(a, n)
    BY Zenon, <1>0, <1>6 DEF HasRow, Excused, Owed
  <2>2. /\ pc'[n] = IF d.s = "removing" THEN "purge" ELSE "remove"
        /\ todo'[n] = todo[n] \ {d}
        /\ cur'[n] = IF d.s = "removing" THEN d ELSE None
    BY Zenon, <1>3 DEF TypeOK
  <2>3. sync[a] = "removing" => [a |-> a, s |-> "removing"] \in Purging(n)'
    BY <1>0, <2>1, <2>2 DEF Progress, Purging
  <2>4. ~Wanted(a) => runtime'[Slot(a)] = None \/ \E e \in todo'[n] : e.a = a
    BY Zenon, <1>0, <1>1, <1>2, <2>1, <2>2, AssignmentFacts DEF Progress, TypeOK
  <2>5. QED
    BY Zenon, <1>0, <2>2, <2>3, <2>4 DEF Progress, Wanted
<1>7. \A a \in Assignments : NodeFor(a) # n => runtime'[Slot(a)] = runtime[Slot(a)]
  BY Zenon, <1>1, <1>2, OtherSlots, AssignmentFacts DEF TypeOK
<1>8. QED
  BY Zenon, <1>0, <1>3, <1>4, <1>5, <1>6, <1>7, NodeStep DEF TypeOK, HasRow

\* DeleteAssignment takes away a tombstone the pass no longer holds.
LEMMA DeleteAssignmentInv ==
    ASSUME IInv, NEW n \in Nodes, DeleteAssignment(n)
    PROVE  IInv'
<1> USE DEF IInv
<1>0. /\ UNCHANGED <<status, want, runtime, trigger, client, ops, faults, untold>>
      /\ pc[n] = "purge"
      /\ sync' = [sync EXCEPT ![cur[n].a] = "none"]
      /\ pc' = [pc EXCEPT ![n] = "remove"]
      /\ todo' = [todo EXCEPT ![n] = todo[n]]
      /\ cur' = [cur EXCEPT ![n] = None]
  BY Zenon DEF DeleteAssignment, Pass
<1>1. cur[n] \in Row /\ cur[n].a \in Assignments /\ NodeFor(cur[n].a) = n
  BY Zenon, <1>0 DEF PassInv, Row
<1>2. TypeOK'
  BY Zenon, <1>0, <1>1 DEF TypeOK
<1>3. pc'[n] = "remove" /\ todo'[n] = todo[n] /\ cur'[n] = None
  BY Zenon, <1>0 DEF TypeOK
<1>4. PassInv(n)'
  <2>1. \A d \in todo[n] : d.s = "removing" => TombstoneStays(d.a)'
    <3>1. \A d \in todo[n] : d \in Row /\ d.a \in Assignments /\ d.a # cur[n].a
      BY <1>0 DEF PassInv, TypeOK, Row
    <3>2. QED
      BY Zenon, <1>0, <1>1, <3>1 DEF PassInv, Purging, TombstoneStays, TypeOK
  <2>2. QED
    BY Zenon, <1>0, <1>3, <2>1 DEF PassInv, Purging
<1>5. ASSUME NEW a \in Assignments, NodeFor(a) = n, HasRow(a)', ~Excused(a)'
      PROVE  Progress(a, n)'
  <2>1. a # cur[n].a /\ sync'[a] = sync[a]
    BY Zenon, <1>0, <1>1, <1>5 DEF HasRow, TypeOK
  <2>2. Progress(a, n)
    BY Zenon, <1>0, <1>5, <2>1 DEF HasRow, Excused, Owed
  <2>3. QED
    BY <1>0, <1>3, <2>1, <2>2 DEF Progress, Purging, Wanted
<1>6. \A a \in Assignments : HasRow(a)' => HasRow(a)
  BY Zenon, <1>0, <1>1 DEF HasRow, TypeOK
<1>7. \A a \in Assignments : NodeFor(a) # n => sync'[a] = sync[a]
  BY Zenon, <1>0, <1>1 DEF TypeOK
<1>8. QED
  BY Zenon, <1>0, <1>2, <1>4, <1>5, <1>6, <1>7, NodeStep DEF TypeOK

\* LoadDesired: nothing is left to remove, every wanted row is loaded, and no
\* loaded row has the slot of an unwanted one, because emails are unique.
LEMMA LoadDesiredInv ==
    ASSUME IInv, NEW n \in Nodes, LoadDesired(n)
    PROVE  IInv'
<1> USE DEF IInv
<1>0. /\ UNCHANGED <<status, sync, want, runtime, trigger, client, ops, faults, untold>>
      /\ pc[n] = "remove" /\ todo[n] = {}
      /\ pc' = [pc EXCEPT ![n] = "add"]
      /\ todo' = [todo EXCEPT ![n] = DesiredForNode(n)]
      /\ cur' = [cur EXCEPT ![n] = None]
  BY Zenon DEF LoadDesired, Pass, dbVars
<1>1. /\ DesiredForNode(n) \subseteq Row
      /\ \A d \in DesiredForNode(n) :
            NodeFor(d.a) = n /\ HasRow(d.a) /\ d.s = sync[d.a] /\ Wanted(d.a)
      /\ \A d, e \in DesiredForNode(n) : d.a = e.a => d = e
  BY Zenon, RowsOnFacts DEF DesiredForNode, Wanted
<1>2. TypeOK'
  BY Zenon, <1>0, <1>1 DEF TypeOK
<1>3. pc'[n] = "add" /\ todo'[n] = DesiredForNode(n) /\ cur'[n] = None
  BY Zenon, <1>0 DEF TypeOK
<1>4. PassInv(n)'
  BY <1>1, <1>3 DEF PassInv
<1>5. ASSUME NEW a \in Assignments, NodeFor(a) = n, HasRow(a)', ~Excused(a)'
      PROVE  Progress(a, n)'
  <2>1. HasRow(a) /\ Progress(a, n)
    BY Zenon, <1>0, <1>5 DEF HasRow, Excused, Owed
  <2>2. sync[a] # "removing" /\ (~Wanted(a) => runtime[Slot(a)] = None)
    BY Zenon, <1>0, <2>1 DEF Progress, Purging
  <2>3. Wanted(a) => [a |-> a, s |-> sync[a]] \in DesiredForNode(n)
    BY Zenon, <1>5, <2>1, RowsOnFacts DEF DesiredForNode, Wanted
  <2>4. ASSUME ~Wanted(a), NEW d \in DesiredForNode(n), Slot(d.a) = Slot(a)
        PROVE  FALSE
    <3>1. d.a \in Assignments /\ HasRow(d.a) /\ Wanted(d.a)
      BY Zenon, <1>1 DEF Row
    <3>2. Exists(a[1]) /\ Exists(d.a[1]) /\ a[1] \in Users /\ d.a[1] \in Users
      BY Zenon, <2>1, <3>1, AssignmentFacts DEF RowsHaveUsers
    <3>3. d.a = a
      BY Zenon, <2>4, <3>1, <3>2, SlotFacts DEF EmailsUnique
    <3>4. QED
      BY Zenon, <2>4, <3>1, <3>3
  <2>5. QED
    BY <1>0, <1>3, <2>2, <2>3, <2>4 DEF Progress, Wanted
<1>6. QED
  BY Zenon, <1>0, <1>2, <1>4, <1>5, NodeStep DEF TypeOK, HasRow

\* AddUser fills the slot of a wanted row, which is no unwanted row's slot.
LEMMA AddUserInv ==
    ASSUME IInv, NEW n \in Nodes, AddUser(n)
    PROVE  IInv'
<1> USE DEF IInv
<1>0. /\ UNCHANGED <<status, sync, want, trigger, client, ops, faults, untold>>
      /\ pc[n] = "add"
  BY Zenon DEF AddUser, dbVars
<1>1. PICK d \in todo[n] :
        /\ runtime' = Pushed(d.a)
        /\ IF d.s = "applied"
             THEN Pass(n, "add", todo[n] \ {d}, None)
             ELSE Pass(n, "mark", todo[n] \ {d}, [a |-> d.a, s |-> "applied"])
  BY Zenon DEF AddUser
<1>2. /\ d \in Row /\ d.a \in Assignments /\ NodeFor(d.a) = n
      /\ [a |-> d.a, s |-> "applied"] \in Row
  BY DEF TypeOK, PassInv, Row, SyncStatus
<1> DEFINE p == IF d.s = "applied" THEN "add" ELSE "mark"
           e == IF d.s = "applied" THEN None ELSE [a |-> d.a, s |-> "applied"]
<1>3. /\ pc' = [pc EXCEPT ![n] = p]
      /\ todo' = [todo EXCEPT ![n] = todo[n] \ {d}]
      /\ cur' = [cur EXCEPT ![n] = e]
  BY Zenon, <1>1 DEF Pass
<1>4. pc'[n] = p /\ todo'[n] = todo[n] \ {d} /\ cur'[n] = e
  BY Zenon, <1>3 DEF TypeOK
<1>5. TypeOK'
  BY Zenon, <1>0, <1>1, <1>2, <1>3, PushedFacts DEF TypeOK
<1>6. PassInv(n)'
  BY <1>2, <1>4 DEF PassInv
<1>7. ASSUME NEW a \in Assignments, NodeFor(a) = n, HasRow(a)', ~Excused(a)'
      PROVE  Progress(a, n)'
  <2>1. Progress(a, n)
    BY Zenon, <1>0, <1>7 DEF HasRow, Excused, Owed
  <2>2. Wanted(a) => runtime'[Slot(a)] # None \/ \E x \in todo'[n] : x.a = a
    <3>1. Wanted(a) => runtime[Slot(a)] # None \/ \E x \in todo[n] : x.a = a
      BY Zenon, <1>0, <2>1 DEF Progress
    <3>2. QED
      BY Zenon, <1>1, <1>2, <1>4, <3>1, PushedFacts, AssignmentFacts
  <2>3. ~Wanted(a) => /\ runtime'[Slot(a)] = None
                      /\ \A x \in todo'[n] : Slot(x.a) # Slot(a)
    <3>1. ~Wanted(a) => /\ runtime[Slot(a)] = None
                        /\ \A x \in todo[n] : Slot(x.a) # Slot(a)
      BY Zenon, <1>0, <2>1 DEF Progress
    <3>2. QED
      BY Zenon, <1>1, <1>2, <1>4, <3>1, PushedFacts, AssignmentFacts
  <2>4. QED
    BY Zenon, <1>0, <1>4, <2>1, <2>2, <2>3 DEF Progress, Wanted
<1>8. \A a \in Assignments : NodeFor(a) # n => runtime'[Slot(a)] = runtime[Slot(a)]
  BY Zenon, <1>1, <1>2, PushedFacts, OtherSlots, AssignmentFacts
<1>9. QED
  BY SMTT(60), <1>0, <1>3, <1>5, <1>6, <1>7, <1>8, NodeStep DEF TypeOK, HasRow

\* MarkAssignmentSynced may overwrite a tombstone, on a node that is excused.
LEMMA MarkAssignmentSyncedInv ==
    ASSUME IInv, NEW n \in Nodes, MarkAssignmentSynced(n)
    PROVE  IInv'
<1> USE DEF IInv
<1> DEFINE d == cur[n]
           p == IF d.s = "failed" THEN "idle" ELSE "add"
           T == IF d.s = "failed" THEN {} ELSE todo[n]
<1>0. /\ UNCHANGED <<status, want, runtime, trigger, client, ops, faults, untold>>
      /\ pc[n] = "mark"
      /\ sync' = IF HasRow(d.a) THEN [sync EXCEPT ![d.a] = d.s] ELSE sync
      /\ pc' = [pc EXCEPT ![n] = p]
      /\ todo' = [todo EXCEPT ![n] = T]
      /\ cur' = [cur EXCEPT ![n] = None]
  BY SMTT(30) DEF MarkAssignmentSynced, Pass
<1>1. /\ d \in Row /\ d.a \in Assignments /\ NodeFor(d.a) = n
      /\ d.s \in {"applied", "failed"} /\ (d.s = "failed" => n \in untold)
  BY Zenon, <1>0 DEF PassInv, Row
<1>2. TypeOK'
  BY Zenon, <1>0, <1>1 DEF TypeOK, Row, SyncStatus
<1>3. pc'[n] = p /\ todo'[n] = T /\ cur'[n] = None
  BY Zenon, <1>0 DEF TypeOK
<1>4. PassInv(n)'
  BY Zenon, <1>3 DEF PassInv
<1>5. ASSUME NEW a \in Assignments, NodeFor(a) = n, HasRow(a)', ~Excused(a)'
      PROVE  Progress(a, n)'
  <2>1. d.s = "applied"
    BY Zenon, <1>0, <1>1, <1>5 DEF Excused
  <2>2. HasRow(a) /\ Progress(a, n)
    BY Zenon, <1>0, <1>1, <1>5 DEF HasRow, Excused, Owed, TypeOK
  <2>3. sync'[a] # "removing" /\ sync[a] # "removing"
    BY Zenon, <1>0, <1>1, <2>1, <2>2 DEF Progress, TypeOK
  <2>4. QED
    BY SMTT(30), <1>0, <1>3, <2>1, <2>2, <2>3 DEF Progress, Wanted
<1>6. \A a \in Assignments : HasRow(a)' => HasRow(a)
  BY Zenon, <1>0, <1>1 DEF HasRow, TypeOK
<1>7. \A a \in Assignments : NodeFor(a) # n => sync'[a] = sync[a]
  BY Zenon, <1>0, <1>1 DEF TypeOK
<1>8. QED
  BY Zenon, <1>0, <1>2, <1>4, <1>5, <1>6, <1>7, NodeStep DEF TypeOK

\* FinishPass: everything is in force.
LEMMA FinishPassInv ==
    ASSUME IInv, NEW n \in Nodes, FinishPass(n)
    PROVE  IInv'
<1> USE DEF IInv
<1>0. /\ UNCHANGED <<status, sync, want, runtime, trigger, client, ops, faults, untold>>
      /\ pc[n] = "add" /\ todo[n] = {}
      /\ pc' = [pc EXCEPT ![n] = "idle"]
      /\ todo' = [todo EXCEPT ![n] = {}]
      /\ cur' = [cur EXCEPT ![n] = None]
  BY Zenon DEF FinishPass, Pass, dbVars
<1>1. TypeOK'
  BY Zenon, <1>0 DEF TypeOK
<1>2. pc'[n] = "idle" /\ todo'[n] = {}
  BY Zenon, <1>0 DEF TypeOK
<1>3. PassInv(n)'
  BY Zenon, <1>2 DEF PassInv
<1>4. ASSUME NEW a \in Assignments, NodeFor(a) = n, HasRow(a)', ~Excused(a)'
      PROVE  Progress(a, n)'
  <2>1. Progress(a, n)
    BY Zenon, <1>0, <1>4 DEF HasRow, Excused, Owed
  <2>2. QED
    BY SMTT(30), <1>0, <1>2, <2>1 DEF Progress, Synced, Wanted
<1>5. QED
  BY Zenon, <1>0, <1>1, <1>3, <1>4, NodeStep DEF TypeOK, HasRow
-----------------------------------------------------------------------------
(*****************************************************************************)
(* The initial states, the faults, and the theorems.                         *)
(*****************************************************************************)

\* The empty database and idle actors satisfy the invariant.
THEOREM InitInv == Init => IInv
<1> SUFFICES ASSUME Init PROVE IInv
  BY Zenon
<1>1. TypeOK
  BY ConstantsAssumption DEF Init, TypeOK, Idle, Req, ClientState
<1>2. RowsHaveUsers /\ EmailsUnique /\ ClientsKnowTheirUser
  BY Zenon DEF Init, RowsHaveUsers, HasRow, EmailsUnique, Exists, ClientsKnowTheirUser, Idle, Req
<1>3. \A n \in Nodes : PassInv(n)
  BY Zenon DEF Init, PassInv
<1>4. \A a \in Assignments : ~HasRow(a)
  BY Zenon DEF Init, HasRow
<1>5. QED
  BY Zenon, <1>1, <1>2, <1>3, <1>4 DEF IInv

-----------------------------------------------------------------------------
(***************************************************************************)
(* Faults.                                                                 *)
(***************************************************************************)

\* A fault at node n makes n untold, which excuses every row of n.
LEMMA NodeFaultInv ==
    ASSUME IInv, NEW n \in Nodes,
           \/ LoadRemovalsFails(n)
           \/ RemoveUserFails(n)
           \/ DeleteAssignmentFails(n)
           \/ LoadDesiredFails(n)
           \/ AddUserFails(n)
           \/ NodeRestart(n)
    PROVE  IInv'
<1> USE DEF IInv
<1>0. /\ UNCHANGED <<status, sync, want, client, ops>>
      /\ untold' = untold \union {n}
      /\ faults' \in 0..MaxFaults
  BY ConstantsAssumption
     DEF LoadRemovalsFails, RemoveUserFails, DeleteAssignmentFails, LoadDesiredFails,
         AddUserFails, NodeRestart, Fault, dbVars, TypeOK
<1>1. trigger' \in {trigger, [trigger EXCEPT ![n] = FALSE]}
  BY Zenon DEF LoadRemovalsFails, RemoveUserFails, DeleteAssignmentFails, LoadDesiredFails,
         AddUserFails, NodeRestart
<1>2. /\ runtime' \in [Slots -> Users \union {None}]
      /\ \A a \in Assignments : NodeFor(a) # n => runtime'[Slot(a)] = runtime[Slot(a)]
  <2>1. CASE RemoveUserFails(n)
    <3>1. PICK d \in todo[n] : runtime' \in {runtime, [runtime EXCEPT ![Slot(d.a)] = None]}
      BY Zenon, <2>1 DEF RemoveUserFails
    <3>2. d.a \in Assignments /\ NodeFor(d.a) = n
      BY DEF TypeOK, PassInv, Row
    <3>3. QED
      BY Zenon, <3>1, <3>2, OtherSlots, AssignmentFacts DEF TypeOK
  <2>2. CASE AddUserFails(n)
    <3>1. PICK d \in todo[n] : runtime' \in {runtime, Pushed(d.a)}
      BY Zenon, <2>2 DEF AddUserFails
    <3>2. d.a \in Assignments /\ NodeFor(d.a) = n
      BY DEF TypeOK, PassInv, Row
    <3>3. QED
      BY <3>1, <3>2, OtherSlots, PushedFacts, AssignmentFacts DEF TypeOK
  <2>3. CASE NodeRestart(n)
    BY Zenon, <2>3, AssignmentFacts DEF NodeRestart, TypeOK, Slot, NodeFor
  <2>4. CASE LoadRemovalsFails(n) \/ DeleteAssignmentFails(n) \/ LoadDesiredFails(n)
    BY Zenon, <2>4 DEF LoadRemovalsFails, DeleteAssignmentFails, LoadDesiredFails, TypeOK
  <2>5. QED
    BY Zenon, <2>1, <2>2, <2>3, <2>4
<1>3. PICK p \in {"idle", "remove", "purge", "add", "mark"}, T \in SUBSET todo[n],
           e \in Row \union {None} :
        /\ pc' = [pc EXCEPT ![n] = p]
        /\ todo' = [todo EXCEPT ![n] = T]
        /\ cur' = [cur EXCEPT ![n] = e]
        /\ \/ p = "idle"
           \/ p = "remove" /\ pc[n] = "purge"
           \/ p = pc[n] /\ e = cur[n]
           \/ p = "mark" /\ e \in Row /\ NodeFor(e.a) = n /\ e.s = "failed"
  <2>1. CASE LoadRemovalsFails(n) \/ NodeRestart(n)
    <3>1. pc' = pc /\ todo' = todo /\ cur' = cur
      BY Zenon, <2>1 DEF LoadRemovalsFails, NodeRestart, actorVars
    <3>2. pc[n] \in {"idle", "remove", "purge", "add", "mark"} /\ cur[n] \in Row \union {None}
      BY Zenon DEF TypeOK
    <3>3. /\ pc' = [pc EXCEPT ![n] = pc[n]]
          /\ todo' = [todo EXCEPT ![n] = todo[n]]
          /\ cur' = [cur EXCEPT ![n] = cur[n]]
      BY Zenon, <3>1 DEF TypeOK
    <3>4. QED
      BY Zenon, <3>2, <3>3
  <2>2. CASE RemoveUserFails(n) \/ LoadDesiredFails(n)
    BY Zenon, <2>2 DEF RemoveUserFails, LoadDesiredFails, Pass
  <2>3. CASE DeleteAssignmentFails(n)
    BY Zenon, <2>3 DEF DeleteAssignmentFails, Pass
  <2>4. CASE AddUserFails(n)
    <3>1. PICK d \in todo[n] : Pass(n, "mark", {}, [a |-> d.a, s |-> "failed"])
      BY Zenon, <2>4 DEF AddUserFails
    <3> DEFINE f == [a |-> d.a, s |-> "failed"]
    <3>2. f \in Row /\ NodeFor(f.a) = n /\ f.s = "failed"
      <4>1. d \in Row
        BY Zenon DEF TypeOK
      <4>2. d.a \in Assignments /\ f.a = d.a /\ f.s = "failed"
        BY Zenon, <4>1 DEF Row
      <4>3. NodeFor(d.a) = n
        BY Zenon DEF PassInv
      <4>4. QED
        BY Zenon, <4>2, <4>3 DEF Row, SyncStatus
    <3>3. /\ pc' = [pc EXCEPT ![n] = "mark"]
          /\ todo' = [todo EXCEPT ![n] = {}]
          /\ cur' = [cur EXCEPT ![n] = f]
      BY Zenon, <3>1 DEF Pass
    <3> HIDE DEF f
    <3>4. QED
      BY Zenon, <3>2, <3>3
  <2>5. QED
    BY Zenon, <2>1, <2>2, <2>3, <2>4
<1>4. TypeOK'
  BY Zenon, <1>0, <1>1, <1>2, <1>3 DEF TypeOK
<1>5. PassInv(n)'
  <2>1. pc'[n] = p /\ todo'[n] = T /\ cur'[n] = e /\ n \in untold'
    BY Zenon, <1>0, <1>3 DEF TypeOK
  <2>2. \A d \in Purging(n) : TombstoneStays(d.a) => TombstoneStays(d.a)'
    BY Zenon, <1>0 DEF TombstoneStays
  <2>3. PassInv(n)
    BY Zenon
  <2>4. QED
    BY Zenon, <1>3, <2>1, <2>2, <2>3 DEF PassInv, Purging
<1>6. \A a \in Assignments : NodeFor(a) = n => Excused(a)'
  BY Zenon, <1>0 DEF Excused
<1>7. QED
  BY Zenon, <1>0, <1>1, <1>2, <1>3, <1>4, <1>5, <1>6, NodeStep DEF TypeOK, HasRow

\* A mark that fails leaves the row with its old sync status, which no part
\* of the invariant but the tombstone depends on.
LEMMA MarkFailsInv ==
    ASSUME IInv, NEW n \in Nodes, MarkFails(n)
    PROVE  IInv'
<1> USE DEF IInv
<1> DEFINE p == IF cur[n].s = "failed" THEN "idle" ELSE "add"
           T == IF cur[n].s = "failed" THEN {} ELSE todo[n]
<1>0. /\ UNCHANGED <<status, sync, want, runtime, trigger, client, ops, untold>>
      /\ faults' \in 0..MaxFaults
      /\ pc[n] = "mark"
      /\ pc' = [pc EXCEPT ![n] = p]
      /\ todo' = [todo EXCEPT ![n] = T]
      /\ cur' = [cur EXCEPT ![n] = None]
  BY ConstantsAssumption DEF MarkFails, Fault, Pass, dbVars, TypeOK
<1>1. TypeOK'
  BY Zenon, <1>0 DEF TypeOK
<1>2. pc'[n] = p /\ todo'[n] = T
  BY Zenon, <1>0 DEF TypeOK
<1>3. PassInv(n)'
  BY Zenon, <1>2 DEF PassInv
<1>4. ASSUME NEW a \in Assignments, NodeFor(a) = n, HasRow(a)', ~Excused(a)'
      PROVE  Progress(a, n)'
  <2>1. Progress(a, n)
    BY Zenon, <1>0, <1>4 DEF HasRow, Excused, Owed
  <2>2. cur[n].s # "failed"
    BY Zenon, <1>0, <1>4 DEF PassInv, Excused
  <2>3. QED
    BY SMTT(30), <1>0, <1>2, <2>1, <2>2 DEF Progress, Wanted
<1>5. QED
  BY Zenon, <1>0, <1>1, <1>3, <1>4, NodeStep DEF TypeOK, HasRow

\* The triggers that ReconcileForUser does not send are recorded as untold.
LEMMA NotifyFailsInv ==
    ASSUME IInv, NEW c \in Clients, NotifyFails(c)
    PROVE  IInv'
<1> USE DEF IInv
<1> DEFINE u == client[c].u
<1>0. /\ UNCHANGED <<status, sync, want, runtime, trigger, pc, todo, cur, ops>>
      /\ faults' \in 0..MaxFaults
      /\ client[c].pc = "notify" /\ u \in Users
      /\ client' = [client EXCEPT ![c] = Idle]
      /\ untold' = untold \union AssignmentTargetsForUser(u)
  BY SMTT(30), ConstantsAssumption
     DEF NotifyFails, Fault, GoTo, dbVars, actorVars, ClientsKnowTheirUser, TypeOK
<1>1. TypeOK' /\ ClientsKnowTheirUser'
  BY Zenon, <1>0, TargetsFacts DEF TypeOK, ClientsKnowTheirUser, Idle, Req, ClientState
<1>2. RowsHaveUsers' /\ EmailsUnique'
  BY Zenon, <1>0 DEF RowsHaveUsers, EmailsUnique, HasRow, Exists
<1>3. \A n \in Nodes : PassInv(n)'
  BY Zenon, <1>0, PassFrame DEF TombstoneStays
<1>4. ASSUME NEW a \in Assignments, HasRow(a)', ~Excused(a)'
      PROVE  Progress(a, NodeFor(a))'
  <2>1. HasRow(a)
    BY Zenon, <1>0, <1>4 DEF HasRow
  <2>2. a[1] # u
    BY Zenon, <1>0, <1>4, <2>1, TargetsFacts DEF Excused
  <2>3. ~Excused(a)
    BY Zenon, <1>0, <1>4, <2>2 DEF Excused, Owed, TypeOK
  <2>4. QED
    BY Zenon, <1>0, <2>1, <2>3, AssignmentFacts, ProgressFrame
<1>5. QED
  BY Zenon, <1>1, <1>2, <1>3, <1>4

\* A crash forgets every pass, and makes every node untold.
LEMMA CrashInv ==
    ASSUME IInv, Crash
    PROVE  IInv'
<1> USE DEF IInv
<1>1. TypeOK' /\ ClientsKnowTheirUser'
  BY ConstantsAssumption
     DEF Crash, Fault, dbVars, TypeOK, ClientsKnowTheirUser, Idle, Req, ClientState
<1>2. RowsHaveUsers' /\ EmailsUnique'
  BY Zenon DEF Crash, dbVars, RowsHaveUsers, EmailsUnique, HasRow, Exists
<1>3. \A n \in Nodes : PassInv(n)'
  BY Zenon DEF Crash, PassInv
<1>4. \A a \in Assignments : Excused(a)'
  BY Zenon, AssignmentFacts DEF Crash, Fault, Excused
<1>5. QED
  BY Zenon, <1>1, <1>2, <1>3, <1>4

-----------------------------------------------------------------------------
(***************************************************************************)
(* The theorems.                                                           *)
(***************************************************************************)

\* Every step of the control plane and of the nodes preserves the invariant.
THEOREM NextInv == IInv /\ [Next]_vars => IInv'
<1> SUFFICES ASSUME IInv, [Next]_vars PROVE IInv'
  BY Zenon
<1>1. ASSUME NEW c \in Clients, Request(c) PROVE IInv'
  <2>1. PICK u \in Users :
          \/ Suspend(c, u)
          \/ Resume(c, u)
          \/ Sweep(c, u)
          \/ Delete(c, u)
          \/ RotateSubToken(c, u)
          \/ \E S \in SUBSET Inbounds : Create(c, u, S) \/ SetInbounds(c, u, S)
    BY Zenon, <1>1 DEF Request
  <2>2. CASE Suspend(c, u) \/ Resume(c, u) \/ Sweep(c, u)
    BY Zenon, <2>2, SetUserStatusInv DEF Suspend, Resume, Sweep
  <2>3. CASE Delete(c, u) \/ RotateSubToken(c, u)
    <3>1. {} \in SUBSET Inbounds
      BY Zenon
    <3>2. QED
      BY Zenon, <2>3, <3>1, RequestReadsInv
  <2>4. CASE \E S \in SUBSET Inbounds : Create(c, u, S) \/ SetInbounds(c, u, S)
    BY Zenon, <2>4, CreateInv, RequestReadsInv
  <2>5. QED
    BY Zenon, <2>1, <2>2, <2>3, <2>4
<1>2. ASSUME NEW c \in Clients, RequestStep(c) PROVE IInv'
  <2>1. CASE ReconcileForUser(c) \/ AllSent(c)
    <3>1. client[c].u \in Users /\ {} \in SUBSET Inbounds
      BY Zenon, <2>1 DEF ReconcileForUser, AllSent, IInv, ClientsKnowTheirUser
    <3>2. QED
      BY Zenon, <2>1, <3>1, RequestReadsInv
  <2>2. QED
    BY Zenon, <1>2, <2>1, SetAssignmentsForUserTxInv, MarkAssignmentsRemovingForUserInv,
       DeleteUserInv, UpdateUserInv, SendTriggerInv DEF RequestStep
<1>3. ASSUME NEW n \in Nodes, PassStep(n) PROVE IInv'
  BY Zenon, <1>3, StartPassInv, RemoveUserInv, DeleteAssignmentInv, LoadDesiredInv, AddUserInv,
     MarkAssignmentSyncedInv, FinishPassInv DEF PassStep
<1>4. CASE FaultStep
  BY Zenon, <1>4, NodeFaultInv, MarkFailsInv, NotifyFailsInv, CrashInv DEF FaultStep
<1>5. CASE UNCHANGED vars
  <2>1. TypeOK' /\ RowsHaveUsers' /\ EmailsUnique' /\ ClientsKnowTheirUser'
    BY Zenon, <1>5 DEF vars, IInv, TypeOK, RowsHaveUsers, EmailsUnique, ClientsKnowTheirUser,
       HasRow, Exists
  <2>2. \A n \in Nodes : PassInv(n)'
    BY Zenon, <1>5 DEF vars, IInv, PassInv, Purging, TombstoneStays, Exists
  <2>3. ASSUME NEW a \in Assignments, HasRow(a)', ~Excused(a)' PROVE Progress(a, NodeFor(a))'
    <3>1. Progress(a, NodeFor(a))
      BY Zenon, <1>5, <2>3 DEF vars, IInv, HasRow, Excused, Owed
    <3>2. QED
      BY Zenon, <1>5, <3>1 DEF vars, Progress, Purging, Synced, Wanted
  <2>4. QED
    BY Zenon, <2>1, <2>2, <2>3 DEF IInv
<1>6. QED
  BY Zenon, <1>1, <1>2, <1>3, <1>4, <1>5 DEF Next

\* IInv holds in every reachable state.
THEOREM Invariance == Spec => []IInv
BY InitInv, NextInv, PTL DEF Spec

\* The state stays within its types.
THEOREM TypeCorrect == Spec => []TypeOK
<1>1. IInv => TypeOK
  BY Zenon DEF IInv
<1>2. QED
  BY <1>1, Invariance, PTL

\* No committed change is forgotten: with its actor at rest and no trigger
\* pending or owed, a node holds exactly what its rows ask for.
THEOREM NothingForgotten == Spec => []NoForgottenWork
<1>1. IInv => NoForgottenWork
  BY Zenon DEF IInv, NoForgottenWork, Awake, Excused, Progress
<1>2. QED
  BY <1>1, Invariance, PTL

\* The purge of a pass never takes away a live assignment.
THEOREM LiveRowsStay == Spec => OnlyTombstonesPurged
<1> DEFINE Kept == \A a \in Assignments :
              (sync[a] \notin {"none", "removing"} /\ sync'[a] = "none")
                 => status'[a[1]] = "deleted"
<1>1. IInv /\ [Next]_vars => [Kept]_vars
  <2> SUFFICES ASSUME IInv, Next,
                      NEW a \in Assignments,
                      sync[a] \notin {"none", "removing"}, sync'[a] = "none"
               PROVE  status'[a[1]] = "deleted"
    BY Zenon DEF vars
  <2> USE DEF IInv
  <2>1. ASSUME NEW n \in Nodes, PassStep(n) PROVE FALSE
    <3>1. CASE DeleteAssignment(n)
      <4>1. cur[n] \in Row /\ TombstoneStays(cur[n].a)
        BY Zenon, <3>1 DEF DeleteAssignment, PassInv, Purging
      <4>2. cur[n].a = a
        BY Zenon, <3>1 DEF DeleteAssignment, TypeOK
      <4>3. QED
        BY Zenon, <4>1, <4>2 DEF TombstoneStays
    <3>2. CASE MarkAssignmentSynced(n)
      <4>1. cur[n].s \in {"applied", "failed"}
        BY SMTT(30), <3>2 DEF MarkAssignmentSynced, PassInv
      <4>2. QED
        BY SMTT(30), <3>2, <4>1 DEF MarkAssignmentSynced, TypeOK
    <3>3. QED
      BY Zenon, <2>1, <3>1, <3>2 DEF PassStep, StartPass, RemoveUser, LoadDesired, AddUser,
         FinishPass, dbVars
  <2>2. ASSUME NEW c \in Clients, RequestStep(c) PROVE status'[a[1]] = "deleted"
    <3>1. CASE DeleteUser(c)
      BY Zenon, <3>1, AssignmentFacts DEF DeleteUser, TypeOK
    <3>2. CASE SetAssignmentsForUserTx(c)
      BY SMTT(30), <3>2 DEF SetAssignmentsForUserTx, Replaced, HasRow
    <3>3. CASE MarkAssignmentsRemovingForUser(c)
      BY Zenon, <3>3 DEF MarkAssignmentsRemovingForUser
    <3>4. QED
      BY Zenon, <2>2, <3>1, <3>2, <3>3 DEF RequestStep, UpdateUser, ReconcileForUser,
         SendTrigger, AllSent, dbVars
  <2>3. ASSUME NEW c \in Clients, Request(c) PROVE FALSE
    BY Zenon, <2>3 DEF Request, Suspend, Resume, Sweep, SetUserStatus, Delete, RotateSubToken,
       Create, SetInbounds, dbVars
  <2>4. ASSUME FaultStep PROVE FALSE
    BY Zenon, <2>4 DEF FaultStep, LoadRemovalsFails, RemoveUserFails, DeleteAssignmentFails,
       LoadDesiredFails, AddUserFails, MarkFails, NodeRestart, NotifyFails, Crash, dbVars
  <2>5. QED
    BY Zenon, <2>1, <2>2, <2>3, <2>4 DEF Next
<1>2. QED
  BY <1>1, Invariance, PTL DEF Spec, OnlyTombstonesPurged
=============================================================================
