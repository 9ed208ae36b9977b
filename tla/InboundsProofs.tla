--------------------------- MODULE InboundsProofs ---------------------------
(***************************************************************************)
(* Proofs about Inbounds: InboundsInv is an inductive invariant, and with  *)
(* it the node follows the rows (NodeFollowsRows), for any number of       *)
(* inbounds, tags, users and requests that overlap with passes.            *)
(***************************************************************************)
EXTENDS Inbounds, TLAPS

RequestState ==
    [pc : {"idle", "update", "assign", "notify", "trigger"},
     inbound : InboundIds \union {None}, tag : Tags \union {None},
     user : Users \union {None}, inbounds : SUBSET InboundIds]

-----------------------------------------------------------------------------
(***************************************************************************)
(* Facts about the operators, and frames.                                  *)
(***************************************************************************)

\* The parts of a row.
LEMMA RowFacts ==
    ASSUME TypeOK, NEW r \in rows
    PROVE  r[1] \in Users /\ r[2] \in InboundIds /\ r = <<r[1], r[2]>>
BY DEF TypeOK

\* What the two queries of a pass find: the rows of inactive and of active
\* users, under the tags that the inbounds have now.
LEMMA QueryFacts ==
    ASSUME TypeOK, RowsHaveInbounds
    PROVE  /\ RemovalsForNode \subseteq Users \X Tags
           /\ DesiredForNode \subseteq Users \X Tags
           /\ \A r \in rows :
                IF status[r[1]] = "active"
                  THEN <<r[1], tag[r[2]]>> \in DesiredForNode
                  ELSE /\ <<r[1], tag[r[2]]>> \in RemovalsForNode
                       /\ <<r[1], tag[r[2]]>> \notin DesiredForNode
BY RowFacts DEF RemovalsForNode, DesiredForNode, RowsHaveInbounds, Exists

\* A request that goes on is a request.
LEMMA GoToType ==
    ASSUME req \in [Clients -> RequestState], NEW c \in Clients,
           NEW s \in RequestState, GoTo(c, s)
    PROVE  /\ req' \in [Clients -> RequestState]
           /\ req'[c] = s
           /\ \A d \in Clients \ {c} : req'[d] = req[d]
BY Zenon DEF GoTo

\* A request that has ended.
LEMMA IdleFacts == Idle \in RequestState /\ Idle.pc = "idle"
BY DEF Idle, Req, RequestState

\* What the pass did for a row it still has done when only other rows change.
LEMMA ReachedFrame ==
    ASSUME NEW r, Reached(r), UNCHANGED <<runtime, pass>>,
           status'[r[1]] = status[r[1]], tag'[r[2]] = tag[r[2]]
    PROVE  Reached(r)'
BY Zenon DEF Reached, pass

\* A trigger that another request has to send is still on its way.
LEMMA AnnouncedFrame ==
    ASSUME NEW u, NEW c \in Clients, Announced(u), trigger' = trigger,
           \A d \in Clients \ {c} : req'[d] = req[d],
           req[c].pc \in {"idle", "update", "assign"} \/ (req[c].pc = "notify" /\ req[c].user # u)
    PROVE  Announced(u)'
BY DEF Announced

\* A request that is about to trigger the node announces every row, one that is
\* about to look up the nodes of a user those of the user.
LEMMA AnnouncedNow ==
    ASSUME NEW u, NEW c \in Clients,
           req'[c].pc = "trigger" \/ (req'[c].pc = "notify" /\ req'[c].user = u)
    PROVE  Announced(u)'
BY Zenon DEF Announced

-----------------------------------------------------------------------------
(***************************************************************************)
(* Requests.                                                               *)
(***************************************************************************)

\* A request that goes on without writing anything, and whose trigger is not
\* given up while a row needs it.
LEMMA RequestFrame ==
    ASSUME InboundsInv, NEW c \in Clients, NEW s \in RequestState, GoTo(c, s),
           UNCHANGED <<tag, status, rows, runtime, trigger, pass>>, ops' \in 0..MaxOps,
           s.pc = "update" => s.inbound \in InboundIds /\ s.tag \in Tags,
           s.pc \in {"assign", "notify"} => s.user \in Users,
           \/ req[c].pc \in {"idle", "update", "assign"}
           \/ s.pc = "trigger"
           \/ req[c].pc = "notify" /\ \A r \in rows : r[1] # req[c].user
    PROVE  InboundsInv'
<1> USE DEF InboundsInv
<1>1. /\ req' \in [Clients -> RequestState]
      /\ req'[c] = s
      /\ \A d \in Clients \ {c} : req'[d] = req[d]
  BY Zenon, GoToType DEF TypeOK, RequestState
<1>2. TypeOK'
  BY Zenon, <1>1 DEF TypeOK, RequestState, pass
<1>3. RowsHaveInbounds'
  BY Zenon DEF RowsHaveInbounds, Exists
<1>4. RequestsKnow'
  BY Zenon, <1>1 DEF RequestsKnow
<1>5. ASSUME NEW r \in rows PROVE (Announced(r[1]) \/ Reached(r))'
  <2>1. CASE s.pc = "trigger"
    BY Zenon, <1>1, <2>1, AnnouncedNow
  <2>2. CASE s.pc # "trigger"
    BY <1>1, <2>2, AnnouncedFrame, ReachedFrame
  <2>3. QED
    BY Zenon, <2>1, <2>2
<1>6. QED
  BY Zenon, <1>2, <1>3, <1>4, <1>5

\* CreateInbound: no row is of the new inbound yet.
LEMMA CreateInboundInv ==
    ASSUME InboundsInv, NEW c \in Clients, NEW i \in InboundIds, NEW t \in Tags,
           CreateInbound(c, i, t)
    PROVE  InboundsInv'
<1> USE DEF InboundsInv
<1>1. /\ tag' = [tag EXCEPT ![i] = t]
      /\ tag[i] = "unused"
      /\ UNCHANGED <<status, rows, runtime, trigger, pass, req>>
  BY Zenon DEF CreateInbound
<1>2. TypeOK'
  BY <1>1, InboundsAssumption DEF TypeOK, CreateInbound, Accept, pass
<1>3. RowsHaveInbounds'
  BY <1>1, RowFacts DEF RowsHaveInbounds, Exists, TypeOK
<1>4. RequestsKnow'
  BY Zenon, <1>1 DEF RequestsKnow
<1>5. ASSUME NEW r \in rows PROVE (Announced(r[1]) \/ Reached(r))'
  <2>1. r[2] # i
    BY Zenon, <1>1, InboundsAssumption DEF RowsHaveInbounds, Exists
  <2>2. tag'[r[2]] = tag[r[2]]
    BY <1>1, <2>1 DEF TypeOK
  <2>3. QED
    BY Zenon, <1>1, <2>2, ReachedFrame DEF Announced
<1>6. QED
  BY Zenon, <1>1, <1>2, <1>3, <1>4, <1>5

\* UpdateInboundStmt: a changed tag is followed by a trigger.
LEMMA UpdateInboundStmtInv ==
    ASSUME InboundsInv, NEW c \in Clients, UpdateInboundStmt(c)
    PROVE  InboundsInv'
<1> DEFINE i == req[c].inbound
           t == req[c].tag
<1> USE DEF InboundsInv
<1>1. /\ req[c].pc = "update"
      /\ i \in InboundIds /\ t \in Tags
      /\ UNCHANGED <<status, rows, runtime, trigger, pass, ops>>
      /\ req \in [Clients -> RequestState]
  BY Zenon DEF UpdateInboundStmt, RequestsKnow, TypeOK, RequestState
<1>2. CASE Exists(i) /\ Free(i, t)
  <2>1. tag' = [tag EXCEPT ![i] = t] /\ GoTo(c, Req("trigger", i, t, None, {}))
    BY Zenon, <1>2 DEF UpdateInboundStmt
  <2>2. Req("trigger", i, t, None, {}) \in RequestState
        /\ Req("trigger", i, t, None, {}).pc = "trigger"
    BY <1>1 DEF Req, RequestState
  <2>3. /\ req' \in [Clients -> RequestState]
        /\ req'[c].pc = "trigger"
        /\ \A d \in Clients \ {c} : req'[d] = req[d]
    BY Zenon, <1>1, <2>1, <2>2, GoToType
  <2>4. TypeOK'
    BY <1>1, <2>1, <2>3 DEF TypeOK, pass, RequestState
  <2>5. RowsHaveInbounds'
    BY <1>1, <2>1, RowFacts DEF RowsHaveInbounds, Exists, TypeOK
  <2>6. RequestsKnow'
    BY <2>3 DEF RequestsKnow
  <2>7. QED
    BY Zenon, <2>3, <2>4, <2>5, <2>6, AnnouncedNow
<1>3. CASE ~(Exists(i) /\ Free(i, t))
  <2>1. GoTo(c, Idle) /\ tag' = tag
    BY Zenon, <1>3 DEF UpdateInboundStmt
  <2>2. ops' \in 0..MaxOps
    BY <1>1 DEF TypeOK
  <2>3. QED
    BY <1>1, <2>1, <2>2, IdleFacts, RequestFrame
<1>4. QED
  BY Zenon, <1>2, <1>3

\* UpdateInbound reads the inbound, ListInboundsByIDs those of a new user.
LEMMA RequestReadsInv ==
    ASSUME InboundsInv, NEW c \in Clients,
           \/ \E i \in InboundIds, t \in Tags : UpdateInbound(c, i, t)
           \/ \E u \in Users, S \in SUBSET InboundIds : ListInboundsByIDs(c, u, S)
    PROVE  InboundsInv'
<1>1. ops' \in 0..MaxOps
  BY InboundsAssumption DEF InboundsInv, TypeOK, UpdateInbound, ListInboundsByIDs, Accept
<1>2. ASSUME NEW i \in InboundIds, NEW t \in Tags, UpdateInbound(c, i, t)
      PROVE  InboundsInv'
  <2> DEFINE s == Req("update", i, t, None, {})
  <2>1. s \in RequestState /\ s.pc = "update" /\ s.inbound = i /\ s.tag = t
    BY DEF Req, RequestState
  <2>2. /\ req[c].pc = "idle" /\ GoTo(c, s)
        /\ UNCHANGED <<tag, status, rows, runtime, trigger, pass>>
    BY Zenon, <1>2 DEF UpdateInbound, Accept
  <2> HIDE DEF s
  <2>3. QED
    BY <1>1, <2>1, <2>2, RequestFrame
<1>3. ASSUME NEW u \in Users, NEW S \in SUBSET InboundIds, ListInboundsByIDs(c, u, S)
      PROVE  InboundsInv'
  <2> DEFINE s == Req("assign", None, None, u, S)
  <2>1. s \in RequestState /\ s.pc = "assign" /\ s.user = u
    BY DEF Req, RequestState
  <2>2. /\ req[c].pc = "idle" /\ GoTo(c, s)
        /\ UNCHANGED <<tag, status, rows, runtime, trigger, pass>>
    BY Zenon, <1>3 DEF ListInboundsByIDs, Accept
  <2> HIDE DEF s
  <2>3. QED
    BY <1>1, <2>1, <2>2, RequestFrame
<1>4. QED
  BY Zenon, <1>2, <1>3

\* DeleteInbound takes the rows of the inbound with it and leaves the others.
LEMMA DeleteInboundInv ==
    ASSUME InboundsInv, NEW c \in Clients, NEW i \in InboundIds, DeleteInbound(c, i)
    PROVE  InboundsInv'
<1> USE DEF InboundsInv
<1>1. /\ tag' = [tag EXCEPT ![i] = None]
      /\ rows' = {r \in rows : r[2] # i}
      /\ UNCHANGED <<status, runtime, trigger, pass, req>>
  BY Zenon DEF DeleteInbound
<1>2. TypeOK'
  BY <1>1, InboundsAssumption DEF TypeOK, DeleteInbound, Accept, pass
<1>3. RequestsKnow'
  BY Zenon, <1>1 DEF RequestsKnow
<1>4. ASSUME NEW r \in rows' PROVE r \in rows /\ tag'[r[2]] = tag[r[2]]
  BY <1>1, RowFacts DEF TypeOK
<1>5. RowsHaveInbounds'
  BY Zenon, <1>4 DEF RowsHaveInbounds, Exists
<1>6. ASSUME NEW r \in rows' PROVE (Announced(r[1]) \/ Reached(r))'
  BY Zenon, <1>1, <1>4, ReachedFrame DEF Announced
<1>7. QED
  BY Zenon, <1>2, <1>3, <1>5, <1>6

\* A request that has written what concerns user u goes on to announce it.
LEMMA NotifyFacts ==
    ASSUME TypeOK, RequestsKnow, NEW c \in Clients, NEW u \in Users,
           GoTo(c, Req("notify", None, None, u, {})),
           req[c].pc \in {"idle", "assign"}, trigger' = trigger
    PROVE  /\ req' \in [Clients -> RequestState]
           /\ RequestsKnow'
           /\ Announced(u)'
           /\ \A v : Announced(v) => Announced(v)'
<1> DEFINE s == Req("notify", None, None, u, {})
<1>1. s \in RequestState /\ s.pc = "notify" /\ s.user = u
  BY DEF Req, RequestState
<1> HIDE DEF s
<1>2. GoTo(c, s) /\ req \in [Clients -> RequestState]
  BY Zenon DEF s, TypeOK, RequestState
<1>3. /\ req' \in [Clients -> RequestState]
      /\ req'[c] = s
      /\ \A d \in Clients \ {c} : req'[d] = req[d]
  BY Zenon, <1>1, <1>2, GoToType
<1>4. RequestsKnow'
  BY <1>1, <1>3 DEF RequestsKnow
<1>5. Announced(u)'
  BY Zenon, <1>1, <1>3, AnnouncedNow
<1>6. \A v : Announced(v) => Announced(v)'
  BY Zenon, <1>3, AnnouncedFrame
<1>7. QED
  BY Zenon, <1>3, <1>4, <1>5, <1>6

\* AddAssignmentTx: the new rows are those of a user that is announced next.
LEMMA AddAssignmentTxInv ==
    ASSUME InboundsInv, NEW c \in Clients, AddAssignmentTx(c)
    PROVE  InboundsInv'
<1> USE DEF InboundsInv
<1>1. /\ req[c].pc = "assign"
      /\ UNCHANGED <<tag, runtime, trigger, pass, ops>>
  BY Zenon DEF AddAssignmentTx
<1> PICK u \in Users, S \in SUBSET InboundIds : u = req[c].user /\ S = req[c].inbounds
  BY Zenon, <1>1 DEF RequestsKnow, TypeOK
<1>2. CASE \A i \in S : Exists(i)
  <2>1. /\ status' = [status EXCEPT ![u] = "active"]
        /\ rows' = rows \union ({u} \X S)
        /\ GoTo(c, Req("notify", None, None, u, {}))
    BY Zenon, <1>2 DEF AddAssignmentTx
  <2>2. /\ req' \in [Clients -> RequestState]
        /\ RequestsKnow'
        /\ Announced(u)'
        /\ \A v : Announced(v) => Announced(v)'
    BY Zenon, <1>1, <2>1, NotifyFacts
  <2>3. TypeOK'
    BY <1>1, <2>1, <2>2 DEF TypeOK, pass, RequestState
  <2>4. ASSUME NEW r \in rows' PROVE r \in rows \/ (r[1] = u /\ r[2] \in S)
    <3>1. CASE r \in {u} \X S
      BY <3>1
    <3>2. QED
      BY Zenon, <2>1, <3>1
  <2>5. RowsHaveInbounds'
    BY Zenon, <1>1, <1>2, <2>4 DEF RowsHaveInbounds, Exists
  <2>6. ASSUME NEW r \in rows' PROVE (Announced(r[1]) \/ Reached(r))'
    <3>1. CASE r[1] = u
      BY Zenon, <2>2, <3>1
    <3>2. CASE r[1] # u
      <4>1. r \in rows
        BY Zenon, <2>4, <3>2
      <4>2. status'[r[1]] = status[r[1]]
        BY <2>1, <3>2, <4>1, RowFacts DEF TypeOK
      <4>3. QED
        BY Zenon, <1>1, <2>2, <4>1, <4>2, ReachedFrame
    <3>3. QED
      BY Zenon, <3>1, <3>2
  <2>7. QED
    BY Zenon, <2>2, <2>3, <2>5, <2>6
<1>3. CASE ~(\A i \in S : Exists(i))
  <2>1. GoTo(c, Idle) /\ UNCHANGED <<status, rows>>
    BY Zenon, <1>3 DEF AddAssignmentTx
  <2>2. ops' \in 0..MaxOps
    BY <1>1 DEF TypeOK
  <2>3. QED
    BY <1>1, <2>1, <2>2, IdleFacts, RequestFrame
<1>4. QED
  BY Zenon, <1>2, <1>3

\* Suspend and Resume: the rows of the user are announced next.
LEMMA SetUserStatusInv ==
    ASSUME InboundsInv, NEW c \in Clients, NEW u \in Users,
           NEW s \in {"active", "suspended"}, SetUserStatus(c, u, s)
    PROVE  InboundsInv'
<1> USE DEF InboundsInv
<1>1. /\ req[c].pc = "idle"
      /\ status' = [status EXCEPT ![u] = s]
      /\ GoTo(c, Req("notify", None, None, u, {}))
      /\ UNCHANGED <<tag, rows, runtime, trigger, pass>>
  BY Zenon DEF SetUserStatus, Accept
<1>2. /\ req' \in [Clients -> RequestState]
      /\ RequestsKnow'
      /\ Announced(u)'
      /\ \A v : Announced(v) => Announced(v)'
  BY Zenon, <1>1, NotifyFacts
<1>3. TypeOK'
  BY <1>1, <1>2, InboundsAssumption DEF TypeOK, SetUserStatus, Accept, pass, RequestState
<1>4. RowsHaveInbounds'
  BY Zenon, <1>1 DEF RowsHaveInbounds, Exists
<1>5. ASSUME NEW r \in rows PROVE (Announced(r[1]) \/ Reached(r))'
  <2>1. CASE r[1] = u
    BY Zenon, <1>2, <2>1
  <2>2. CASE r[1] # u
    <3>1. status'[r[1]] = status[r[1]]
      BY <1>1, <2>2, RowFacts DEF TypeOK
    <3>2. QED
      BY Zenon, <1>1, <1>2, <3>1, ReachedFrame
  <2>3. QED
    BY Zenon, <2>1, <2>2
<1>6. QED
  BY Zenon, <1>1, <1>2, <1>3, <1>4, <1>5

\* ReconcileForUser finds the node if the user has a row, and nothing is lost
\* if the user has none.
LEMMA ReconcileForUserInv ==
    ASSUME InboundsInv, NEW c \in Clients, ReconcileForUser(c)
    PROVE  InboundsInv'
<1> DEFINE u == req[c].user
           s == IF \E r \in rows : r[1] = u THEN Req("trigger", None, None, u, {}) ELSE Idle
<1>1. /\ req[c].pc = "notify" /\ u \in Users /\ GoTo(c, s)
      /\ UNCHANGED <<tag, status, rows, runtime, trigger, pass, ops>>
  BY Zenon DEF ReconcileForUser, InboundsInv, RequestsKnow
<1>2. Req("trigger", None, None, u, {}) \in RequestState
      /\ Req("trigger", None, None, u, {}).pc = "trigger"
  BY <1>1 DEF Req, RequestState
<1>3. /\ s \in RequestState
      /\ s.pc \in {"idle", "trigger"}
      /\ s.pc = "trigger" \/ \A r \in rows : r[1] # u
  BY Zenon, <1>2, IdleFacts
<1>4. ops' \in 0..MaxOps
  BY <1>1 DEF InboundsInv, TypeOK
<1> HIDE DEF s
<1>5. QED
  BY <1>1, <1>3, <1>4, RequestFrame

\* The trigger is in the channel: every row will be dealt with.
LEMMA TriggerInv ==
    ASSUME InboundsInv, NEW c \in Clients, triggerReconcile(c)
    PROVE  InboundsInv'
<1> USE DEF InboundsInv
<1>1. /\ trigger' = TRUE /\ GoTo(c, Idle)
      /\ UNCHANGED <<tag, status, rows, runtime, pass, ops>>
  BY Zenon DEF triggerReconcile
<1>2. /\ req' \in [Clients -> RequestState]
      /\ req'[c] = Idle
      /\ \A d \in Clients \ {c} : req'[d] = req[d]
  BY Zenon, <1>1, IdleFacts, GoToType DEF TypeOK, RequestState
<1>3. TypeOK'
  BY Zenon, <1>1, <1>2 DEF TypeOK, pass, RequestState
<1>4. RowsHaveInbounds'
  BY Zenon, <1>1 DEF RowsHaveInbounds, Exists
<1>5. RequestsKnow'
  BY <1>2, IdleFacts DEF RequestsKnow
<1>6. QED
  BY Zenon, <1>1, <1>3, <1>4, <1>5 DEF Announced

-----------------------------------------------------------------------------
(***************************************************************************)
(* The pass.                                                               *)
(***************************************************************************)

\* A step of the pass keeps the invariant if it keeps the types and either the
\* triggers, and what was done for a row, or deals with every row anew.
LEMMA PassFrame ==
    ASSUME InboundsInv, TypeOK', UNCHANGED <<tag, status, rows, req>>,
           \/ trigger' = trigger /\ \A r \in rows : Reached(r) => Reached(r)'
           \/ \A r \in rows : Reached(r)'
    PROVE  InboundsInv'
<1>1. RowsHaveInbounds' /\ RequestsKnow'
  BY Zenon DEF InboundsInv, RowsHaveInbounds, Exists, RequestsKnow
<1>2. ASSUME NEW u, trigger' = trigger, Announced(u) PROVE Announced(u)'
  BY <1>2 DEF Announced
<1>3. QED
  BY Zenon, <1>1, <1>2 DEF InboundsInv

\* StartPass: the state is yet to be read, so the trigger is used up rightly.
LEMMA StartPassInv == InboundsInv /\ StartPass => InboundsInv'
<1> SUFFICES ASSUME InboundsInv, StartPass PROVE InboundsInv'
  OBVIOUS
<1>1. TypeOK'
  BY DEF InboundsInv, TypeOK, StartPass
<1>2. ASSUME NEW r \in rows PROVE Reached(r)'
  BY DEF Reached, StartPass
<1>3. QED
  BY Zenon, <1>1, <1>2, PassFrame DEF StartPass

\* LoadRemovals finds every row of an inactive user.
LEMMA LoadRemovalsInv == InboundsInv /\ LoadRemovals => InboundsInv'
<1> SUFFICES ASSUME InboundsInv, LoadRemovals PROVE InboundsInv'
  OBVIOUS
<1>1. TypeOK'
  BY QueryFacts DEF InboundsInv, TypeOK, LoadRemovals
<1>2. ASSUME NEW r \in rows PROVE Reached(r)'
  BY QueryFacts DEF InboundsInv, Reached, LoadRemovals
<1>3. QED
  BY Zenon, <1>1, <1>2, PassFrame DEF LoadRemovals

\* RemoveUser takes a user off a tag for good: the pass pushes active users only.
LEMMA RemoveUserInv == InboundsInv /\ RemoveUser => InboundsInv'
<1> SUFFICES ASSUME InboundsInv, RemoveUser PROVE InboundsInv'
  OBVIOUS
<1>1. PICK d \in todo : /\ runtime' = [runtime EXCEPT ![d[2]] = @ \ {d[1]}]
                        /\ todo' = todo \ {d}
  BY Zenon DEF RemoveUser
<1>2. d \in Users \X Tags
  BY Zenon DEF InboundsInv, TypeOK
<1>3. pc = "remove" /\ UNCHANGED <<tag, status, rows, trigger, pc, failed, req, ops>>
  BY Zenon DEF RemoveUser
<1>4. TypeOK'
  BY <1>1, <1>2, <1>3 DEF InboundsInv, TypeOK
<1>5. ASSUME NEW r \in rows, Reached(r) PROVE Reached(r)'
  <2>1. r[1] \in Users /\ tag[r[2]] \in Tags
    BY RowFacts DEF InboundsInv, RowsHaveInbounds, Exists
  <2>2. QED
    BY <1>1, <1>2, <1>3, <1>5, <2>1 DEF Reached, InboundsInv, TypeOK
<1>6. QED
  BY Zenon, <1>3, <1>4, <1>5, PassFrame

\* LoadDesired comes when every removal is done, and finds active users only.
LEMMA LoadDesiredInv == InboundsInv /\ LoadDesired => InboundsInv'
<1> SUFFICES ASSUME InboundsInv, LoadDesired PROVE InboundsInv'
  OBVIOUS
<1>1. TypeOK'
  BY QueryFacts DEF InboundsInv, TypeOK, LoadDesired
<1>2. ASSUME NEW r \in rows, Reached(r) PROVE Reached(r)'
  BY <1>2, QueryFacts DEF InboundsInv, Reached, LoadDesired
<1>3. QED
  BY Zenon, <1>1, <1>2, PassFrame DEF LoadDesired

\* AddUser pushes a user that is to be pushed; a pass that is given up has done
\* its removals.
LEMMA AddUserInv == InboundsInv /\ AddUser => InboundsInv'
<1> SUFFICES ASSUME InboundsInv, AddUser PROVE InboundsInv'
  OBVIOUS
<1>1. pc = "add" /\ UNCHANGED <<tag, status, rows, trigger, req, ops>>
  BY Zenon DEF AddUser
<1>2. PICK d \in todo :
          IF d[2] \in Configured
            THEN /\ runtime' = [runtime EXCEPT ![d[2]] = @ \union {d[1]}]
                 /\ todo' = todo \ {d}
                 /\ UNCHANGED <<pc, failed>>
            ELSE GiveUp /\ UNCHANGED runtime
  BY Zenon DEF AddUser
<1>3. d \in Users \X Tags
  BY Zenon DEF InboundsInv, TypeOK
<1>4. CASE d[2] \in Configured
  <2>1. TypeOK'
    BY <1>1, <1>2, <1>3, <1>4 DEF InboundsInv, TypeOK
  <2>2. ASSUME NEW r \in rows, Reached(r) PROVE Reached(r)'
    <3>1. r[1] \in Users /\ tag[r[2]] \in Tags
      BY RowFacts DEF InboundsInv, RowsHaveInbounds, Exists
    <3>2. QED
      BY <1>1, <1>2, <1>3, <1>4, <2>2, <3>1 DEF Reached, InboundsInv, TypeOK
  <2>3. QED
    BY Zenon, <1>1, <2>1, <2>2, PassFrame
<1>5. CASE d[2] \notin Configured
  <2>1. TypeOK'
    BY <1>1, <1>2, <1>5 DEF GiveUp, InboundsInv, TypeOK
  <2>2. ASSUME NEW r \in rows, Reached(r) PROVE Reached(r)'
    BY <1>1, <1>2, <1>5, <2>2 DEF GiveUp, Reached
  <2>3. QED
    BY Zenon, <1>1, <2>1, <2>2, PassFrame
<1>6. QED
  BY Zenon, <1>4, <1>5

\* FinishPass: nothing is left to be pushed.
LEMMA FinishPassInv == InboundsInv /\ FinishPass => InboundsInv'
<1> SUFFICES ASSUME InboundsInv, FinishPass PROVE InboundsInv'
  OBVIOUS
<1>1. TypeOK'
  BY DEF InboundsInv, TypeOK, FinishPass
<1>2. ASSUME NEW r \in rows, Reached(r) PROVE Reached(r)'
  BY <1>2 DEF Reached, FinishPass
<1>3. QED
  BY Zenon, <1>1, <1>2, PassFrame DEF FinishPass

-----------------------------------------------------------------------------
(***************************************************************************)
(* The theorems.                                                           *)
(***************************************************************************)

\* The empty database and an idle actor satisfy the invariant.
LEMMA InitInv == Init => InboundsInv
<1> SUFFICES ASSUME Init PROVE InboundsInv
  OBVIOUS
<1>1. TypeOK
  <2>1. ops \in 0..MaxOps
    BY InboundsAssumption DEF Init
  <2>2. QED
    BY Zenon, <2>1, IdleFacts DEF Init, TypeOK, RequestState
<1>2. RequestsKnow
  BY IdleFacts DEF Init, RequestsKnow
<1>3. QED
  BY <1>1, <1>2 DEF InboundsInv, Init, RowsHaveInbounds

\* Every step of the requests and of the pass keeps the invariant.
LEMMA NextInv == InboundsInv /\ [Next]_vars => InboundsInv'
<1> SUFFICES ASSUME InboundsInv, [Next]_vars PROVE InboundsInv'
  OBVIOUS
<1>1. ASSUME NEW c \in Clients, Request(c) PROVE InboundsInv'
  BY Zenon, <1>1, DeleteInboundInv, CreateInboundInv, RequestReadsInv, SetUserStatusInv
     DEF Request
<1>2. ASSUME NEW c \in Clients, RequestStep(c) PROVE InboundsInv'
  BY Zenon, <1>2, UpdateInboundStmtInv, AddAssignmentTxInv, ReconcileForUserInv, TriggerInv
     DEF RequestStep
<1>3. CASE PassStep
  BY Zenon, <1>3, StartPassInv, LoadRemovalsInv, RemoveUserInv, LoadDesiredInv,
     AddUserInv, FinishPassInv DEF PassStep
<1>4. CASE UNCHANGED vars
  <2>1. TypeOK'
    BY Zenon, <1>4 DEF InboundsInv, TypeOK, vars, pass
  <2>2. \A r \in rows : Reached(r) => Reached(r)'
    BY Zenon, <1>4, ReachedFrame DEF vars
  <2>3. QED
    BY Zenon, <1>4, <2>1, <2>2, PassFrame DEF vars
<1>5. QED
  BY Zenon, <1>1, <1>2, <1>3, <1>4 DEF Next

\* The inductive invariant holds for any number of inbounds, tags, users and
\* overlapping requests.
THEOREM InboundsInvariance == Spec => []InboundsInv
BY InitInv, NextInv, PTL DEF Spec

\* The tables, the memory of the node and the requests keep their types.
THEOREM InboundsTypes == Spec => []TypeOK
<1>1. InboundsInv => TypeOK
  BY Zenon DEF InboundsInv
<1>2. QED
  BY <1>1, InboundsInvariance, PTL

\* The node follows the rows: when the actor rests and no trigger is on its
\* way, the users of the rows are on the node, under the present tags of their
\* inbounds, if and only if they are active.
THEOREM NodeFollows == Spec => []NodeFollowsRows
<1>1. InboundsInv => NodeFollowsRows
  BY Zenon DEF InboundsInv, Announced, Reached, NodeFollowsRows
<1>2. QED
  BY <1>1, InboundsInvariance, PTL
=============================================================================
