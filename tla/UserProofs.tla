----------------------------- MODULE UserProofs -----------------------------
(***************************************************************************)
(* Proofs about the users: the life of a user's row (Lifecycle) and the    *)
(* traffic on a user's account (Metering).                                 *)
(***************************************************************************)
EXTENDS Lifecycle, Metering, FiniteSetTheorems, TLAPS

Steps == {"idle", "activate", "resetTraffic", "renewReset", "write"}
Reads == [status : Statuses, expires : Nat \union {Null}]
Progress == [pc : Steps, row : Rows, ask : Asks, read : Reads]

-----------------------------------------------------------------------------
(***************************************************************************)
(* The operators.                                                          *)
(***************************************************************************)

\* Rows and what requests say are records of their fields.
LEMMA RowFacts ==
    ASSUME NEW s \in Statuses, NEW e \in Nat \union {Null}, NEW l \in Limits \union {Null},
           NEW u \in Nat, NEW p \in BOOLEAN
    PROVE  /\ UserRow(s, e, l, u, p) \in Rows
           /\ UserRow(s, e, l, u, p).status = s
           /\ UserRow(s, e, l, u, p).expires = e
BY Zenon DEF UserRow, Rows

LEMMA AskFacts ==
    ASSUME now \in 0..MaxTime,
           NEW s \in Statuses \union {Keep}, NEW e \in Expiries \union {Null, Keep},
           NEW d \in Days \union {0}, NEW z \in BOOLEAN
    PROVE  /\ Ask(s, e, d, z) \in Asks
           /\ Ask(s, e, d, z).status = s
           /\ Ask(s, e, d, z).expires = e
           /\ Ask(s, e, d, z).days = d
           /\ d # 0 => Ask(s, e, d, z).at = now
<1>1. 0 \in 0..MaxTime
  BY LifecycleAssumption
<1>2. QED
  BY Zenon, <1>1 DEF Ask, Asks

LEMMA UpdateAsk ==
    ASSUME NEW s \in Statuses \union {Keep}, NEW e \in Expiries \union {Null, Keep}
    PROVE  \E k \in Asks : /\ k = Ask(s, e, 0, FALSE)
                           /\ k.status = s /\ k.expires = e /\ k.days = 0
<1> DEFINE k == [status |-> s, expires |-> e, days |-> 0, reset |-> FALSE, at |-> 0]
<1>1. 0 \in 0..MaxTime
  BY LifecycleAssumption
<1>2. k \in Asks
  BY Zenon, <1>1 DEF Asks
<1>3. k = Ask(s, e, 0, FALSE)
  BY Zenon DEF Ask
<1>4. k.status = s /\ k.expires = e /\ k.days = 0
  BY Zenon
<1> HIDE DEF k
<1>5. QED
  BY Zenon, <1>2, <1>3, <1>4

LEMMA SilentFacts ==
    ASSUME now \in 0..MaxTime
    PROVE  /\ Silent \in Asks
           /\ Silent.status = Keep /\ Silent.expires = Keep /\ Silent.days = 0
<1>1. 0 \in 0..MaxTime
  BY LifecycleAssumption
<1>2. QED
  BY Zenon, <1>1 DEF Silent, Ask, Asks

\* The rows that statements write, field by field.
LEMMA StatementFacts ==
    ASSUME NEW r \in Rows
    PROVE  /\ \A s \in Statuses : /\ [r EXCEPT !.status = s] \in Rows
                                  /\ [r EXCEPT !.status = s].status = s
                                  /\ [r EXCEPT !.status = s].expires = r.expires
           /\ \A u \in Nat : /\ [r EXCEPT !.used = u] \in Rows
                             /\ [r EXCEPT !.used = u].status = r.status
                             /\ [r EXCEPT !.used = u].expires = r.expires
           /\ /\ [r EXCEPT !.plan = FALSE] \in Rows
              /\ [r EXCEPT !.plan = FALSE].status = r.status
              /\ [r EXCEPT !.plan = FALSE].expires = r.expires
BY Zenon DEF Rows

\* Reactivated touches the status only, and not that of a disabled user.
LEMMA ReactivatedFacts ==
    ASSUME NEW r \in Rows
    PROVE  /\ Reactivated(r) \in Rows
           /\ Reactivated(r).expires = r.expires
           /\ r.status = "disabled" => Reactivated(r).status = "disabled"
BY Zenon, StatementFacts DEF Reactivated, Statuses

\* Updated yields a row with the status and the expiry of the request, if given.
LEMMA UpdatedFacts ==
    ASSUME NEW r \in Rows,
           NEW s \in Statuses \union {Keep}, NEW e \in Expiries \union {Null, Keep},
           NEW l \in Limits \union {Keep}, NEW p \in BOOLEAN
    PROVE  /\ Updated(r, s, e, l, p) \in Rows
           /\ e = Keep => Updated(r, s, e, l, p).expires = r.expires
           /\ e # Keep => Updated(r, s, e, l, p).expires = e
           /\ s = "disabled" \/ (s = Keep /\ r.status = "disabled")
                => Updated(r, s, e, l, p).status = "disabled"
<1> DEFINE x == IF e = Keep THEN r.expires ELSE e
           t == IF s = Keep THEN r.status ELSE s
           a == IF t = "expired" /\ x # Null /\ InForce(x) THEN "active" ELSE t
           m == IF l = Keep THEN r.limit ELSE l
<1>1. /\ r.expires \in Nat \union {Null} /\ r.status \in Statuses
      /\ r.limit \in Limits \union {Null} /\ r.used \in Nat /\ r.plan \in BOOLEAN
  BY Zenon DEF Rows
<1>2. x \in Nat \union {Null}
  BY Zenon, <1>1, LifecycleAssumption
<1>3. a \in Statuses /\ (t = "disabled" => a = "disabled")
  BY Zenon, <1>1 DEF Statuses
<1>4. m \in Limits \union {Null} /\ (p \/ r.plan) \in BOOLEAN
  BY Zenon, <1>1
<1>5. Updated(r, s, e, l, p) = UserRow(a, x, m, r.used, p \/ r.plan)
  BY Zenon DEF Updated
<1> HIDE DEF a, x, m
<1>6. /\ UserRow(a, x, m, r.used, p \/ r.plan) \in Rows
      /\ UserRow(a, x, m, r.used, p \/ r.plan).status = a
      /\ UserRow(a, x, m, r.used, p \/ r.plan).expires = x
  BY Zenon, <1>1, <1>2, <1>3, <1>4 DEF UserRow, Rows
<1>7. s = "disabled" \/ (s = Keep /\ r.status = "disabled") => t = "disabled"
  BY Zenon, LifecycleAssumption DEF Statuses
<1>8. QED
  BY Zenon, <1>3, <1>5, <1>6, <1>7 DEF x

\* An extension yields an expiry.
LEMMA ExtendedType ==
    ASSUME now \in 0..MaxTime, NEW e \in Nat \union {Null}, NEW d \in Days \union {0}
    PROVE  Extended(e, d) \in Nat \union {Null}
BY LifecycleAssumption DEF Extended

\* The days and the times of requests are numbers.
LEMMA Numbers ==
    /\ \A d \in Days \union {0} : d \in Nat
    /\ \A t \in 0..MaxTime : t \in Nat
<1>1. Days \subseteq Nat
  BY Zenon, LifecycleAssumption
<1>2. QED
  BY <1>1

\* GrantedWith, when g is granted.
Grants(g, k) ==
    IF k.expires = Null THEN g
    ELSE IF k.expires # Keep THEN Later(g, k.expires)
    ELSE IF k.days = 0 THEN g
    ELSE Later(g, k.at) + k.days

\* What is granted is an expiry, and never less than before.
LEMMA GrantsFacts ==
    ASSUME NEW k \in Asks
    PROVE  /\ \A g \in Nat : Grants(g, k) \in Nat /\ g <= Grants(g, k)
           /\ \A g, h \in Nat : g <= h => Grants(g, k) <= Grants(h, k)
<1>1. /\ k.expires \in Expiries \union {Null, Keep} /\ k.days \in Days \union {0}
      /\ k.at \in 0..MaxTime
  BY Zenon DEF Asks
<1>2. k.days \in Nat /\ k.at \in Nat
  BY Zenon, <1>1, Numbers
<1>3. k.expires # Keep /\ k.expires # Null => k.expires \in Nat
  BY Zenon, <1>1, LifecycleAssumption
<1>4. QED
  BY <1>2, <1>3 DEF Grants, Later

\* A request that has read the row, one that goes on, and one that has ended.
LEMMA BeginFacts ==
    ASSUME req \in [Clients -> Progress], row \in Rows, NEW c \in Clients, NEW p \in Steps,
           NEW r \in Rows, NEW k \in Asks, Begin(c, p, r, k)
    PROVE  /\ req' \in [Clients -> Progress]
           /\ req'[c].pc = p /\ req'[c].row = r /\ req'[c].ask = k
           /\ req'[c].read.status = row.status /\ req'[c].read.expires = row.expires
           /\ \A d \in Clients : d # c => req'[d] = req[d]
<1> DEFINE o == [status |-> row.status, expires |-> row.expires]
<1>1. o \in Reads /\ o.status = row.status /\ o.expires = row.expires
  BY Zenon DEF Rows, Reads
<1>2. InProgress(p, r, k, row) = [pc |-> p, row |-> r, ask |-> k, read |-> o]
  BY Zenon DEF InProgress
<1> HIDE DEF o
<1>3. [pc |-> p, row |-> r, ask |-> k, read |-> o] \in Progress
  BY Zenon, <1>1 DEF Progress
<1> DEFINE q == [pc |-> p, row |-> r, ask |-> k, read |-> o]
<1>4. q.pc = p /\ q.row = r /\ q.ask = k /\ q.read = o
  BY Zenon
<1>5. q \in Progress /\ req' = [req EXCEPT ![c] = q]
  BY Zenon, <1>2, <1>3 DEF Begin
<1> HIDE DEF q
<1>6. QED
  BY ZenonT(40), <1>1, <1>4, <1>5

LEMMA GoToFacts ==
    ASSUME req \in [Clients -> Progress], NEW c \in Clients, NEW p \in Steps,
           NEW r \in Rows, GoTo(c, p, r)
    PROVE  /\ req' \in [Clients -> Progress]
           /\ req'[c].pc = p /\ req'[c].row = r
           /\ req'[c].ask = req[c].ask /\ req'[c].read = req[c].read
           /\ \A d \in Clients : d # c => req'[d] = req[d]
<1> DEFINE q == [req[c] EXCEPT !.pc = p, !.row = r]
<1>1. req[c] \in Progress
  BY Zenon
<1>2. q \in Progress /\ q.pc = p /\ q.row = r /\ q.ask = req[c].ask /\ q.read = req[c].read
  BY <1>1 DEF Progress
<1>3. req' = [req EXCEPT ![c] = q]
  BY DEF GoTo
<1> HIDE DEF q
<1>4. QED
  BY Zenon, <1>2, <1>3

LEMMA IdleFacts ==
    ASSUME now \in 0..MaxTime
    PROVE  Idle \in Progress /\ Idle.pc = "idle"
<1>1. 0 \in Nat /\ Silent \in Asks
  BY Zenon, SilentFacts, LifecycleAssumption
<1>2. NoRow \in Rows /\ NoRow.status \in Statuses /\ NoRow.expires \in Nat \union {Null}
  BY Zenon, <1>1 DEF NoRow, UserRow, Rows, Statuses
<1> HIDE DEF NoRow
<1>3. QED
  BY Zenon, <1>1, <1>2 DEF Idle, InProgress, Progress, Steps, Reads

-----------------------------------------------------------------------------
(***************************************************************************)
(* Type correctness, for requests in any order.                            *)
(***************************************************************************)

\* What the type invariant says of rows and requests.
LEMMA Typed ==
    ASSUME TypeOK
    PROVE  /\ row \in Rows /\ req \in [Clients -> Progress] /\ now \in 0..MaxTime
           /\ granted \in Nat
           /\ \A c \in Clients : req[c].row \in Rows /\ req[c].ask \in Asks
BY Zenon DEF TypeOK, Progress, Steps, Reads

\* A request ends: nothing of it stays in memory.
LEMMA DoneFacts ==
    ASSUME TypeOK, NEW c \in Clients, Done(c)
    PROVE  /\ req' \in [Clients -> Progress]
           /\ req'[c].pc = "idle"
           /\ \A d \in Clients : d # c => req'[d] = req[d]
BY Zenon, Typed, IdleFacts DEF Done

\* The types after a step that leaves the plan alone.
LEMMA TypesKept ==
    ASSUME TypeOK, UNCHANGED <<plan, now>>, row' \in Rows, req' \in [Clients -> Progress],
           ops' \in 0..MaxOps, faults' \in 0..MaxFaults,
           granted' \in Nat
    PROVE  TypeOK'
BY Zenon DEF TypeOK, Progress, Steps, Reads

LEMMA AcceptType ==
    ASSUME TypeOK, NEW c \in Clients, Accept(c)
    PROVE  ops' \in 0..MaxOps
BY LifecycleAssumption DEF TypeOK, Accept

\* The row that a renewal computes.
RenewedRow(d, p) ==
    UserRow(row.status, Extended(row.expires, d),
            IF p THEN plan.limit ELSE row.limit, row.used, p \/ row.plan)

LEMMA RenewedFacts ==
    ASSUME TypeOK, NEW d \in Days \union {0}, NEW p \in BOOLEAN
    PROVE  /\ RenewedRow(d, p) \in Rows
           /\ RenewedRow(d, p).status = row.status
           /\ RenewedRow(d, p).expires = Extended(row.expires, d)
<1>1. /\ row.expires \in Nat \union {Null} /\ row.status \in Statuses
      /\ row.limit \in Limits \union {Null} /\ row.used \in Nat /\ row.plan \in BOOLEAN
      /\ plan.limit \in Limits \union {Null} /\ now \in 0..MaxTime
  BY Zenon DEF TypeOK, Rows
<1>2. Extended(row.expires, d) \in Nat \union {Null}
  BY Zenon, <1>1, ExtendedType
<1>3. /\ (IF p THEN plan.limit ELSE row.limit) \in Limits \union {Null}
      /\ (p \/ row.plan) \in BOOLEAN
  BY Zenon, <1>1
<1>4. QED
  BY Zenon, <1>1, <1>2, <1>3 DEF RenewedRow, UserRow, Rows

\* A request is accepted.
LEMMA RequestType ==
    ASSUME TypeOK, NEW c \in Clients, Request(c), UNCHANGED plan
    PROVE  TypeOK'
<1>1. ASSUME ops' \in 0..MaxOps, req' \in [Clients -> Progress],
             UNCHANGED <<row, now, faults, granted>>
      PROVE  TypeOK'
  BY Zenon, <1>1 DEF TypeOK, Progress, Steps, Reads
<1>2. CASE Suspend(c)
  <2>1. row' \in Rows
    BY Zenon, <1>2, Typed, StatementFacts DEF Suspend, Statuses
  <2>2. req' \in [Clients -> Progress] /\ ops' \in 0..MaxOps
    BY Zenon, <1>2, DoneFacts, AcceptType DEF Suspend
  <2>3. QED
    BY Zenon, <1>2, <2>1, <2>2 DEF Suspend, TypeOK, Progress, Steps, Reads
<1>3. CASE Resume(c) \/ ResetTraffic(c) \/ RotateSubToken(c)
  <2>1. Ask("active", Keep, 0, FALSE) \in Asks /\ Silent \in Asks
    BY Zenon, Typed, AskFacts, SilentFacts DEF Statuses
  <2>2. req' \in [Clients -> Progress]
    BY Zenon, <1>3, <2>1, Typed, BeginFacts DEF Resume, ResetTraffic, RotateSubToken, Steps
  <2>3. QED
    BY Zenon, <1>1, <1>3, <2>2, AcceptType DEF Resume, ResetTraffic, RotateSubToken
<1>4. ASSUME NEW s \in Statuses \union {Keep}, NEW e \in Expiries \union {Null, Keep},
             NEW l \in Limits \union {Keep}, NEW p \in BOOLEAN, Update(c, s, e, l, p)
      PROVE  TypeOK'
  <2>1. Updated(row, s, e, l, p) \in Rows
    BY Zenon, Typed, UpdatedFacts
  <2>2. Ask(s, e, 0, FALSE) \in Asks
    BY Zenon, Typed, AskFacts
  <2>3. req' \in [Clients -> Progress]
    BY Zenon, <1>4, <2>1, <2>2, Typed, BeginFacts DEF Update, Steps
  <2>4. QED
    BY Zenon, <1>1, <1>4, <2>3, AcceptType DEF Update
<1>5. ASSUME NEW d \in Days \union {0}, NEW z \in BOOLEAN, NEW p \in BOOLEAN,
             Renew(c, d, z, p)
      PROVE  TypeOK'
  <2>1. RenewedRow(d, p) \in Rows
    BY Zenon, RenewedFacts
  <2>2. /\ [RenewedRow(d, p) EXCEPT !.used = 0] \in Rows
        /\ Reactivated(RenewedRow(d, p)) \in Rows
    BY Zenon, <2>1, StatementFacts, ReactivatedFacts
  <2>3. Ask(Keep, Keep, d, z) \in Asks
    BY Zenon, Typed, AskFacts
  <2>4. \/ Begin(c, "renewReset", [RenewedRow(d, p) EXCEPT !.used = 0], Ask(Keep, Keep, d, z))
        \/ Begin(c, "write", Reactivated(RenewedRow(d, p)), Ask(Keep, Keep, d, z))
    BY Zenon, <1>5 DEF Renew, RenewedRow
  <2>5. req' \in [Clients -> Progress]
    BY Zenon, <2>2, <2>3, <2>4, Typed, BeginFacts DEF Steps
  <2>6. QED
    BY Zenon, <1>1, <1>5, <2>5, AcceptType DEF Renew
<1>6. QED
  BY Zenon, <1>2, <1>3, <1>4, <1>5 DEF Request

\* A request goes on, ends or is cut short.
LEMMA RequestStepType ==
    ASSUME TypeOK, NEW c \in Clients, RequestStep(c), UNCHANGED plan
    PROVE  TypeOK'
<1>1. granted \in Nat /\ ops \in 0..MaxOps /\ faults \in 0..MaxFaults
  BY Zenon DEF TypeOK
<1>2. ASSUME row' \in Rows, req' \in [Clients -> Progress],
             UNCHANGED <<plan, now, ops, faults>>, granted' \in Nat
      PROVE  TypeOK'
  BY Zenon, <1>1, <1>2, TypesKept
<1>3. CASE SetUserStatus(c)
  <2>1. row' \in Rows
    BY Zenon, <1>3, Typed, StatementFacts DEF SetUserStatus, Statuses
  <2>2. req' \in [Clients -> Progress]
    BY Zenon, <1>3, DoneFacts DEF SetUserStatus
  <2>3. QED
    BY Zenon, <1>1, <1>2, <1>3, <2>1, <2>2 DEF SetUserStatus
<1>4. CASE ResetTrafficStmt(c)
  <2>1. row' \in Rows
    BY Zenon, <1>4, Typed, StatementFacts DEF ResetTrafficStmt
  <2>2. req' \in [Clients -> Progress]
    BY Zenon, <1>4, <2>1, Typed, GoToFacts, DoneFacts DEF ResetTrafficStmt, Steps
  <2>3. QED
    BY Zenon, <1>1, <1>2, <1>4, <2>1, <2>2 DEF ResetTrafficStmt
<1>5. CASE RenewResetStmt(c)
  <2>1. row' \in Rows /\ Reactivated(req[c].row) \in Rows
    BY Zenon, <1>5, Typed, StatementFacts, ReactivatedFacts DEF RenewResetStmt
  <2>2. req' \in [Clients -> Progress]
    BY Zenon, <1>5, <2>1, Typed, GoToFacts DEF RenewResetStmt, Steps
  <2>3. QED
    BY Zenon, <1>1, <1>2, <1>5, <2>1, <2>2 DEF RenewResetStmt
<1>6. CASE UpdateUser(c)
  <2>1. row.used \in Nat
    BY Zenon, Typed DEF Rows
  <2>2. row' \in Rows
    <3>1. [req[c].row EXCEPT !.used = row.used] \in Rows
      BY Zenon, <2>1, Typed, StatementFacts
    <3>2. row' = row \/ row' = [req[c].row EXCEPT !.used = row.used]
      BY Zenon, <1>6 DEF UpdateUser
    <3>3. QED
      BY Zenon, <3>1, <3>2, Typed
  <2>3. granted' \in Nat
    <3>1. granted' = granted \/ granted' = GrantedWith(req[c].ask)
      BY Zenon, <1>6 DEF UpdateUser
    <3>2. GrantedWith(req[c].ask) = Grants(granted, req[c].ask)
      BY Zenon DEF GrantedWith, Grants
    <3>3. req[c].ask \in Asks /\ granted \in Nat
      BY Zenon, Typed
    <3>4. QED
      BY Zenon, <3>1, <3>2, <3>3, GrantsFacts
  <2>4. req' \in [Clients -> Progress]
    BY Zenon, <1>6, DoneFacts DEF UpdateUser
  <2>5. QED
    BY Zenon, <1>2, <1>6, <2>2, <2>3, <2>4 DEF UpdateUser
<1>7. CASE CutShort(c)
  <2>1. faults' \in 0..MaxFaults
    BY <1>7, <1>1, LifecycleAssumption DEF CutShort
  <2>2. req' \in [Clients -> Progress]
    BY Zenon, <1>7, DoneFacts DEF CutShort
  <2>3. QED
    BY Zenon, <1>1, <1>7, <2>1, <2>2, Typed, TypesKept DEF CutShort
<1>8. QED
  BY Zenon, <1>3, <1>4, <1>5, <1>6, <1>7 DEF RequestStep

\* What the background loops write, field by field.
LEMMA BackgroundFacts ==
    ASSUME TypeOK, ExpireDueUsers \/ \E d \in {0, 1} : Collect(d)
    PROVE  /\ row' \in Rows /\ row'.expires = row.expires
           /\ row.status # "active" => row'.status = row.status
           /\ UNCHANGED <<now, req, ops, faults, granted>>
<1>1. CASE ExpireDueUsers
  BY Zenon, <1>1, Typed, StatementFacts DEF ExpireDueUsers, Statuses
<1>2. ASSUME NEW d \in {0, 1}, Collect(d)
      PROVE  /\ row' \in Rows /\ row'.expires = row.expires
             /\ row.status # "active" => row'.status = row.status
             /\ UNCHANGED <<now, req, ops, faults, granted>>
  <2> DEFINE r == [row EXCEPT !.used = @ + d]
  <2>1. row.used + d \in Nat
    <3>1. row.used \in Nat
      BY Zenon, Typed DEF Rows
    <3>2. QED
      BY <3>1
  <2>2. r = [row EXCEPT !.used = row.used + d]
    BY Zenon, Typed DEF Rows
  <2>3. r \in Rows /\ r.status = row.status /\ r.expires = row.expires
    BY Zenon, <2>1, <2>2, Typed, StatementFacts
  <2>4. row' = r \/ (r.status = "active" /\ row' = [r EXCEPT !.status = "suspended"])
    BY Zenon, <1>2 DEF Collect
  <2>5. UNCHANGED <<now, req, ops, faults, granted>>
    BY Zenon, <1>2 DEF Collect
  <2> HIDE DEF r
  <2>6. CASE row' = r
    BY Zenon, <2>3, <2>5, <2>6
  <2>7. CASE r.status = "active" /\ row' = [r EXCEPT !.status = "suspended"]
    BY Zenon, <2>3, <2>5, <2>7, StatementFacts DEF Statuses
  <2>8. QED
    BY Zenon, <2>4, <2>6, <2>7
<1>3. QED
  BY Zenon, <1>1, <1>2

\* Every step keeps the types.
LEMMA TypeStep == TypeOK /\ [Next]_vars => TypeOK'
<1> SUFFICES ASSUME TypeOK, [Next]_vars PROVE TypeOK'
  BY Zenon
<1>1. CASE /\ \E c \in Clients : Request(c) \/ RequestStep(c)
           /\ UNCHANGED plan
  BY Zenon, <1>1, RequestType, RequestStepType
<1>2. CASE /\ ExpireDueUsers \/ \E d \in {0, 1} : Collect(d)
           /\ UNCHANGED plan
  BY Zenon, <1>2, BackgroundFacts DEF TypeOK
<1>3. CASE Tick /\ UNCHANGED plan
  <2>1. now' \in 0..MaxTime
    BY <1>3, LifecycleAssumption DEF Tick, TypeOK
  <2>2. QED
    BY Zenon, <1>3, <2>1 DEF Tick, TypeOK
<1>4. CASE DeletePlan
  <2>1. row' \in Rows
    BY Zenon, <1>4, Typed, StatementFacts DEF DeletePlan
  <2>2. plan' \in [exists : BOOLEAN, limit : Limits \union {Null}]
    BY Zenon, <1>4 DEF DeletePlan, TypeOK
  <2>3. QED
    BY Zenon, <1>4, <2>1, <2>2 DEF DeletePlan, TypeOK
<1>5. CASE \E l \in Limits \union {Null} : UpdatePlan(l)
  <2>1. plan' \in [exists : BOOLEAN, limit : Limits \union {Null}]
    BY Zenon, <1>5 DEF UpdatePlan, TypeOK
  <2>2. QED
    BY Zenon, <1>5, <2>1 DEF UpdatePlan, TypeOK
<1>6. CASE UNCHANGED vars
  BY Zenon, <1>6 DEF vars, TypeOK
<1>7. QED
  BY Zenon, <1>1, <1>2, <1>3, <1>4, <1>5, <1>6 DEF Next

\* A user as Create leaves it has the types.
LEMMA TypeInit == Init => TypeOK
<1> SUFFICES ASSUME Init PROVE TypeOK
  BY Zenon
<1>1. PICK t \in {"active", "disabled"}, e \in Expiries \union {Null}, l \in Limits \union {Null} :
        /\ row = UserRow(t, e, l, 0, TRUE)
        /\ plan = [exists |-> TRUE, limit |-> l]
        /\ granted = IF e = Null THEN 0 ELSE e
  BY Zenon DEF Init
<1>2. 0 \in 0..MaxTime /\ 0 \in 0..MaxOps /\ 0 \in 0..MaxFaults /\ 0 \in Nat
  BY LifecycleAssumption
<1>3. e \in Nat \union {Null} /\ granted \in Nat
  BY Zenon, <1>1, <1>2, LifecycleAssumption
<1>4. row \in Rows
  BY Zenon, <1>1, <1>2, <1>3 DEF UserRow, Rows, Statuses
<1>5. now \in 0..MaxTime
  BY Zenon, <1>2 DEF Init
<1>6. req \in [Clients -> Progress]
  BY Zenon, <1>5, IdleFacts DEF Init
<1>7. QED
  BY Zenon, <1>1, <1>2, <1>3, <1>4, <1>5, <1>6 DEF Init, TypeOK, Progress, Steps, Reads

\* Rows, plans and requests in progress are well-formed, in whatever order the
\* statements of requests, loops and plan changes commit.
THEOREM LifecycleTypes == Spec => []TypeOK
BY TypeInit, TypeStep, PTL DEF Spec

-----------------------------------------------------------------------------
(***************************************************************************)
(* What requests may write, however they overlap.                          *)
(***************************************************************************)

\* What LifecycleInv says of a request q when g is granted.
Fits(q, g) ==
    /\ q.pc \in {"resetTraffic", "renewReset", "write"}
          /\ (q.ask.status = "disabled" \/ (q.ask.status = Keep /\ q.read.status = "disabled"))
         => q.row.status = "disabled"
    /\ q.pc = "resetTraffic" => q.ask.status = Keep
    /\ q.pc = "activate"
         => q.ask.status = "active" \/ (q.ask.status = Keep /\ q.read.status # "disabled")
    /\ q.pc \in {"renewReset", "write"}
         => /\ q.ask.expires = Keep /\ q.read.expires # Null
                 => q.row.expires # Null /\ q.row.expires >= q.read.expires
            /\ q.row.expires # Null => q.row.expires <= Grants(g, q.ask)

LEMMA InvParts ==
    LifecycleInv <=> TypeOK /\ TimeIsPaidFor /\ \A c \in Clients : Fits(req[c], granted)
BY Zenon DEF LifecycleInv, KeepsDisabled, KeepsExpiry, Fits, GrantedWith, Grants

\* A request that fits still does when more is granted.
LEMMA FitsMore ==
    ASSUME NEW q \in Progress, NEW g \in Nat, NEW h \in Nat, g <= h, Fits(q, g)
    PROVE  Fits(q, h)
<1>1. q.ask \in Asks /\ q.row.expires \in Nat \union {Null}
  BY Zenon DEF Progress, Rows
<1>2. Grants(g, q.ask) \in Nat /\ Grants(h, q.ask) \in Nat /\ Grants(g, q.ask) <= Grants(h, q.ask)
  BY Zenon, <1>1, GrantsFacts
<1>3. q.row.expires # Null /\ q.row.expires <= Grants(g, q.ask) => q.row.expires <= Grants(h, q.ask)
  BY <1>1, <1>2
<1>4. QED
  BY Zenon, <1>3 DEF Fits

\* After a step of request c, which takes nothing of what is granted, the
\* invariant is to be shown of c and of the row.
LEMMA OneRequest ==
    ASSUME LifecycleInv, TypeOK', NEW c \in Clients,
           \A d \in Clients : d # c => req'[d] = req[d],
           granted <= granted', TimeIsPaidFor', Fits(req'[c], granted')
    PROVE  LifecycleInv'
<1>1. granted \in Nat /\ granted' \in Nat /\ req \in [Clients -> Progress]
  BY Zenon, InvParts DEF TypeOK, Progress, Steps, Reads
<1>2. ASSUME NEW d \in Clients, d # c PROVE Fits(req'[d], granted')
  <2>1. req'[d] = req[d] /\ req[d] \in Progress /\ Fits(req[d], granted)
    BY Zenon, <1>1, <1>2, InvParts
  <2>2. Fits(req[d], granted')
    BY Zenon, <1>1, <2>1, FitsMore
  <2>3. QED
    BY Zenon, <2>1, <2>2
<1>3. \A d \in Clients : Fits(req'[d], granted')
  BY Zenon, <1>2
<1>4. QED
  BY Zenon, <1>3 DEF LifecycleInv, KeepsDisabled, KeepsExpiry, Fits, GrantedWith, Grants

\* A request that has ended holds nothing.
LEMMA EndInv ==
    ASSUME LifecycleInv, TypeOK', NEW c \in Clients, Done(c), granted <= granted', TimeIsPaidFor'
    PROVE  LifecycleInv'
<1>1. req'[c].pc = "idle" /\ \A d \in Clients : d # c => req'[d] = req[d]
  BY Zenon, DoneFacts, InvParts
<1>2. Fits(req'[c], granted')
  BY Zenon, <1>1 DEF Fits
<1>3. QED
  BY Zenon, <1>1, <1>2, OneRequest

\* A request that has read the row goes on to p with the row r and what it asks
\* for, k.
LEMMA ReadInv ==
    ASSUME LifecycleInv, TypeOK', NEW c \in Clients, NEW p \in Steps, NEW r \in Rows,
           NEW k \in Asks, Begin(c, p, r, k), UNCHANGED <<row, granted>>,
           p = "activate" => k.status = "active",
           p = "resetTraffic" => k.status = Keep,
           k.status = "disabled" \/ (k.status = Keep /\ row.status = "disabled")
             => p = "activate" \/ r.status = "disabled",
           p \in {"renewReset", "write"} =>
             /\ k.expires = Keep /\ row.expires # Null => r.expires # Null /\ r.expires >= row.expires
             /\ r.expires # Null => r.expires <= Grants(granted, k)
    PROVE  LifecycleInv'
<1>1. TypeOK /\ TimeIsPaidFor
  BY Zenon, InvParts
<1>7. granted \in Nat /\ req \in [Clients -> Progress] /\ row \in Rows
  BY Zenon, <1>1, Typed
<1>2. /\ req'[c].pc = p /\ req'[c].row = r /\ req'[c].ask = k
      /\ req'[c].read.status = row.status /\ req'[c].read.expires = row.expires
      /\ \A d \in Clients : d # c => req'[d] = req[d]
  BY ZenonT(40), <1>7, BeginFacts
<1>3. Fits(req'[c], granted)
  BY ZenonT(40), <1>2 DEF Fits
<1>4. granted <= granted' /\ granted' = granted
  BY <1>7
<1>5. TimeIsPaidFor'
  BY Zenon, <1>1 DEF TimeIsPaidFor
<1>6. QED
  BY Zenon, <1>2, <1>3, <1>4, <1>5, OneRequest

\* What a request that keeps the expiry, or gives one, is going to write.
LEMMA KeptExpiry ==
    ASSUME TypeOK, TimeIsPaidFor, NEW k \in Asks, k.days = 0, NEW x \in Nat \union {Null},
           k.expires = Keep => x = row.expires, k.expires # Keep => x = k.expires
    PROVE  /\ k.expires = Keep /\ row.expires # Null => x # Null /\ x >= row.expires
           /\ x # Null => x <= Grants(granted, k)
<1>1. row.expires \in Nat \union {Null} /\ granted \in Nat /\ Null # Keep
  BY Zenon, Typed, LifecycleAssumption DEF Rows
<1>2. CASE k.expires = Keep
  BY <1>1, <1>2 DEF TimeIsPaidFor, Grants
<1>3. CASE k.expires # Keep
  BY <1>1, <1>3 DEF Grants, Later
<1>4. QED
  BY Zenon, <1>2, <1>3

\* What a renewal is going to write.
LEMMA ExtendedExpiry ==
    ASSUME TypeOK, TimeIsPaidFor, NEW k \in Asks, k.expires = Keep,
           k.days # 0 => k.at = now
    PROVE  LET x == Extended(row.expires, k.days)
           IN  /\ row.expires # Null => x # Null /\ x >= row.expires
               /\ x # Null => x <= Grants(granted, k)
<1>1. /\ row.expires \in Nat \union {Null} /\ granted \in Nat /\ Null # Keep /\ Null \notin Nat
      /\ k.days \in Days \union {0}
  BY Zenon, Typed, LifecycleAssumption DEF Rows, Asks
<1>2. now \in Nat /\ k.days \in Nat
  BY Zenon, <1>1, Numbers DEF TypeOK
<1>3. CASE k.days = 0
  BY <1>1, <1>3 DEF TimeIsPaidFor, Grants, Extended
<1>4. CASE k.days # 0
  <2>1. Grants(granted, k) = Later(granted, now) + k.days
    BY Zenon, <1>1, <1>4 DEF Grants
  <2>2. CASE row.expires = Null
    BY <1>1, <1>2, <1>4, <2>1, <2>2 DEF Extended, Later
  <2>3. CASE row.expires \in Nat
    BY <1>1, <1>2, <1>4, <2>1, <2>3 DEF TimeIsPaidFor, Extended, Later
  <2>4. QED
    BY Zenon, <1>1, <2>2, <2>3
<1>5. QED
  BY Zenon, <1>3, <1>4

\* A request is accepted.
LEMMA RequestInv ==
    ASSUME LifecycleInv, TypeOK', NEW c \in Clients, Request(c)
    PROVE  LifecycleInv'
<1>1. TypeOK /\ TimeIsPaidFor
  BY Zenon, InvParts
<1>2. row \in Rows /\ now \in 0..MaxTime /\ Keep \notin Statuses /\ granted \in Nat
  BY Zenon, <1>1, Typed, LifecycleAssumption
<1>3. row.expires \in Nat \union {Null} /\ Keep # "disabled" /\ Keep # "active"
  BY Zenon, <1>2 DEF Rows, Statuses
<1>4. CASE Suspend(c)
  <2>1. row'.expires = row.expires /\ granted' = granted /\ Done(c)
    BY Zenon, <1>2, <1>4, StatementFacts DEF Suspend, Statuses
  <2>2. granted <= granted'
    BY <1>2, <2>1
  <2>3. QED
    BY Zenon, <1>1, <2>1, <2>2, EndInv DEF TimeIsPaidFor
<1>5. CASE Resume(c)
  <2>1. PICK k \in Asks : k = Ask("active", Keep, 0, FALSE) /\ k.status = "active"
    <3>1. "active" \in Statuses \union {Keep} /\ Keep \in Expiries \union {Null, Keep}
      BY Zenon DEF Statuses
    <3>2. QED
      BY Zenon, <3>1, UpdateAsk
  <2>2. Begin(c, "activate", row, k) /\ UNCHANGED <<row, granted>>
    BY Zenon, <1>5, <2>1 DEF Resume
  <2>3. QED
    BY Zenon, <1>2, <1>3, <2>1, <2>2, ReadInv DEF Steps
<1>6. CASE ResetTraffic(c) \/ RotateSubToken(c)
  <2>1. PICK k \in Asks : k = Silent /\ k.status = Keep /\ k.expires = Keep /\ k.days = 0
    BY Zenon, <1>2, SilentFacts
  <2>2. UNCHANGED <<row, granted>>
    BY Zenon, <1>6 DEF ResetTraffic, RotateSubToken
  <2>3. Begin(c, "resetTraffic", row, k) \/ Begin(c, "write", row, k)
    BY Zenon, <1>6, <2>1 DEF ResetTraffic, RotateSubToken
  <2>4. /\ k.expires = Keep /\ row.expires # Null => row.expires # Null /\ row.expires >= row.expires
        /\ row.expires # Null => row.expires <= Grants(granted, k)
    BY Zenon, <1>1, <1>3, <2>1, KeptExpiry
  <2>5. QED
    BY Zenon, <1>2, <1>3, <2>1, <2>2, <2>3, <2>4, ReadInv DEF Steps
<1>7. ASSUME NEW s \in Statuses \union {Keep}, NEW e \in Expiries \union {Null, Keep},
             NEW l \in Limits \union {Keep}, NEW b \in BOOLEAN, Update(c, s, e, l, b)
      PROVE  LifecycleInv'
  <2>1. PICK r \in Rows :
          /\ r = Updated(row, s, e, l, b)
          /\ e = Keep => r.expires = row.expires
          /\ e # Keep => r.expires = e
          /\ s = "disabled" \/ (s = Keep /\ row.status = "disabled")
               => r.status = "disabled"
    BY Zenon, <1>2, UpdatedFacts
  <2>2. PICK k \in Asks :
          /\ k = Ask(s, e, 0, FALSE)
          /\ k.status = s /\ k.expires = e /\ k.days = 0
    BY Zenon, UpdateAsk
  <2>3. r.expires \in Nat \union {Null}
    BY Zenon DEF Rows
  <2>4. /\ k.expires = Keep /\ row.expires # Null => r.expires # Null /\ r.expires >= row.expires
        /\ r.expires # Null => r.expires <= Grants(granted, k)
    BY Zenon, <1>1, <2>1, <2>2, <2>3, KeptExpiry
  <2>5. Begin(c, "write", r, k) /\ UNCHANGED <<row, granted>>
    BY Zenon, <1>7, <2>1, <2>2 DEF Update
  <2>6. k.status = "disabled" \/ (k.status = Keep /\ row.status = "disabled")
          => r.status = "disabled"
    BY Zenon, <2>1, <2>2
  <2>7. QED
    BY Zenon, <2>4, <2>5, <2>6, ReadInv DEF Steps
<1>8. ASSUME NEW d \in Days \union {0}, NEW z \in BOOLEAN, NEW b \in BOOLEAN,
             Renew(c, d, z, b)
      PROVE  LifecycleInv'
  <2>1. PICK r \in Rows :
          /\ r = RenewedRow(d, b)
          /\ r.status = row.status
          /\ r.expires = Extended(row.expires, d)
    BY Zenon, <1>1, RenewedFacts
  <2>2. PICK k \in Asks :
          /\ k = Ask(Keep, Keep, d, z)
          /\ k.status = Keep /\ k.expires = Keep /\ k.days = d /\ (d # 0 => k.at = now)
    <3>1. Keep \in Statuses \union {Keep} /\ Keep \in Expiries \union {Null, Keep}
      BY Zenon
    <3>2. LET k == Ask(Keep, Keep, d, z)
          IN  /\ k \in Asks /\ k.status = Keep /\ k.expires = Keep /\ k.days = d
              /\ d # 0 => k.at = now
      BY SMT, <1>2, <3>1, AskFacts
    <3>3. QED
      BY Zenon, <3>2
  <2>3. /\ k.expires = Keep /\ row.expires # Null => r.expires # Null /\ r.expires >= row.expires
        /\ r.expires # Null => r.expires <= Grants(granted, k)
    BY Zenon, <1>1, <2>1, <2>2, ExtendedExpiry
  <2>4. PICK u \in Rows : u = [r EXCEPT !.used = 0] /\ u.expires = r.expires /\ u.status = r.status
    <3>1. 0 \in Nat
      OBVIOUS
    <3>2. QED
      BY Zenon, <3>1, StatementFacts
  <2>5. PICK v \in Rows : /\ v = Reactivated(r) /\ v.expires = r.expires
                          /\ r.status = "disabled" => v.status = "disabled"
    BY Zenon, ReactivatedFacts
  <2>6. UNCHANGED <<row, granted>>
    BY Zenon, <1>8 DEF Renew
  <2>7. Begin(c, "renewReset", u, k) \/ Begin(c, "write", v, k)
    BY Zenon, <1>8, <2>1, <2>2, <2>4, <2>5 DEF Renew, RenewedRow
  <2>8. CASE Begin(c, "renewReset", u, k)
    BY ZenonT(40), <1>3, <2>1, <2>2, <2>3, <2>4, <2>6, <2>8, ReadInv DEF Steps
  <2>9. CASE Begin(c, "write", v, k)
    BY ZenonT(40), <1>3, <2>1, <2>2, <2>3, <2>5, <2>6, <2>9, ReadInv DEF Steps
  <2>10. QED
    BY Zenon, <2>7, <2>8, <2>9
<1>9. QED
  BY Zenon, <1>4, <1>5, <1>6, <1>7, <1>8 DEF Request

\* A request in progress goes on, ends or is cut short.
LEMMA RequestStepInv ==
    ASSUME LifecycleInv, TypeOK', NEW c \in Clients, RequestStep(c)
    PROVE  LifecycleInv'
<1>1. TypeOK /\ TimeIsPaidFor /\ Fits(req[c], granted)
  BY Zenon, InvParts
<1>2. PICK r \in Rows, k \in Asks : r = req[c].row /\ k = req[c].ask
  BY Zenon, <1>1, Typed
<1>3. row \in Rows /\ row.used \in Nat /\ req \in [Clients -> Progress] /\ granted \in Nat
  BY Zenon, <1>1, Typed DEF Rows
<1>4. 0 \in Nat /\ granted <= granted
  BY <1>3
<1>5. CASE SetUserStatus(c)
  <2>1. row'.expires = row.expires /\ granted' = granted /\ Done(c)
    BY Zenon, <1>3, <1>5, StatementFacts DEF SetUserStatus, Statuses
  <2>2. QED
    BY Zenon, <1>1, <1>4, <2>1, EndInv DEF TimeIsPaidFor
<1>6. CASE ResetTrafficStmt(c)
  <2>1. /\ row'.expires = row.expires /\ granted' = granted
        /\ req[c].pc = "resetTraffic"
    BY Zenon, <1>3, <1>4, <1>6, StatementFacts DEF ResetTrafficStmt
  <2>2. TimeIsPaidFor' /\ granted <= granted'
    BY Zenon, <1>1, <1>4, <2>1 DEF TimeIsPaidFor
  <2>3. CASE Done(c)
    BY Zenon, <2>2, <2>3, EndInv
  <2>4. CASE r.status = "suspended" /\ GoTo(c, "activate", r)
    <3>1. /\ req'[c].pc = "activate" /\ req'[c].ask = req[c].ask /\ req'[c].read = req[c].read
          /\ \A d \in Clients : d # c => req'[d] = req[d]
      BY Zenon, <1>3, <2>4, GoToFacts DEF Steps
    <3>2. req[c].ask.status = Keep /\ req[c].read.status # "disabled"
      BY Zenon, <1>1, <1>2, <2>1, <2>4 DEF Fits
    <3>3. Fits(req'[c], granted')
      BY Zenon, <3>1, <3>2 DEF Fits
    <3>4. QED
      BY Zenon, <2>2, <3>1, <3>3, OneRequest
  <2>5. QED
    BY Zenon, <1>2, <1>6, <2>3, <2>4 DEF ResetTrafficStmt
<1>7. CASE RenewResetStmt(c)
  <2>1. /\ row'.expires = row.expires /\ granted' = granted
        /\ req[c].pc = "renewReset"
    BY Zenon, <1>3, <1>4, <1>7, StatementFacts DEF RenewResetStmt
  <2>2. TimeIsPaidFor' /\ granted <= granted'
    BY Zenon, <1>1, <1>4, <2>1 DEF TimeIsPaidFor
  <2>3. PICK a \in Rows : /\ a = Reactivated(r) /\ a.expires = r.expires
                          /\ r.status = "disabled" => a.status = "disabled"
    BY Zenon, ReactivatedFacts
  <2>4. GoTo(c, "write", a)
    BY Zenon, <1>2, <1>7, <2>3 DEF RenewResetStmt
  <2>5. /\ req'[c].pc = "write" /\ req'[c].row = a
        /\ req'[c].ask = req[c].ask /\ req'[c].read = req[c].read
        /\ \A d \in Clients : d # c => req'[d] = req[d]
    BY Zenon, <1>3, <2>4, GoToFacts DEF Steps
  <2>6. Fits(req'[c], granted')
    BY ZenonT(40), <1>1, <1>2, <2>1, <2>3, <2>5 DEF Fits
  <2>7. QED
    BY Zenon, <2>2, <2>5, <2>6, OneRequest
<1>8. CASE UpdateUser(c)
  <2>1. CASE ~PlanFound(c)
    <3>1. UNCHANGED <<row, granted>> /\ Done(c)
      BY Zenon, <1>8, <2>1 DEF UpdateUser
    <3>2. QED
      BY Zenon, <1>1, <1>4, <3>1, EndInv DEF TimeIsPaidFor
  <2>2. CASE PlanFound(c)
    <3>1. /\ req[c].pc = "write" /\ row' = [r EXCEPT !.used = row.used]
          /\ granted' = Grants(granted, k) /\ Done(c)
      BY Zenon, <1>2, <1>8, <2>2 DEF UpdateUser, GrantedWith, Grants
    <3>2. row'.expires = r.expires
      BY Zenon, <1>3, <3>1, StatementFacts
    <3>3. TimeIsPaidFor'
      BY Zenon, <1>1, <1>2, <3>1, <3>2 DEF Fits, TimeIsPaidFor
    <3>4. granted <= granted'
      BY Zenon, <1>3, <3>1, GrantsFacts
    <3>5. QED
      BY Zenon, <3>1, <3>3, <3>4, EndInv
  <2>3. QED
    BY Zenon, <2>1, <2>2
<1>9. CASE CutShort(c)
  BY Zenon, <1>1, <1>4, <1>9, EndInv DEF CutShort, TimeIsPaidFor
<1>10. QED
  BY Zenon, <1>5, <1>6, <1>7, <1>8, <1>9 DEF RequestStep

\* The loops, the clock and the plans change the row under the requests in
\* progress without touching the expiry.
LEMMA OtherInv ==
    ASSUME LifecycleInv, TypeOK', UNCHANGED <<req, granted>>, row'.expires = row.expires
    PROVE  LifecycleInv'
BY Zenon DEF LifecycleInv, TimeIsPaidFor, KeepsDisabled, KeepsExpiry, GrantedWith

\* What the steps that are not of requests do to the row.
LEMMA OtherFacts ==
    ASSUME TypeOK, \/ ExpireDueUsers \/ \E d \in {0, 1} : Collect(d)
                   \/ Tick \/ DeletePlan
                   \/ \E l \in Limits \union {Null} : UpdatePlan(l)
    PROVE  /\ row'.expires = row.expires /\ UNCHANGED <<req, granted>>
           /\ row.status # "active" => row'.status = row.status
<1>1. CASE ExpireDueUsers \/ \E d \in {0, 1} : Collect(d)
  BY Zenon, <1>1, BackgroundFacts
<1>2. CASE Tick \/ \E l \in Limits \union {Null} : UpdatePlan(l)
  BY Zenon, <1>2 DEF Tick, UpdatePlan
<1>3. CASE DeletePlan
  BY Zenon, <1>3, Typed, StatementFacts DEF DeletePlan
<1>4. QED
  BY Zenon, <1>1, <1>2, <1>3

\* Every step keeps the invariant, requests that overlap included.
LEMMA LifecycleStep ==
    ASSUME LifecycleInv, [Next]_vars
    PROVE  LifecycleInv'
<1>1. TypeOK /\ TypeOK'
  BY Zenon, TypeStep, InvParts
<1>2. CASE UNCHANGED vars
  BY Zenon, <1>1, <1>2, OtherInv DEF vars
<1>3. CASE \E c \in Clients : Request(c) \/ RequestStep(c)
  BY Zenon, <1>1, <1>3, RequestInv, RequestStepInv
<1>4. CASE \/ ExpireDueUsers \/ \E d \in {0, 1} : Collect(d)
           \/ Tick \/ DeletePlan
           \/ \E l \in Limits \union {Null} : UpdatePlan(l)
  BY Zenon, <1>1, <1>4, OtherFacts, OtherInv
<1>5. QED
  BY Zenon, <1>2, <1>3, <1>4 DEF Next

\* A user as Create leaves it, and no request in progress.
LEMMA LifecycleStart == Init => LifecycleInv
<1> SUFFICES ASSUME Init PROVE LifecycleInv
  BY Zenon
<1>1. TypeOK /\ now \in 0..MaxTime
  BY Zenon, TypeInit, Typed
<1>2. \A c \in Clients : req[c].pc = "idle"
  BY Zenon, <1>1, IdleFacts DEF Init
<1>3. TimeIsPaidFor
  <2>1. PICK t \in {"active", "disabled"}, e \in Expiries \union {Null}, l \in Limits \union {Null} :
          row = UserRow(t, e, l, 0, TRUE) /\ granted = IF e = Null THEN 0 ELSE e
    BY Zenon DEF Init
  <2>2. row.expires = e
    BY Zenon, <2>1 DEF UserRow
  <2>3. QED
    <3>1. e # Null => e \in Nat /\ granted = e
      BY Zenon, <2>1, LifecycleAssumption
    <3>2. e # Null => e <= granted
      BY <3>1
    <3>3. QED
      BY Zenon, <2>2, <3>2 DEF TimeIsPaidFor
<1>4. QED
  BY Zenon, <1>1, <1>2, <1>3 DEF LifecycleInv, KeepsDisabled, KeepsExpiry

\* What the requests in progress are about to write, as compared with what they
\* read and with what is granted, for any number of overlapping requests.
THEOREM LifecycleInvariance == Spec => []LifecycleInv
BY LifecycleStart, LifecycleStep, PTL DEF Spec

\* However requests overlap, no user has an expiry beyond what the committed
\* renewals and updates entitle to.
THEOREM NoUnpaidTime == Spec => []TimeIsPaidFor
<1>1. LifecycleInv => TimeIsPaidFor
  BY Zenon DEF LifecycleInv
<1>2. QED
  BY <1>1, LifecycleInvariance, PTL

\* However requests overlap, a user the admin disabled is enabled only by a
\* request that asks for another status, or by one that had read the row before.
THEOREM DisabledStaysDisabled == Spec => DisabledUntilAsked
<1> DEFINE Enabler(c) ==
        /\ RequestStep(c)
        /\ \/ req[c].ask.status \notin {Keep, "disabled"}
           \/ req[c].ask.status = Keep /\ req[c].read.status # "disabled"
    Held == row.status = "disabled" /\ row'.status # "disabled"
              => \E c \in Clients : Enabler(c)
<1>1. LifecycleInv /\ [Next]_vars => [Held]_vars
  <2> SUFFICES ASSUME LifecycleInv, Next, row.status = "disabled", row'.status # "disabled"
               PROVE  \E c \in Clients : Enabler(c)
    BY Zenon
  <2>1. TypeOK /\ row \in Rows /\ 0 \in Nat /\ Keep # "active"
    <3>1. Keep # "active"
      BY Zenon, LifecycleAssumption DEF Statuses
    <3>2. QED
      BY <3>1, InvParts, Typed
  <2>2. ~(\/ ExpireDueUsers \/ \E d \in {0, 1} : Collect(d)
          \/ Tick \/ DeletePlan
          \/ \E l \in Limits \union {Null} : UpdatePlan(l))
    BY Zenon, <2>1, OtherFacts
  <2>3. ASSUME NEW c \in Clients, Request(c) PROVE FALSE
    <3>1. row' = row \/ row' = [row EXCEPT !.status = "disabled"]
      BY Zenon, <2>3 DEF Request, Suspend, Resume, ResetTraffic, RotateSubToken, Update, Renew
    <3>2. [row EXCEPT !.status = "disabled"].status = "disabled"
      BY Zenon, <2>1, StatementFacts DEF Statuses
    <3>3. QED
      BY Zenon, <3>1, <3>2
  <2>4. PICK c \in Clients : RequestStep(c)
    BY Zenon, <2>2, <2>3 DEF Next
  <2>5. Fits(req[c], granted) /\ req[c].row \in Rows /\ row.used \in Nat
    BY Zenon, <2>1, InvParts, Typed DEF Rows
  <2>6. CASE SetUserStatus(c)
    BY Zenon, <2>1, <2>4, <2>5, <2>6 DEF SetUserStatus, Fits
  <2>7. CASE ResetTrafficStmt(c) \/ RenewResetStmt(c) \/ CutShort(c)
    <3>1. row' = row \/ row' = [row EXCEPT !.used = 0]
      BY Zenon, <2>7 DEF ResetTrafficStmt, RenewResetStmt, CutShort
    <3>2. [row EXCEPT !.used = 0].status = row.status
      BY Zenon, <2>1, StatementFacts
    <3>3. QED
      BY Zenon, <3>1, <3>2
  <2>8. CASE UpdateUser(c)
    <3>1. req[c].pc = "write" /\ row' = [req[c].row EXCEPT !.used = row.used]
      <4>1. row' # row
        BY Zenon
      <4>2. QED
        BY Zenon, <2>8, <4>1 DEF UpdateUser
    <3>2. req[c].row.status # "disabled"
      BY Zenon, <2>5, <3>1, StatementFacts
    <3>3. QED
      BY Zenon, <2>4, <2>5, <3>1, <3>2 DEF Fits
  <2>9. QED
    BY Zenon, <2>4, <2>6, <2>7, <2>8 DEF RequestStep
<1>2. QED
  BY <1>1, LifecycleInvariance, PTL DEF Spec, DisabledUntilAsked

\* However requests overlap, no renewal, rotation or update without an expiry
\* takes away time that was there when it read the row.
THEOREM RenewalsKeepTime == Spec => OnlyOverlapShortens
<1> DEFINE Shortener(c) ==
        /\ UpdateUser(c)
        /\ req[c].ask.expires # Keep \/ req[c].read.expires # row.expires
    Kept == row.expires # Null /\ row'.expires # Null /\ row'.expires < row.expires
              => \E c \in Clients : Shortener(c)
<1>1. LifecycleInv /\ [Next]_vars => [Kept]_vars
  <2> SUFFICES ASSUME LifecycleInv, Next, row.expires # Null, row'.expires # Null,
                      row'.expires < row.expires
               PROVE  \E c \in Clients : Shortener(c)
    BY Zenon
  <2>1. TypeOK /\ row \in Rows /\ 0 \in Nat
    BY InvParts, Typed
  <2>2. row.expires \in Nat /\ ~(row.expires < row.expires)
    <3>1. row.expires \in Nat
      BY Zenon, <2>1 DEF Rows
    <3>2. QED
      BY <3>1
  <2>3. row'.expires # row.expires
    BY Zenon, <2>2
  <2>4. ~(\/ ExpireDueUsers \/ \E d \in {0, 1} : Collect(d)
          \/ Tick \/ DeletePlan
          \/ \E l \in Limits \union {Null} : UpdatePlan(l))
    BY Zenon, <2>1, <2>3, OtherFacts
  <2>5. ASSUME NEW s \in Statuses
        PROVE  [row EXCEPT !.status = s].expires = row.expires /\ [row EXCEPT !.used = 0].expires = row.expires
    BY Zenon, <2>1, StatementFacts
  <2>6. "active" \in Statuses /\ "disabled" \in Statuses
    BY Zenon DEF Statuses
  <2>7. ASSUME NEW c \in Clients, Request(c) PROVE FALSE
    <3>1. row' = row \/ row' = [row EXCEPT !.status = "disabled"]
      BY Zenon, <2>7 DEF Request, Suspend, Resume, ResetTraffic, RotateSubToken, Update, Renew
    <3>2. QED
      BY Zenon, <2>3, <2>5, <2>6, <3>1
  <2>8. PICK c \in Clients : RequestStep(c)
    BY Zenon, <2>4, <2>7 DEF Next
  <2>9. UpdateUser(c)
    <3>1. CASE SetUserStatus(c) \/ ResetTrafficStmt(c) \/ RenewResetStmt(c) \/ CutShort(c)
      <4>1. \/ row' = row \/ row' = [row EXCEPT !.status = "active"]
            \/ row' = [row EXCEPT !.used = 0]
        BY Zenon, <3>1 DEF SetUserStatus, ResetTrafficStmt, RenewResetStmt, CutShort
      <4>2. QED
        BY Zenon, <2>3, <2>5, <2>6, <4>1
    <3>2. QED
      BY Zenon, <2>8, <3>1 DEF RequestStep
  <2>10. req[c].pc = "write" /\ row' = [req[c].row EXCEPT !.used = row.used]
    BY Zenon, <2>3, <2>9 DEF UpdateUser
  <2>11. row'.expires = req[c].row.expires /\ req[c].row.expires \in Nat
    <3>1. req[c].row \in Rows /\ row.used \in Nat
      BY Zenon, <2>1, Typed DEF Rows
    <3>2. row'.expires = req[c].row.expires
      BY Zenon, <2>10, <3>1, StatementFacts
    <3>3. QED
      BY Zenon, <3>1, <3>2 DEF Rows
  <2>12. ASSUME req[c].ask.expires = Keep, req[c].read.expires = row.expires PROVE FALSE
    <3>1. req[c].row.expires >= row.expires
      BY Zenon, <2>10, <2>12, InvParts DEF Fits
    <3>2. QED
      BY <2>2, <2>11, <3>1
  <2>13. QED
    BY Zenon, <2>9, <2>12
<1>2. QED
  BY <1>1, LifecycleInvariance, PTL DEF Spec, OnlyOverlapShortens

-----------------------------------------------------------------------------
(***************************************************************************)
(* Metering: operators.                                                    *)
(***************************************************************************)

\* What Plus computes.
LEMMA PlusFacts ==
    ASSUME NEW f \in Bytes, NEW n \in Nodes, NEW x \in [Emails -> Nat], NEW S
    PROVE  /\ Plus(f, n, x, S) \in Bytes
           /\ \A m \in Nodes, e \in Emails :
                Plus(f, n, x, S)[m][e] =
                    IF m = n /\ e \in S THEN f[m][e] + x[e] ELSE f[m][e]
BY DEF Plus, Bytes

\* What emptying the bytes of one node computes.
LEMMA ZeroFacts ==
    ASSUME NEW f \in Bytes, NEW n \in Nodes
    PROVE  /\ [f EXCEPT ![n] = Zero] \in Bytes
           /\ \A m \in Nodes, e \in Emails :
                [f EXCEPT ![n] = Zero][m][e] = IF m = n THEN 0 ELSE f[m][e]
BY Zenon DEF Bytes, Zero

\* The bytes of one node, and what a transaction would add, are natural numbers.
LEMMA DeltaFacts ==
    ASSUME MeterTypeOK, NEW n \in Nodes
    PROVE  /\ counter[n] \in [Emails -> Nat]
           /\ pending[n] \in [Emails -> Nat]
           /\ \A u \in Users : Delta(n, u) \in Nat
BY MeteringAssumption DEF MeterTypeOK, Bytes, Delta

\* The resolved ids are users.
LEMMA FoundFacts ==
    ASSUME NEW e \in Emails
    PROVE  (IF Found(e) = {} THEN None ELSE CHOOSE u \in Found(e) : TRUE)
              \in Users \union {None}
<1>1. Found(e) \subseteq Users
  BY Zenon DEF Found
<1>2. CASE Found(e) = {}
  BY Zenon, <1>2
<1>3. CASE Found(e) # {}
  <2>1. (CHOOSE u \in Found(e) : TRUE) \in Found(e)
    BY Zenon, <1>3
  <2>2. QED
    BY Zenon, <1>1, <1>3, <2>1
<1>4. QED
  BY Zenon, <1>2, <1>3

-----------------------------------------------------------------------------
(***************************************************************************)
(* Metering: type correctness.                                             *)
(***************************************************************************)

\* A committing transaction keeps the types.
LEMMA CommitType ==
    ASSUME MeterTypeOK, NEW n \in Nodes, Commit(n)
    PROVE  /\ snap' \in [Nodes -> [Users -> Nat]]
           /\ used' \in [Users -> Nat]
           /\ credited' \in Bytes
<1>1. \A u \in Users : Delta(n, u) \in Nat
  BY Zenon, DeltaFacts
<1>2. snap[n] \in [Users -> Nat] /\ used \in [Users -> Nat]
  BY Zenon DEF MeterTypeOK
<1>3. [u \in Users |-> snap[n][u] + Delta(n, u)] \in [Users -> Nat]
  BY <1>1, <1>2
<1>4. [u \in Users |-> used[u] + Delta(n, u)] \in [Users -> Nat]
  BY <1>1, <1>2
<1>5. Plus(credited, n, pending[n], Known(n)) \in Bytes
  BY Zenon, PlusFacts, DeltaFacts DEF MeterTypeOK
<1>6. QED
  BY Zenon, <1>3, <1>4, <1>5 DEF Commit, MeterTypeOK

\* Every step keeps the types.
LEMMA MeterTypeStep == MeterTypeOK /\ [MeterNext]_meterVars => MeterTypeOK'
<1> SUFFICES ASSUME MeterTypeOK, [MeterNext]_meterVars PROVE MeterTypeOK'
  BY Zenon
<1>1. CASE UserStep
  <2>1. PICK u \in Users : CreateUser(u) \/ DeleteUser(u) \/ StoreResetTraffic(u)
    BY Zenon, <1>1 DEF UserStep
  <2>2. CASE CreateUser(u) \/ DeleteUser(u)
    BY Zenon, <2>2 DEF CreateUser, DeleteUser, MeterTypeOK, meterHistory
  <2>3. CASE StoreResetTraffic(u)
    BY <2>3, MeteringAssumption DEF StoreResetTraffic, MeterTypeOK, meterHistory
  <2>4. QED
    BY Zenon, <2>1, <2>2, <2>3
<1>2. ASSUME NEW n \in Nodes, NEW e \in Emails, Traffic(n, e) PROVE MeterTypeOK'
  BY <1>2 DEF Traffic, MeterTypeOK, Bytes, userVars
<1>3. ASSUME NEW n \in Nodes, CollectStep(n) PROVE MeterTypeOK'
  <2>1. CASE QueryUserTraffic(n)
    BY ZenonT(40), <2>1, ZeroFacts, PlusFacts, DeltaFacts
       DEF QueryUserTraffic, Merged, MeterTypeOK, userVars, meterHistory
  <2>2. CASE UserIDsByEmail(n)
    <3>1. [e \in Emails |-> IF Found(e) = {} THEN None ELSE CHOOSE u \in Found(e) : TRUE]
            \in [Emails -> Users \union {None}]
      BY Zenon, FoundFacts
    <3>2. QED
      BY Zenon, <2>2, <3>1 DEF UserIDsByEmail, MeterTypeOK, userVars, meterHistory
  <2>3. CASE ApplyTrafficDeltas(n)
    <3>1. CASE Insertable(n)
      <4>1. Plus(dropped, n, pending[n], Emails \ Known(n)) \in Bytes
        <5>1. dropped \in Bytes /\ pending[n] \in [Emails -> Nat]
          BY Zenon, DeltaFacts DEF MeterTypeOK
        <5>2. QED
          BY Zenon, <5>1, PlusFacts
      <4>2. [pending EXCEPT ![n] = Zero] \in Bytes
        BY Zenon, ZeroFacts DEF MeterTypeOK
      <4>3. QED
        BY Zenon, <2>3, <3>1, <4>1, <4>2, CommitType DEF ApplyTrafficDeltas, MeterTypeOK
    <3>2. CASE ~Insertable(n)
      BY Zenon, <2>3, <3>2 DEF ApplyTrafficDeltas, MeterTypeOK
    <3>3. QED
      BY Zenon, <3>1, <3>2
  <2>4. QED
    BY Zenon, <1>3, <2>1, <2>2, <2>3 DEF CollectStep
<1>4. ASSUME NEW n \in Nodes, FaultStep(n) PROVE MeterTypeOK'
  <2>0. Fault => failures' \in 0..MaxFailures
    BY MeteringAssumption DEF Fault, MeterTypeOK
  <2>1. CASE QueryReplyLost(n) \/ NodeRestart(n)
    <3>1. /\ Plus(lost, n, counter[n], Emails) \in Bytes
          /\ Plus(wiped, n, counter[n], Emails) \in Bytes
      BY Zenon, DeltaFacts, PlusFacts DEF MeterTypeOK
    <3>2. [counter EXCEPT ![n] = Zero] \in Bytes
      BY Zenon, ZeroFacts DEF MeterTypeOK
    <3>3. QED
      BY Zenon, <2>0, <2>1, <3>1, <3>2 DEF QueryReplyLost, NodeRestart, MeterTypeOK, userVars
  <2>2. CASE DatabaseFails(n)
    BY Zenon, <2>0, <2>2 DEF DatabaseFails, MeterTypeOK, userVars, meterHistory
  <2>3. CASE CommitReplyLost(n)
    BY Zenon, <2>0, <2>3, CommitType, PlusFacts, DeltaFacts DEF CommitReplyLost, MeterTypeOK
  <2>4. CASE ActorRestart(n)
    BY ZenonT(40), <2>0, <2>4, ZeroFacts, PlusFacts, DeltaFacts
       DEF ActorRestart, MeterTypeOK, userVars, Unresolved
  <2>5. QED
    BY Zenon, <1>4, <2>1, <2>2, <2>3, <2>4 DEF FaultStep
<1>5. CASE UNCHANGED meterVars
  BY Zenon, <1>5 DEF meterVars, userVars, meterHistory, MeterTypeOK
<1>6. QED
  BY Zenon, <1>1, <1>2, <1>3, <1>4, <1>5 DEF MeterNext

-----------------------------------------------------------------------------
(***************************************************************************)
(* Conservation.                                                           *)
(***************************************************************************)

\* Every step moves bytes between the places of the equation, or adds the
\* same amount on both sides.
LEMMA ConservationStep == MeterTypeOK /\ Conservation /\ [MeterNext]_meterVars => Conservation'
<1> SUFFICES ASSUME MeterTypeOK, Conservation, [MeterNext]_meterVars,
                    NEW m \in Nodes, NEW f \in Emails
             PROVE  (generated[m][f] + again[m][f] =
                       counter[m][f] + pending[m][f] + credited[m][f]
                         + lost[m][f] + wiped[m][f] + dropped[m][f])'
  BY Zenon DEF Conservation
<1>0. /\ generated[m][f] + again[m][f] =
           counter[m][f] + pending[m][f] + credited[m][f]
             + lost[m][f] + wiped[m][f] + dropped[m][f]
      /\ generated[m][f] \in Nat /\ again[m][f] \in Nat /\ counter[m][f] \in Nat
      /\ pending[m][f] \in Nat /\ credited[m][f] \in Nat /\ lost[m][f] \in Nat
      /\ wiped[m][f] \in Nat /\ dropped[m][f] \in Nat
  BY Zenon DEF Conservation, MeterTypeOK, Bytes
<1>1. CASE UserStep
  BY Zenon, <1>0, <1>1 DEF UserStep, CreateUser, DeleteUser, StoreResetTraffic, meterHistory
<1>2. ASSUME NEW n \in Nodes, NEW e \in Emails, Traffic(n, e)
      PROVE  (generated[m][f] + again[m][f] =
                counter[m][f] + pending[m][f] + credited[m][f]
                  + lost[m][f] + wiped[m][f] + dropped[m][f])'
  <2>1. /\ generated'[m][f] = IF m = n /\ f = e THEN generated[m][f] + 1 ELSE generated[m][f]
        /\ counter'[m][f] = IF m = n /\ f = e THEN counter[m][f] + 1 ELSE counter[m][f]
    BY Zenon, <1>2 DEF Traffic, MeterTypeOK, Bytes
  <2>2. UNCHANGED <<credited, again, lost, wiped, dropped, pending>>
    BY Zenon, <1>2 DEF Traffic
  <2>3. QED
    BY <1>0, <2>1, <2>2
<1>3. ASSUME NEW n \in Nodes, CollectStep(n) \/ FaultStep(n)
      PROVE  (generated[m][f] + again[m][f] =
                counter[m][f] + pending[m][f] + credited[m][f]
                  + lost[m][f] + wiped[m][f] + dropped[m][f])'
  <2>1. CASE QueryUserTraffic(n)
    <3>1. /\ counter'[m][f] = IF m = n THEN 0 ELSE counter[m][f]
          /\ pending'[m][f] = IF m = n THEN pending[m][f] + counter[n][f] ELSE pending[m][f]
      BY Zenon, <2>1 DEF QueryUserTraffic, Merged, Plus, Zero, MeterTypeOK, Bytes
    <3>2. QED
      BY <1>0, <2>1, <3>1 DEF QueryUserTraffic, meterHistory
  <2>2. CASE UserIDsByEmail(n) \/ DatabaseFails(n)
    BY Zenon, <1>0, <2>2 DEF UserIDsByEmail, DatabaseFails, meterHistory
  <2>3. CASE ApplyTrafficDeltas(n) /\ Insertable(n)
    <3>1. /\ pending'[m][f] = IF m = n THEN 0 ELSE pending[m][f]
          /\ credited'[m][f] = IF m = n /\ f \in Known(n) THEN credited[m][f] + pending[n][f]
                               ELSE credited[m][f]
          /\ dropped'[m][f] = IF m = n /\ f \in Emails \ Known(n)
                              THEN dropped[m][f] + pending[n][f] ELSE dropped[m][f]
      BY <2>3 DEF ApplyTrafficDeltas, Commit, Plus, Zero, MeterTypeOK, Bytes
    <3>2. QED
      BY <1>0, <2>3, <3>1 DEF ApplyTrafficDeltas
  <2>4. CASE ApplyTrafficDeltas(n) /\ ~Insertable(n)
    BY Zenon, <1>0, <2>4 DEF ApplyTrafficDeltas
  <2>5. CASE QueryReplyLost(n)
    <3>1. /\ counter'[m][f] = IF m = n THEN 0 ELSE counter[m][f]
          /\ lost'[m][f] = IF m = n THEN lost[m][f] + counter[n][f] ELSE lost[m][f]
      BY Zenon, <2>5 DEF QueryReplyLost, Plus, Zero, MeterTypeOK, Bytes
    <3>2. QED
      BY <1>0, <2>5, <3>1 DEF QueryReplyLost
  <2>6. CASE NodeRestart(n)
    <3>1. /\ counter'[m][f] = IF m = n THEN 0 ELSE counter[m][f]
          /\ wiped'[m][f] = IF m = n THEN wiped[m][f] + counter[n][f] ELSE wiped[m][f]
      BY Zenon, <2>6 DEF NodeRestart, Plus, Zero, MeterTypeOK, Bytes
    <3>2. QED
      BY <1>0, <2>6, <3>1 DEF NodeRestart
  <2>7. CASE ActorRestart(n)
    <3>1. /\ pending'[m][f] = IF m = n THEN 0 ELSE pending[m][f]
          /\ wiped'[m][f] = IF m = n THEN wiped[m][f] + pending[n][f] ELSE wiped[m][f]
      BY Zenon, <2>7 DEF ActorRestart, Plus, Zero, MeterTypeOK, Bytes
    <3>2. QED
      BY <1>0, <2>7, <3>1 DEF ActorRestart
  <2>8. CASE CommitReplyLost(n)
    <3>1. /\ credited'[m][f] = IF m = n /\ f \in Known(n) THEN credited[m][f] + pending[n][f]
                               ELSE credited[m][f]
          /\ again'[m][f] = IF m = n /\ f \in Known(n) THEN again[m][f] + pending[n][f]
                            ELSE again[m][f]
      BY Zenon, <2>8 DEF CommitReplyLost, Commit, Plus, MeterTypeOK, Bytes
    <3>2. QED
      BY <1>0, <2>8, <3>1 DEF CommitReplyLost
  <2>9. QED
    BY Zenon, <1>3, <2>1, <2>2, <2>3, <2>4, <2>5, <2>6, <2>7, <2>8 DEF CollectStep, FaultStep
<1>4. CASE UNCHANGED meterVars
  BY Zenon, <1>0, <1>4 DEF meterVars, meterHistory
<1>5. QED
  BY Zenon, <1>1, <1>2, <1>3, <1>4 DEF MeterNext

-----------------------------------------------------------------------------
\* The state stays within its types: no counter or total becomes negative.
THEOREM MeterTypes == MeterSpec => []MeterTypeOK
<1>1. MeterInit => MeterTypeOK
  BY MeteringAssumption DEF MeterInit, MeterTypeOK, Bytes, Zero, Unresolved
<1>2. QED
  BY <1>1, MeterTypeStep, PTL DEF MeterSpec

\* No byte that a node has counted disappears, or counts twice, but for the
\* recorded reasons: the collector's reset, merge, retry and clear lose
\* nothing in any interleaving with users, database errors and restarts.
THEOREM BytesConserved == MeterSpec => []Conservation
<1>1. MeterInit => Conservation
  BY DEF MeterInit, Conservation, Zero
<1>2. QED
  BY <1>1, MeterTypes, ConservationStep, PTL DEF MeterSpec

-----------------------------------------------------------------------------
(***************************************************************************)
(* Sums over finite sets.  MapThenSumSet takes its elements in an order    *)
(* that CHOOSE fixes; what it computes is a table of sums over all subsets. *)
(* Facts about it are proved by induction on the set: among the subsets    *)
(* that violate a fact there would be a minimal one.                       *)
(***************************************************************************)

\* The element that is added next.
Any(s) == CHOOSE x \in s : TRUE

\* h holds the sums of g over the subsets of S, as MapThenSumSet computes them.
SumsUp(h, g, S) ==
    h = [s \in SUBSET S |-> IF s = {} THEN 0 ELSE g[Any(s)] + h[s \ {Any(s)}]]

Sums(g, S) == CHOOSE h : SumsUp(h, g, S)

Sum(g, S) == Sums(g, S)[S]

\* Among sets of elements of a finite set one is minimal.
LEMMA MinimalSet ==
    ASSUME NEW S, IsFiniteSet(S), NEW B, B \subseteq SUBSET S, B # {}
    PROVE  \E x \in B : \A y \in B : y \subseteq x => y = x
<1>1. B \subseteq FiniteSubsetsOf(S)
  BY Zenon, FS_Subset DEF FiniteSubsetsOf
<1>2. IsWellFoundedOn(StrictSubsetOrdering(S), FiniteSubsetsOf(S))
  BY Zenon, FS_StrictSubsetOrderingWellFounded
<1>3. PICK x \in B : \A y \in B : ~(<<y, x>> \in StrictSubsetOrdering(S))
  BY Zenon, <1>1, <1>2, WFMin
<1>4. ASSUME NEW y \in B, y \subseteq x, y # x PROVE FALSE
  BY Zenon, <1>3, <1>4 DEF StrictSubsetOrdering
<1>5. QED
  BY Zenon, <1>4

\* The element that is summed next.
LEMMA AnyFacts ==
    ASSUME NEW s, s # {}
    PROVE  /\ Any(s) \in s
           /\ s \ {Any(s)} \subseteq s /\ s \ {Any(s)} # s
BY Zenon DEF Any

\* Two tables of sums agree where both are defined.
LEMMA SumsAgree ==
    ASSUME NEW S, IsFiniteSet(S), NEW T \in SUBSET S, NEW g, NEW h, NEW k,
           SumsUp(h, g, S), SumsUp(k, g, T)
    PROVE  \A s \in SUBSET T : h[s] = k[s]
<1> DEFINE B == {s \in SUBSET T : h[s] # k[s]}
<1> SUFFICES ASSUME B # {} PROVE FALSE
  BY Zenon
<1>1. B \subseteq SUBSET S
  BY Zenon
<1>2. PICK s \in B : \A y \in B : y \subseteq s => y = s
  <2> HIDE DEF B
  <2>1. QED
    BY <1>1, MinimalSet
<1>3. s \in SUBSET T /\ s \in SUBSET S /\ h[s] # k[s]
  BY Zenon, <1>1
<1>4. CASE s = {}
  <2>1. h[s] = 0 /\ k[s] = 0
    BY Zenon, <1>3, <1>4 DEF SumsUp
  <2>2. QED
    BY Zenon, <1>3, <2>1
<1>5. CASE s # {}
  <2>1. h[s] = g[Any(s)] + h[s \ {Any(s)}] /\ k[s] = g[Any(s)] + k[s \ {Any(s)}]
    BY Zenon, <1>3, <1>5 DEF SumsUp
  <2>2. s \ {Any(s)} \in SUBSET T /\ s \ {Any(s)} \notin B
    BY Zenon, <1>2, <1>3, <1>5, AnyFacts
  <2>3. h[s \ {Any(s)}] = k[s \ {Any(s)}]
    BY Zenon, <2>2
  <2>4. QED
    BY Zenon, <1>3, <2>1, <2>3
<1>6. QED
  BY Zenon, <1>4, <1>5

\* The recursion of MapThenSumSet defines a table of sums.
LEMMA SumsExist ==
    ASSUME NEW S, IsFiniteSet(S), NEW g
    PROVE  \A T \in SUBSET S : SumsUp(Sums(g, T), g, T)
<1> DEFINE B == {T \in SUBSET S : ~\E h : SumsUp(h, g, T)}
<1>1. ASSUME B # {} PROVE FALSE
  <2>1. PICK T \in B : \A y \in B : y \subseteq T => y = T
    <3>1. B \subseteq SUBSET S
      BY Zenon
    <3> HIDE DEF B
    <3>2. QED
      BY <1>1, <3>1, MinimalSet
  <2>2. \A t \in SUBSET T : t # T => SumsUp(Sums(g, t), g, t)
    <3>1. ASSUME NEW t \in SUBSET T, t # T PROVE \E h : SumsUp(h, g, t)
      BY Zenon, <2>1, <3>1
    <3>2. QED
      BY Zenon, <3>1 DEF Sums
  <2>3. IsFiniteSet(T)
    BY Zenon, FS_Subset
  <2> DEFINE h == [s \in SUBSET T |-> IF s = {} THEN 0
                                      ELSE g[Any(s)] + Sum(g, s \ {Any(s)})]
  <2>4. ASSUME NEW r \in SUBSET T, r # T PROVE h[r] = Sum(g, r)
    <3>1. SumsUp(Sums(g, r), g, r)
      BY Zenon, <2>2, <2>4
    <3>2. CASE r = {}
      <4>1. h[r] = 0
        BY Zenon, <3>2
      <4>2. Sums(g, r)[r] = 0
        BY Zenon, <3>1, <3>2 DEF SumsUp
      <4>3. QED
        BY Zenon, <4>1, <4>2 DEF Sum
    <3>3. CASE r # {}
      <4> DEFINE q == r \ {Any(r)}
      <4>1. q \in SUBSET r /\ q \in SUBSET T /\ q # T
        BY Zenon, <2>4, <3>3, AnyFacts
      <4>2. h[r] = g[Any(r)] + Sum(g, q)
        BY Zenon, <3>3
      <4>3. Sums(g, r)[r] = g[Any(r)] + Sums(g, r)[q]
        BY Zenon, <3>1, <3>3 DEF SumsUp
      <4>4. IsFiniteSet(r)
        BY Zenon, <2>3, FS_Subset
      <4>5. SumsUp(Sums(g, q), g, q)
        BY Zenon, <2>2, <4>1
      <4> HIDE DEF q
      <4>6. \A s \in SUBSET q : Sums(g, r)[s] = Sums(g, q)[s]
        BY <3>1, <4>1, <4>4, <4>5, SumsAgree
      <4>7. QED
        BY Zenon, <4>2, <4>3, <4>6 DEF Sum
    <3>4. QED
      BY Zenon, <3>2, <3>3
  <2>5. ASSUME NEW s \in SUBSET T, s # {} PROVE h[s \ {Any(s)}] = Sum(g, s \ {Any(s)})
    <3>1. s \ {Any(s)} \in SUBSET T /\ s \ {Any(s)} # T
      BY Zenon, <2>5, AnyFacts
    <3>2. QED
      BY Zenon, <2>4, <3>1
  <2>6. SumsUp(h, g, T)
    <3>1. \A s \in SUBSET T : h[s] = IF s = {} THEN 0 ELSE g[Any(s)] + h[s \ {Any(s)}]
      <4> SUFFICES ASSUME NEW s \in SUBSET T, s # {}
                   PROVE  h[s] = g[Any(s)] + h[s \ {Any(s)}]
        BY Zenon
      <4>1. h[s] = g[Any(s)] + Sum(g, s \ {Any(s)})
        BY Zenon
      <4> HIDE DEF h
      <4>2. QED
        BY Zenon, <2>5, <4>1
    <3>2. h = [s \in SUBSET T |-> h[s]]
      BY Zenon
    <3> HIDE DEF h
    <3>3. QED
      BY Zenon, <3>1, <3>2 DEF SumsUp
  <2>7. QED
    BY Zenon, <2>6
<1>2. QED
  BY Zenon, <1>1 DEF Sums

\* The sum over the empty set, and over a set less one of its elements.
LEMMA SumUnfolds ==
    ASSUME NEW S, IsFiniteSet(S), NEW g
    PROVE  /\ S = {} => Sum(g, S) = 0
           /\ S # {} => Sum(g, S) = g[Any(S)] + Sum(g, S \ {Any(S)})
<1>1. \A T \in SUBSET S : SumsUp(Sums(g, T), g, T)
  BY Zenon, SumsExist
<1>2. SumsUp(Sums(g, S), g, S)
  BY Zenon, <1>1
<1>3. ASSUME S = {} PROVE Sums(g, S)[S] = 0
  BY Zenon, <1>2, <1>3 DEF SumsUp
<1>4. ASSUME S # {} PROVE Sum(g, S) = g[Any(S)] + Sum(g, S \ {Any(S)})
  <2> DEFINE q == S \ {Any(S)}
  <2>1. q \in SUBSET S
    BY Zenon
  <2>2. Sums(g, S)[S] = g[Any(S)] + Sums(g, S)[q]
    BY Zenon, <1>2, <1>4 DEF SumsUp
  <2> HIDE DEF q
  <2>3. \A s \in SUBSET q : Sums(g, S)[s] = Sums(g, q)[s]
    BY <1>1, <1>2, <2>1, SumsAgree
  <2>4. QED
    BY Zenon, <2>2, <2>3 DEF Sum, q
<1>5. QED
  BY Zenon, <1>3, <1>4 DEF Sum

\* Sums of natural numbers are natural numbers.
LEMMA SumType ==
    ASSUME NEW S, IsFiniteSet(S), NEW g, \A x \in S : g[x] \in Nat
    PROVE  Sum(g, S) \in Nat
<1> DEFINE B == {T \in SUBSET S : Sum(g, T) \notin Nat}
<1>1. ASSUME B # {} PROVE FALSE
  <2>1. PICK T \in B : \A y \in B : y \subseteq T => y = T
    <3>1. B \subseteq SUBSET S
      BY Zenon
    <3> HIDE DEF B
    <3>2. QED
      BY <1>1, <3>1, MinimalSet
  <2>2. IsFiniteSet(T)
    BY Zenon, FS_Subset
  <2>3. CASE T = {}
    BY <2>2, <2>3, SumUnfolds
  <2>4. CASE T # {}
    <3>1. Any(T) \in S /\ T \ {Any(T)} \in SUBSET S /\ T \ {Any(T)} \notin B
      BY Zenon, <2>1, <2>4, AnyFacts
    <3>2. g[Any(T)] \in Nat /\ Sum(g, T \ {Any(T)}) \in Nat
      BY Zenon, <3>1
    <3>3. Sum(g, T) = g[Any(T)] + Sum(g, T \ {Any(T)})
      BY Zenon, <2>2, <2>4, SumUnfolds
    <3>4. Sum(g, T) \notin Nat
      BY Zenon
    <3>5. QED
      BY <3>2, <3>3, <3>4
  <2>5. QED
    BY Zenon, <2>3, <2>4
<1>2. QED
  BY Zenon, <1>1

\* The sum depends on the values at the elements only.
LEMMA SumSame ==
    ASSUME NEW S, IsFiniteSet(S), NEW g, NEW k, \A x \in S : k[x] = g[x]
    PROVE  Sum(k, S) = Sum(g, S)
<1> DEFINE B == {T \in SUBSET S : Sum(k, T) # Sum(g, T)}
<1>1. ASSUME B # {} PROVE FALSE
  <2>1. PICK T \in B : \A y \in B : y \subseteq T => y = T
    <3>1. B \subseteq SUBSET S
      BY Zenon
    <3> HIDE DEF B
    <3>2. QED
      BY <1>1, <3>1, MinimalSet
  <2>2. IsFiniteSet(T)
    BY Zenon, FS_Subset
  <2>3. CASE T = {}
    <3>1. Sum(k, T) = 0 /\ Sum(g, T) = 0
      BY Zenon, <2>2, <2>3, SumUnfolds
    <3>2. QED
      BY Zenon, <3>1
  <2>4. CASE T # {}
    <3>1. Any(T) \in S /\ T \ {Any(T)} \in SUBSET S /\ T \ {Any(T)} \notin B
      BY Zenon, <2>1, <2>4, AnyFacts
    <3>2. k[Any(T)] = g[Any(T)] /\ Sum(k, T \ {Any(T)}) = Sum(g, T \ {Any(T)})
      BY Zenon, <3>1
    <3>3. /\ Sum(g, T) = g[Any(T)] + Sum(g, T \ {Any(T)})
          /\ Sum(k, T) = k[Any(T)] + Sum(k, T \ {Any(T)})
      BY Zenon, <2>2, <2>4, SumUnfolds
    <3>4. QED
      BY Zenon, <3>2, <3>3
  <2>5. QED
    BY Zenon, <2>3, <2>4
<1>2. QED
  BY Zenon, <1>1

\* A change of one term changes the sum by as much.
LEMMA SumChanges ==
    ASSUME NEW S, IsFiniteSet(S), NEW g, NEW k, NEW n \in S, NEW d \in Nat,
           \A x \in S : g[x] \in Nat,
           \A x \in S : x # n => k[x] = g[x],
           k[n] = g[n] + d
    PROVE  Sum(k, S) = Sum(g, S) + d
<1> DEFINE B == {T \in SUBSET S : n \in T /\ Sum(k, T) # Sum(g, T) + d}
<1>1. ASSUME B # {} PROVE FALSE
  <2>1. PICK T \in B : \A y \in B : y \subseteq T => y = T
    <3>1. B \subseteq SUBSET S
      BY Zenon
    <3> HIDE DEF B
    <3>2. QED
      BY <1>1, <3>1, MinimalSet
  <2>2. IsFiniteSet(T) /\ T # {} /\ n \in T
    BY Zenon, FS_Subset
  <2> DEFINE x == Any(T)
             Q == T \ {x}
  <2>3. x \in S /\ Q \in SUBSET S /\ Q \subseteq T /\ Q # T /\ Q \notin B /\ IsFiniteSet(Q)
    <3>1. x \in S /\ Q \in SUBSET S /\ Q \subseteq T /\ Q # T
      BY Zenon, <2>2, AnyFacts
    <3>2. Q \notin B
      BY Zenon, <2>1, <3>1
    <3>3. QED
      BY Zenon, <3>1, <3>2, FS_Subset
  <2>4. Sum(g, T) = g[x] + Sum(g, Q) /\ Sum(k, T) = k[x] + Sum(k, Q)
    BY Zenon, <2>2, SumUnfolds
  <2>5. \A y \in Q : g[y] \in Nat
    BY Zenon, <2>3
  <2>6. g[x] \in Nat /\ Sum(g, Q) \in Nat
    BY Zenon, <2>3, <2>5, SumType
  <2>7. Sum(k, T) # Sum(g, T) + d
    BY Zenon
  <2>8. CASE x = n
    <3>1. \A y \in Q : k[y] = g[y]
      BY Zenon, <2>3, <2>8
    <3>2. Sum(k, Q) = Sum(g, Q)
      BY Zenon, <2>3, <3>1, SumSame
    <3> HIDE DEF x, Q
    <3>3. QED
      BY <2>4, <2>6, <2>7, <2>8, <3>2
  <2>9. CASE x # n
    <3>1. Sum(k, Q) = Sum(g, Q) + d
      BY Zenon, <2>2, <2>3, <2>9
    <3>2. k[x] = g[x]
      BY Zenon, <2>3, <2>9
    <3> HIDE DEF x, Q
    <3>3. QED
      BY <2>4, <2>6, <2>7, <3>1, <3>2
  <2>10. QED
    BY Zenon, <2>8, <2>9
<1>2. QED
  BY Zenon, <1>1

-----------------------------------------------------------------------------
(***************************************************************************)
(* Accounts and snapshots.                                                 *)
(***************************************************************************)

\* The snapshots of user u, by node, and the ids that carry an email.
Snapshots(s, u) == [n \in Nodes |-> s[n][u]]
Carriers(e) == {v \in Users : EmailOf[v] = e}

\* The two properties, now and after a step, say what Sum says.
LEMMA TotalsAreSums ==
    /\ TotalsMatchSnapshots <=>
         \A u \in Users : used[u] + forgiven[u] = Sum(Snapshots(snap, u), Nodes)
    /\ TotalsMatchSnapshots' <=>
         \A u \in Users : used'[u] + forgiven'[u] = Sum(Snapshots(snap', u), Nodes)
<1>1. ASSUME NEW u \in Users
      PROVE  MapThenSumSet(LAMBDA n : snap[n][u], Nodes) = Sum(Snapshots(snap, u), Nodes)
  BY Zenon DEF MapThenSumSet, MapThenFoldSet, Sum, Sums, SumsUp, Any, Snapshots
<1>2. ASSUME NEW u \in Users
      PROVE  MapThenSumSet(LAMBDA n : snap'[n][u], Nodes) = Sum(Snapshots(snap', u), Nodes)
  BY Zenon DEF MapThenSumSet, MapThenFoldSet, Sum, Sums, SumsUp, Any, Snapshots
<1>3. QED
  BY Zenon, <1>1, <1>2 DEF TotalsMatchSnapshots, MapThenSumSet, MapThenFoldSet

LEMMA CreditsAreSums ==
    /\ CreditedByEmail <=>
         \A n \in Nodes, e \in Emails : credited[n][e] = Sum(snap[n], Carriers(e))
    /\ CreditedByEmail' <=>
         \A n \in Nodes, e \in Emails : credited'[n][e] = Sum(snap'[n], Carriers(e))
BY Zenon DEF CreditedByEmail, MapThenSumSet, MapThenFoldSet, Sum, Sums, SumsUp, Any, Carriers

\* What a committing transaction adds, field by field.
LEMMA CommitFacts ==
    ASSUME MeterTypeOK, NEW n \in Nodes, Commit(n)
    PROVE  /\ \A u \in Users : snap'[n][u] = snap[n][u] + Delta(n, u)
           /\ \A m \in Nodes : m # n => snap'[m] = snap[m] /\ credited'[m] = credited[m]
           /\ \A u \in Users : used'[u] = used[u] + Delta(n, u)
           /\ \A e \in Emails : credited'[n][e] = IF e \in Known(n)
                                                  THEN credited[n][e] + pending[n][e]
                                                  ELSE credited[n][e]
BY Zenon DEF Commit, Plus, MeterTypeOK, Bytes

\* Every step but a commit and a reset leaves accounts and snapshots alone.
LEMMA AccountSteps ==
    ASSUME [MeterNext]_meterVars
    PROVE  \/ UNCHANGED <<used, forgiven, snap, credited>>
           \/ \E u \in Users : StoreResetTraffic(u)
           \/ \E n \in Nodes : Commit(n) /\ UNCHANGED forgiven
<1>1. CASE UserStep
  BY Zenon, <1>1 DEF UserStep, CreateUser, DeleteUser, meterHistory
<1>2. CASE \E n \in Nodes : CollectStep(n)
  BY Zenon, <1>2 DEF CollectStep, QueryUserTraffic, UserIDsByEmail, ApplyTrafficDeltas,
                     userVars, meterHistory
<1>3. CASE \E n \in Nodes : FaultStep(n)
  BY Zenon, <1>3 DEF FaultStep, QueryReplyLost, DatabaseFails, CommitReplyLost, NodeRestart,
                     ActorRestart, userVars, meterHistory
<1>4. CASE \E n \in Nodes, e \in Emails : Traffic(n, e)
  BY Zenon, <1>4 DEF Traffic, userVars
<1>5. CASE UNCHANGED meterVars
  BY Zenon, <1>5 DEF meterVars, userVars, meterHistory
<1>6. QED
  BY Zenon, <1>1, <1>2, <1>3, <1>4, <1>5 DEF MeterNext

\* A transaction adds as much to the total of a user as to the snapshots, and a
\* reset moves the total to what is forgiven.
LEMMA TotalsStep ==
    ASSUME MeterTypeOK, TotalsMatchSnapshots, [MeterNext]_meterVars
    PROVE  TotalsMatchSnapshots'
<1>1. CASE UNCHANGED <<used, forgiven, snap, credited>>
  BY Zenon, <1>1, TotalsAreSums
<1>2. ASSUME NEW v \in Users, StoreResetTraffic(v) PROVE TotalsMatchSnapshots'
  <2>1. ASSUME NEW u \in Users
        PROVE  used'[u] + forgiven'[u] = used[u] + forgiven[u]
    BY <1>2 DEF StoreResetTraffic, MeterTypeOK
  <2>2. UNCHANGED snap
    BY Zenon, <1>2 DEF StoreResetTraffic
  <2>3. QED
    BY Zenon, <2>1, <2>2, TotalsAreSums
<1>3. ASSUME NEW n \in Nodes, Commit(n), UNCHANGED forgiven PROVE TotalsMatchSnapshots'
  <2>1. ASSUME NEW u \in Users
        PROVE  used'[u] + forgiven'[u] = Sum(Snapshots(snap', u), Nodes)
    <3>1. PICK d \in Nat : d = Delta(n, u)
      BY Zenon, DeltaFacts
    <3>2. PICK g : g = Snapshots(snap, u)
      BY Zenon
    <3>3. PICK k : k = Snapshots(snap', u)
      BY Zenon
    <3>4. \A x \in Nodes : g[x] = snap[x][u] /\ k[x] = snap'[x][u] /\ g[x] \in Nat
      BY Zenon, <3>2, <3>3 DEF Snapshots, MeterTypeOK
    <3>5. k[n] = g[n] + d /\ \A x \in Nodes : x # n => k[x] = g[x]
      <4>1. /\ snap'[n][u] = snap[n][u] + Delta(n, u)
            /\ \A x \in Nodes : x # n => snap'[x] = snap[x]
        BY Zenon, <1>3, CommitFacts
      <4>2. QED
        BY Zenon, <3>1, <3>4, <4>1
    <3>6. Sum(k, Nodes) = Sum(g, Nodes) + d
      <4>1. IsFiniteSet(Nodes) /\ \A x \in Nodes : g[x] \in Nat
        BY Zenon, <3>4, MeteringAssumption
      <4>2. QED
        BY Zenon, <3>5, <4>1, SumChanges
    <3>7. used'[u] = used[u] + d /\ forgiven'[u] = forgiven[u]
      BY Zenon, <1>3, <3>1, CommitFacts
    <3>8. used[u] \in Nat /\ forgiven[u] \in Nat /\ used[u] + forgiven[u] = Sum(g, Nodes)
      BY Zenon, <3>2, TotalsAreSums DEF MeterTypeOK
    <3>9. used'[u] + forgiven'[u] = Sum(k, Nodes)
      BY <3>6, <3>7, <3>8
    <3>10. QED
      BY Zenon, <3>3, <3>9
  <2>2. QED
    BY Zenon, <2>1, TotalsAreSums
<1>4. QED
  BY Zenon, <1>1, <1>2, <1>3, AccountSteps

\* A resolved id carries the email it was resolved for, even if it is gone now.
IdsCarryEmail ==
    \A n \in Nodes, e \in Emails : ids[n][e] # None => EmailOf[ids[n][e]] = e

LEMMA IdsStep ==
    ASSUME MeterTypeOK, IdsCarryEmail, [MeterNext]_meterVars
    PROVE  IdsCarryEmail'
<1>1. CASE UNCHANGED ids
  BY Zenon, <1>1 DEF IdsCarryEmail
<1>2. ASSUME NEW n \in Nodes, UserIDsByEmail(n) PROVE IdsCarryEmail'
  <2>1. ASSUME NEW e \in Emails, Found(e) # {}
        PROVE  EmailOf[CHOOSE u \in Found(e) : TRUE] = e
    <3>1. (CHOOSE u \in Found(e) : TRUE) \in Found(e)
      BY Zenon, <2>1
    <3>2. QED
      BY Zenon, <3>1 DEF Found
  <2>2. /\ \A m \in Nodes : m # n => ids'[m] = ids[m]
        /\ \A e \in Emails : ids'[n][e] = IF Found(e) = {} THEN None
                                          ELSE CHOOSE u \in Found(e) : TRUE
    BY Zenon, <1>2 DEF UserIDsByEmail, MeterTypeOK
  <2>3. QED
    BY <2>1, <2>2 DEF IdsCarryEmail
<1>3. ASSUME NEW n \in Nodes, ActorRestart(n) PROVE IdsCarryEmail'
  BY Zenon, <1>3 DEF ActorRestart, Unresolved, MeterTypeOK, IdsCarryEmail
<1>4. CASE UserStep
  BY Zenon, <1>1, <1>4 DEF UserStep, CreateUser, DeleteUser, StoreResetTraffic
<1>5. CASE \E n \in Nodes : CollectStep(n)
  BY Zenon, <1>1, <1>2, <1>5 DEF CollectStep, QueryUserTraffic, ApplyTrafficDeltas
<1>6. CASE \E n \in Nodes : FaultStep(n)
  BY Zenon, <1>1, <1>3, <1>6
     DEF FaultStep, QueryReplyLost, DatabaseFails, CommitReplyLost, NodeRestart
<1>7. CASE \E n \in Nodes, e \in Emails : Traffic(n, e)
  BY Zenon, <1>1, <1>7 DEF Traffic
<1>8. CASE UNCHANGED meterVars
  BY Zenon, <1>1, <1>8 DEF meterVars
<1>9. QED
  BY Zenon, <1>4, <1>5, <1>6, <1>7, <1>8 DEF MeterNext

\* A transaction credits an email with what it adds to the id that was resolved
\* for it, and to no other id that carries the email.
LEMMA CreditsStep ==
    ASSUME MeterTypeOK, IdsCarryEmail, CreditedByEmail, [MeterNext]_meterVars
    PROVE  CreditedByEmail'
<1>1. CASE UNCHANGED <<snap, credited>>
  BY Zenon, <1>1, CreditsAreSums
<1>2. ASSUME NEW n \in Nodes, Commit(n) PROVE CreditedByEmail'
  <2>1. ASSUME NEW e \in Emails PROVE credited'[n][e] = Sum(snap'[n], Carriers(e))
    <3>1. Carriers(e) \subseteq Users /\ IsFiniteSet(Carriers(e))
      BY Zenon, FS_Subset, MeteringAssumption DEF Carriers
    <3>2. PICK C : C = Carriers(e)
      BY Zenon
    <3>3. PICK g, k : g = snap[n] /\ k = snap'[n]
      BY Zenon
    <3>4. IsFiniteSet(C) /\ \A x \in C : g[x] \in Nat
      BY Zenon, <3>1, <3>2, <3>3 DEF MeterTypeOK
    <3>5. \A x \in C : k[x] = g[x] + Delta(n, x)
      BY Zenon, <1>2, <3>1, <3>2, <3>3, CommitFacts
    <3>6. \A x \in C : Delta(n, x) = IF ids[n][e] = x THEN pending[n][e] ELSE 0
      BY Zenon, <3>2 DEF Carriers, Delta
    <3>7. credited[n][e] = Sum(g, C)
      BY Zenon, <3>2, <3>3, CreditsAreSums
    <3>8. CASE ids[n][e] = None
      <4>1. \A x \in C : ids[n][e] # x
        BY Zenon, <3>1, <3>2, <3>8, MeteringAssumption
      <4>2. \A x \in C : k[x] = g[x]
        BY <3>4, <3>5, <3>6, <4>1
      <4>3. Sum(k, C) = Sum(g, C)
        BY Zenon, <3>4, <4>2, SumSame
      <4>4. credited'[n][e] = credited[n][e]
        BY Zenon, <1>2, <3>8, CommitFacts DEF Known
      <4>5. QED
        BY Zenon, <3>2, <3>3, <3>7, <4>3, <4>4
    <3>9. CASE ids[n][e] # None
      <4>1. PICK w : w = ids[n][e]
        BY Zenon
      <4>2. w \in C
        <5>1. w \in Users
          BY <3>9, <4>1 DEF MeterTypeOK
        <5>2. EmailOf[w] = e
          BY Zenon, <3>9, <4>1 DEF IdsCarryEmail
        <5>3. QED
          BY Zenon, <3>2, <5>1, <5>2 DEF Carriers
      <4>3. PICK d \in Nat : d = pending[n][e]
        BY Zenon, DeltaFacts
      <4>4. k[w] = g[w] + d
        BY Zenon, <3>5, <3>6, <4>1, <4>2, <4>3
      <4>5. \A x \in C : x # w => k[x] = g[x]
        <5>1. ASSUME NEW x \in C, x # w PROVE k[x] = g[x] + 0 /\ g[x] \in Nat
          BY Zenon, <3>4, <3>5, <3>6, <4>1, <5>1
        <5>2. QED
          BY <5>1
      <4>6. Sum(k, C) = Sum(g, C) + d
        BY Zenon, <3>4, <4>2, <4>4, <4>5, SumChanges
      <4>7. credited'[n][e] = credited[n][e] + d
        <5>1. e \in Known(n)
          BY Zenon, <3>9 DEF Known
        <5>2. QED
          BY Zenon, <1>2, <4>3, <5>1, CommitFacts
      <4>8. QED
        BY Zenon, <3>2, <3>3, <3>7, <4>6, <4>7
    <3>10. QED
      BY Zenon, <3>8, <3>9
  <2>2. ASSUME NEW m \in Nodes, m # n, NEW e \in Emails
        PROVE  credited'[m][e] = Sum(snap'[m], Carriers(e))
    BY ZenonT(40), <1>2, <2>2, CommitFacts, CreditsAreSums
  <2>3. QED
    BY Zenon, <2>1, <2>2, CreditsAreSums
<1>3. CASE \E u \in Users : StoreResetTraffic(u)
  BY Zenon, <1>1, <1>3 DEF StoreResetTraffic, meterHistory
<1>4. QED
  BY Zenon, <1>1, <1>2, <1>3, AccountSteps

\* All accounts start empty.
LEMMA AccountsInit ==
    ASSUME MeterInit
    PROVE  TotalsMatchSnapshots /\ CreditedByEmail /\ IdsCarryEmail
<1>1. ASSUME NEW S, IsFiniteSet(S), NEW g, \A x \in S : g[x] = 0
      PROVE  Sum(g, S) = 0
  <2> DEFINE B == {T \in SUBSET S : Sum(g, T) # 0}
  <2>1. ASSUME B # {} PROVE FALSE
    <3>1. PICK T \in B : \A y \in B : y \subseteq T => y = T
      <4>1. B \subseteq SUBSET S
        BY Zenon
      <4> HIDE DEF B
      <4>2. QED
        BY <1>1, <2>1, <4>1, MinimalSet
    <3>2. IsFiniteSet(T)
      BY Zenon, <1>1, FS_Subset
    <3>3. T # {}
      BY Zenon, <3>2, SumUnfolds
    <3>4. Any(T) \in S /\ T \ {Any(T)} \in SUBSET S /\ T \ {Any(T)} \notin B
      BY Zenon, <3>1, <3>3, AnyFacts
    <3>5. g[Any(T)] = 0 /\ Sum(g, T \ {Any(T)}) = 0
      BY Zenon, <1>1, <3>4
    <3>6. Sum(g, T) = g[Any(T)] + Sum(g, T \ {Any(T)}) /\ Sum(g, T) # 0
      BY Zenon, <3>2, <3>3, SumUnfolds
    <3>7. QED
      BY <3>5, <3>6
  <2>2. QED
    BY Zenon, <2>1
<1>2. \A u \in Users : Sum(Snapshots(snap, u), Nodes) = 0
  BY Zenon, <1>1, MeteringAssumption DEF MeterInit, Snapshots
<1>3. \A n \in Nodes, e \in Emails : Sum(snap[n], Carriers(e)) = 0
  <2>1. \A e \in Emails : IsFiniteSet(Carriers(e)) /\ Carriers(e) \subseteq Users
    BY Zenon, FS_Subset, MeteringAssumption DEF Carriers
  <2>2. \A n \in Nodes, x \in Users : snap[n][x] = 0
    BY Zenon DEF MeterInit
  <2>3. QED
    BY Zenon, <1>1, <2>1, <2>2
<1>4. TotalsMatchSnapshots
  <2>1. \A u \in Users : used[u] + forgiven[u] = 0
    BY DEF MeterInit
  <2>2. QED
    BY Zenon, <1>2, <2>1, TotalsAreSums
<1>5. CreditedByEmail
  BY Zenon, <1>3, CreditsAreSums DEF MeterInit, Zero
<1>6. IdsCarryEmail
  BY Zenon DEF MeterInit, Unresolved, IdsCarryEmail
<1>7. QED
  BY Zenon, <1>4, <1>5, <1>6

\* The running total of every user is the sum of the snapshots of all nodes less
\* what resets forgave, in whatever order their transactions commit.
THEOREM TotalsMatch == MeterSpec => []TotalsMatchSnapshots
<1>1. MeterInit => TotalsMatchSnapshots
  BY Zenon, AccountsInit
<1>2. MeterTypeOK /\ TotalsMatchSnapshots /\ [MeterNext]_meterVars => TotalsMatchSnapshots'
  BY Zenon, TotalsStep
<1>3. QED
  BY <1>1, <1>2, MeterTypes, PTL DEF MeterSpec

\* What a node has read for an email is on accounts that carry this email, even
\* when the user is deleted, or replaced by another, in the middle of a cycle.
THEOREM CreditedToEmail == MeterSpec => []CreditedByEmail
<1>1. MeterInit => CreditedByEmail /\ IdsCarryEmail
  BY Zenon, AccountsInit
<1>2. MeterTypeOK /\ IdsCarryEmail /\ [MeterNext]_meterVars => IdsCarryEmail'
  BY Zenon, IdsStep
<1>3. MeterTypeOK /\ IdsCarryEmail /\ CreditedByEmail /\ [MeterNext]_meterVars
        => CreditedByEmail'
  BY Zenon, CreditsStep
<1>4. QED
  BY <1>1, <1>2, <1>3, MeterTypes, PTL DEF MeterSpec
=============================================================================
