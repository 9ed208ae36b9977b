----------------------------- MODULE Lifecycle -----------------------------
(***************************************************************************)
(* The life of one row of the table users: status, expiry, quota, usage.   *)
(*                                                                         *)
(* Requests read the row, compute in memory and write it back in one or    *)
(* more statements, without a transaction around them.  The stats          *)
(* collector adds usage and suspends, the expiry sweeper expires, each in  *)
(* one statement or transaction.  Rows do not influence each other, so one *)
(* row stands for all; it may refer to a plan, which is changed and deleted *)
(* meanwhile.  The triggers that follow a write, and deletion, are in      *)
(* module Reconcile.                                                       *)
(*                                                                         *)
(* Abstractions.  Time is counted in days, and time.Now() is evaluated in  *)
(* the same step as the statement before it.  There is one plan, its       *)
(* duration is only used by Create.                                        *)
(* Update validates no status; the inputs here are the four that exist.    *)
(***************************************************************************)
EXTENDS Naturals

CONSTANTS
    Clients,    \* requests that may be in progress at the same time
    Null,       \* SQL NULL: no expiry, no limit
    Keep,       \* an input field that is absent
    Limits,     \* data limits that plans and requests carry
    Expiries,   \* expiry dates that requests carry
    Days,       \* extensions that renewals carry
    MaxTime,    \* bound: days
    MaxUsed,    \* bound: usage
    MaxOps,     \* bound: requests accepted
    MaxFaults   \* bound: requests cut short

Statuses == {"active", "suspended", "expired", "disabled"}

ASSUME LifecycleAssumption ==
    /\ Limits \subseteq Nat /\ Expiries \subseteq Nat /\ Days \subseteq Nat \ {0}
    /\ Null \notin Nat /\ Keep \notin Nat /\ Null # Keep /\ Keep \notin Statuses
    /\ {MaxTime, MaxUsed, MaxOps, MaxFaults} \subseteq Nat

VARIABLES
    row,        \* the row of the user
    plan,       \* the row of the plan
    now,        \* the clock
    req,        \* per request: its progress and the row it holds in memory
    ops, faults,
    granted     \* history: the latest expiry that committed requests entitle to

vars == <<row, plan, now, req, ops, faults, granted>>

Rows == [status : Statuses, expires : Nat \union {Null},
         limit : Limits \union {Null}, used : Nat, plan : BOOLEAN]

UserRow(s, e, l, u, p) == [status |-> s, expires |-> e, limit |-> l, used |-> u, plan |-> p]

OverQuota(r) == r.limit # Null /\ r.used >= r.limit
InForce(e) == ~(e # Null /\ e <= now)

\* What a request says explicitly about status and expiry.
Ask(s, e, d, z) ==
    [status |-> s, expires |-> e, days |-> d, reset |-> z, at |-> IF d = 0 THEN 0 ELSE now]
Silent == Ask(Keep, Keep, 0, FALSE)

Asks == [status : Statuses \union {Keep}, expires : Expiries \union {Null, Keep},
         days : Days \union {0}, reset : BOOLEAN, at : 0..MaxTime]

\* A request with progress p: the row it holds, what it asks for and, as history,
\* status and expiry of the row it has read.
InProgress(p, r, k, old) ==
    [pc |-> p, row |-> r, ask |-> k, read |-> [status |-> old.status, expires |-> old.expires]]

NoRow == UserRow("active", Null, Null, 0, FALSE)
Idle == InProgress("idle", NoRow, Silent, NoRow)

TypeOK ==
    /\ row \in Rows
    /\ plan \in [exists : BOOLEAN, limit : Limits \union {Null}]
    /\ now \in 0..MaxTime
    /\ req \in [Clients -> [pc : {"idle", "activate", "resetTraffic", "renewReset", "write"},
                           row : Rows, ask : Asks,
                           read : [status : Statuses, expires : Nat \union {Null}]]]
    /\ ops \in 0..MaxOps
    /\ faults \in 0..MaxFaults
    /\ granted \in Nat

\* A user as Create leaves it, with the limits of a plan or without, or one that
\* was disabled since.
Init ==
    /\ \E s \in {"active", "disabled"}, e \in Expiries \union {Null}, l \in Limits \union {Null} :
        /\ row = UserRow(s, e, l, 0, TRUE)
        /\ plan = [exists |-> TRUE, limit |-> l]
        /\ granted = IF e = Null THEN 0 ELSE e
    /\ now = 0
    /\ req = [c \in Clients |-> Idle]
    /\ ops = 0
    /\ faults = 0

-----------------------------------------------------------------------------
(***************************************************************************)
(* Requests: a first step that reads (or writes at once), then the writes. *)
(***************************************************************************)

Accept(c) ==
    /\ req[c].pc = "idle"
    /\ ops < MaxOps
    /\ ops' = ops + 1

\* The request has read the row and goes on with r in memory.
Begin(c, p, r, k) == req' = [req EXCEPT ![c] = InProgress(p, r, k, row)]

GoTo(c, p, r) == req' = [req EXCEPT ![c].pc = p, ![c].row = r]

Done(c) == req' = [req EXCEPT ![c] = Idle]

\* The fields given replace those read; an expired user whose expiry lies in
\* the future is reactivated.
Updated(r, s, e, l, p) ==
    LET x == IF e = Keep THEN r.expires ELSE e
        t == IF s = Keep THEN r.status ELSE s
    IN  UserRow(IF t = "expired" /\ x # Null /\ InForce(x) THEN "active" ELSE t,
                x, IF l = Keep THEN r.limit ELSE l, r.used, p \/ r.plan)

Update(c, s, e, l, p) ==
    /\ Accept(c)
    /\ Begin(c, "write", Updated(row, s, e, l, p), Ask(s, e, 0, FALSE))
    /\ UNCHANGED <<row, now, faults, granted>>

\* A single statement: the admin disables the user.
Suspend(c) ==
    /\ Accept(c)
    /\ row' = [row EXCEPT !.status = "disabled"]
    /\ Done(c)
    /\ UNCHANGED <<now, faults, granted>>

\* Refused while over quota or expired, as of the row it reads.
Resume(c) ==
    /\ Accept(c)
    /\ ~OverQuota(row)
    /\ InForce(row.expires)
    /\ Begin(c, "activate", row, Ask("active", Keep, 0, FALSE))
    /\ UNCHANGED <<row, now, faults, granted>>

ResetTraffic(c) ==
    /\ Accept(c)
    /\ Begin(c, "resetTraffic", row, Silent)
    /\ UNCHANGED <<row, now, faults, granted>>

\* Mutant: the extension is always counted from now.
Extended_FromNow(e, d) == IF d = 0 THEN e ELSE now + d

\* The extension is counted from the expiry if it lies in the future.
Extended(e, d) ==
    IF d = 0 THEN e ELSE (IF e # Null /\ e > now THEN e ELSE now) + d

\* Mutant: a disabled user is reactivated.
Reactivated_EvenIfDisabled(r) ==
    IF ~OverQuota(r) /\ InForce(r.expires) THEN [r EXCEPT !.status = "active"] ELSE r

\* Active, unless disabled by the admin, over quota or still expired.
Reactivated(r) ==
    IF r.status # "disabled" /\ ~OverQuota(r) /\ InForce(r.expires)
      THEN [r EXCEPT !.status = "active"] ELSE r

\* A renewal may take the user to the plan, as it is when it is read.
Renew(c, d, z, p) ==
    LET r == UserRow(row.status, Extended(row.expires, d),
                     IF p THEN plan.limit ELSE row.limit, row.used, p \/ row.plan)
    IN  /\ Accept(c)
        /\ d > 0 \/ z \/ p
        /\ p => plan.exists
        /\ IF z THEN Begin(c, "renewReset", [r EXCEPT !.used = 0], Ask(Keep, Keep, d, z))
                ELSE Begin(c, "write", Reactivated(r), Ask(Keep, Keep, d, z))
        /\ UNCHANGED <<row, now, faults, granted>>

RotateSubToken(c) ==
    /\ Accept(c)
    /\ Begin(c, "write", row, Silent)
    /\ UNCHANGED <<row, now, faults, granted>>

\* SetUserStatus(active), on behalf of Resume or of ResetTraffic.
SetUserStatus(c) ==
    /\ req[c].pc = "activate"
    /\ row' = [row EXCEPT !.status = "active"]
    /\ Done(c)
    /\ UNCHANGED <<now, ops, faults, granted>>

\* ResetTraffic zeroes the usage; a user that was suspended when it was read
\* is then reactivated unless expired.
ResetTrafficStmt(c) ==
    /\ req[c].pc = "resetTraffic"
    /\ row' = [row EXCEPT !.used = 0]
    /\ IF req[c].row.status = "suspended" /\ InForce(req[c].row.expires)
         THEN GoTo(c, "activate", req[c].row)
         ELSE Done(c)
    /\ UNCHANGED <<now, ops, faults, granted>>

\* Mutant: the period is added to the copy once more.
RenewResetStmt_ExtendsAgain(c) ==
    LET r == req[c].row
    IN  /\ req[c].pc = "renewReset"
        /\ row' = [row EXCEPT !.used = 0]
        /\ GoTo(c, "write", Reactivated([r EXCEPT !.expires = Extended(@, req[c].ask.days)]))
        /\ UNCHANGED <<now, ops, faults, granted>>

\* Renew zeroes the usage in a statement of its own and goes on.
RenewResetStmt(c) ==
    /\ req[c].pc = "renewReset"
    /\ row' = [row EXCEPT !.used = 0]
    /\ GoTo(c, "write", Reactivated(req[c].row))
    /\ UNCHANGED <<now, ops, faults, granted>>

\* The foreign key: the plan that was read is still there.
PlanFound(c) == req[c].row.plan => plan.exists

Later(a, b) == IF a > b THEN a ELSE b

\* History: the latest expiry that is granted once the request k is committed.
GrantedWith(k) ==
    IF k.expires = Null THEN granted
    ELSE IF k.expires # Keep THEN Later(granted, k.expires)
    ELSE IF k.days = 0 THEN granted
    ELSE Later(granted, k.at) + k.days

\* UpdateUser writes every mutable field but the usage.
UpdateUser(c) ==
    /\ req[c].pc = "write"
    /\ \/ ~PlanFound(c) /\ UNCHANGED <<row, granted>>
       \/ /\ PlanFound(c)
          /\ row' = [req[c].row EXCEPT !.used = row.used]
          /\ granted' = GrantedWith(req[c].ask)
    /\ Done(c)
    /\ UNCHANGED <<now, ops, faults>>

\* A statement fails, the caller goes away or the process dies: the rest of
\* the request does not happen.
CutShort(c) ==
    /\ faults < MaxFaults
    /\ faults' = faults + 1
    /\ req[c].pc # "idle"
    /\ UNCHANGED <<row, now, ops, granted>>
    /\ Done(c)

-----------------------------------------------------------------------------
(***************************************************************************)
(* Plans.                                                                  *)
(***************************************************************************)

\* Users keep the limit they were given.
UpdatePlan(l) ==
    /\ plan.exists
    /\ plan' = [plan EXCEPT !.limit = l]
    /\ UNCHANGED <<row, now, req, ops, faults, granted>>

\* ON DELETE SET NULL
DeletePlan ==
    /\ plan.exists
    /\ plan' = [plan EXCEPT !.exists = FALSE]
    /\ row' = [row EXCEPT !.plan = FALSE]
    /\ UNCHANGED <<now, req, ops, faults, granted>>

-----------------------------------------------------------------------------
(***************************************************************************)
(* The background loops and time.                                          *)
(***************************************************************************)

\* Mutant: only a user that crosses the limit with this delta is suspended.
Collect_OnCrossing(d) ==
    /\ row.used + d <= MaxUsed
    /\ LET r == [row EXCEPT !.used = @ + d]
       IN  row' = IF r.status = "active" /\ OverQuota(r) /\ ~OverQuota(row)
                    THEN [r EXCEPT !.status = "suspended"] ELSE r
    /\ UNCHANGED <<now, req, ops, faults, granted>>

\* The transaction of a collection cycle: usage is added, then every active
\* user over quota is suspended, whether the cycle had traffic of theirs or not.
Collect(d) ==
    /\ row.used + d <= MaxUsed
    /\ LET r == [row EXCEPT !.used = @ + d]
       IN  row' = IF r.status = "active" /\ OverQuota(r)
                    THEN [r EXCEPT !.status = "suspended"] ELSE r
    /\ UNCHANGED <<now, req, ops, faults, granted>>

\* The statement of the expiry sweeper.
ExpireDueUsers ==
    /\ row.status = "active"
    /\ ~InForce(row.expires)
    /\ row' = [row EXCEPT !.status = "expired"]
    /\ UNCHANGED <<now, req, ops, faults, granted>>

Tick ==
    /\ now < MaxTime
    /\ now' = now + 1
    /\ UNCHANGED <<row, req, ops, faults, granted>>

-----------------------------------------------------------------------------

Request(c) ==
    \/ Suspend(c)
    \/ Resume(c)
    \/ ResetTraffic(c)
    \/ RotateSubToken(c)
    \/ \E s \in Statuses \union {Keep}, e \in Expiries \union {Null, Keep},
          l \in Limits \union {Keep}, p \in BOOLEAN : Update(c, s, e, l, p)
    \/ \E d \in Days \union {0}, z \in BOOLEAN,
          p \in BOOLEAN : Renew(c, d, z, p)

RequestStep(c) ==
    \/ SetUserStatus(c)
    \/ ResetTrafficStmt(c)
    \/ RenewResetStmt(c)
    \/ UpdateUser(c)
    \/ CutShort(c)

Next ==
    \/ /\ \/ \E c \in Clients : Request(c) \/ RequestStep(c)
          \/ \E d \in {0, 1} : Collect(d)
          \/ ExpireDueUsers
          \/ Tick
       /\ UNCHANGED plan
    \/ DeletePlan
    \/ \E l \in Limits \union {Null} : UpdatePlan(l)

Spec == Init /\ [][Next]_vars

\* The tickers of the collector and of the sweeper fire for ever.  (A cycle
\* reaches the transaction when its node reports a counter, zero or not, or
\* deltas are pending.)
FairSpec ==
    /\ Spec
    /\ WF_vars(UNCHANGED plan /\ \E d \in {0, 1} : Collect(d))
    /\ WF_vars(UNCHANGED plan /\ ExpireDueUsers)
-----------------------------------------------------------------------------
(***************************************************************************)
(* Properties.                                                             *)
(***************************************************************************)

\* "Reactivate unless the admin explicitly disabled the user": however requests
\* overlap, with each other and with collections and sweeps, a disabled user is
\* enabled again only by a request that asks for another status, or by one that
\* read the row before the user was disabled and writes that back.  (So a renewal
\* that follows a cancellation does not restore service, although
\* docs/billing-webhooks.md says so: see RenewalRestoresService.)
DisabledUntilAsked ==
    [][row.status = "disabled" /\ row'.status # "disabled"
        => \E c \in Clients :
            /\ RequestStep(c)
            /\ \/ req[c].ask.status \notin {Keep, "disabled"}
               \/ req[c].ask.status = Keep /\ req[c].read.status # "disabled"]_vars

\* Renewals stack: an expiry moves to an earlier one only by a request that
\* gives an expiry, or by one that read another expiry than it overwrites.  No
\* renewal takes away time that was there when it read the row.
OnlyOverlapShortens ==
    [][row.expires # Null /\ row'.expires # Null /\ row'.expires < row.expires
        => \E c \in Clients :
            /\ UpdateUser(c)
            /\ req[c].ask.expires # Keep \/ req[c].read.expires # row.expires]_vars

\* Nobody gets time for nothing: however requests overlap, fail half way and
\* write back stale rows, the expiry is never later than the committed renewals
\* and the explicit expiries entitle to.
TimeIsPaidFor == row.expires # Null => row.expires <= granted

\* Quota and expiry are enforced: whatever a request writes back (a Resume
\* that checked a stale row, a rotation that restores an old status), a user
\* that is active over quota or past the expiry does not stay so.
Enforced ==
    (row.status = "active" /\ (OverQuota(row) \/ ~InForce(row.expires)))
        ~> ~(row.status = "active" /\ (OverQuota(row) \/ ~InForce(row.expires)))

\* "Renew atomically extends a user's subscription": a renewal that has zeroed
\* the usage does not end without extending the expiry.
RenewalIsAtomic ==
    [][\A c \in Clients :
          req[c].pc = "write" /\ req[c].ask.reset /\ req[c].ask.days > 0 /\ req'[c].pc = "idle"
             => row'.expires = req[c].row.expires]_vars

\* "Early renewals stack": a committed renewal moves the expiry on by its days.
RenewalsStack ==
    [][\A c \in Clients :
          UpdateUser(c) /\ PlanFound(c) /\ req[c].ask.days > 0 /\ row.expires # Null
             => row'.expires >= row.expires + req[c].ask.days]_vars

\* "Reactivate unless the admin explicitly disabled the user": only a request
\* that asks for a status ends a suspension by the admin.
DisabledStays ==
    [][row.status = "disabled" /\ row'.status # "disabled"
        => \E c \in Clients : RequestStep(c) /\ req[c].ask.status # Keep]_vars

\* A renewal that extends the expiry and resets the usage restores service,
\* also after a cancellation.
RenewalRestoresService ==
    [][\A c \in Clients :
          UpdateUser(c) /\ PlanFound(c) /\ req[c].ask.days > 0 /\ req[c].ask.reset
                /\ InForce(row'.expires)
             => row'.status = "active" \/ OverQuota(row')]_vars

\* "ResetTraffic zeroes usage and reactivates a quota-suspended user": none is
\* suspended when it is done.
ResetReactivates ==
    [][\A c \in Clients :
          ResetTrafficStmt(c) /\ req'[c].pc = "idle" => row'.status # "suspended"]_vars

\* The total that UserInfoHeader and handleSubscriptionInfo announce.
announcedTotal == IF row.limit = Null THEN 0 ELSE row.limit

\* "total=0 means unlimited": only a user without limit is announced so.
UnlimitedIsAnnounced == announcedTotal = 0 => ~OverQuota(row)

\* What request c is about to write leaves a user disabled who was when it
\* read the row, unless it asks for another status.
KeepsDisabled(c) ==
    LET q == req[c]
    IN  /\ q.pc \in {"resetTraffic", "renewReset", "write"}
              /\ (q.ask.status = "disabled" \/ (q.ask.status = Keep /\ q.read.status = "disabled"))
             => q.row.status = "disabled"
        /\ q.pc = "resetTraffic" => q.ask.status = Keep
        /\ q.pc = "activate"
             => q.ask.status = "active" \/ (q.ask.status = Keep /\ q.read.status # "disabled")

\* What request c is about to write is no earlier than the expiry it read,
\* unless it asks for one, and no later than what is granted once it commits.
KeepsExpiry(c) ==
    LET q == req[c]
    IN  q.pc \in {"renewReset", "write"}
          => /\ q.ask.expires = Keep /\ q.read.expires # Null
                  => q.row.expires # Null /\ q.row.expires >= q.read.expires
             /\ q.row.expires # Null => q.row.expires <= GrantedWith(q.ask)

\* The inductive invariant behind DisabledUntilAsked, OnlyOverlapShortens and
\* TimeIsPaidFor, for requests that overlap: what each is about to write, as
\* compared with what it read and with what is granted by now.
LifecycleInv ==
    /\ TypeOK
    /\ TimeIsPaidFor
    /\ \A c \in Clients : KeepsDisabled(c) /\ KeepsExpiry(c)
=============================================================================
