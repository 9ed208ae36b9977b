------------------------------ MODULE Metering ------------------------------
(***************************************************************************)
(* Traffic metering.  Each node counts the bytes of each email.  The actor *)
(* of a node collects them in a cycle of three calls: a query that reads   *)
(* and resets the counters, a query that resolves emails to user ids, and  *)
(* the transaction that adds the deltas to the users.  What was read and   *)
(* not persisted stays in the actor's memory (pendingDeltas) and is merged *)
(* into the next cycle.                                                    *)
(*                                                                         *)
(* Abstractions.  Uplink and downlink are handled alike and are one number. *)
(* A counter or delta of zero takes the same path without any effect, so   *)
(* pendingDeltas is a function with zeros for its absent keys.  The users  *)
(* that a collection flips to suspended are in module Lifecycle, the       *)
(* removal from their nodes is Sweep of module Reconcile.                  *)
(***************************************************************************)
EXTENDS Naturals, FiniteSets, FiniteSetsExt

CONSTANTS
    Nodes,
    Users,      \* user ids: a deleted id is never used again
    Emails,
    EmailOf,    \* [Users -> Emails]; two ids may carry one email in turn
    None,
    MaxBytes,   \* bound: bytes counted by all nodes
    MaxResets,  \* bound: usage resets per user
    MaxFailures \* bound: failed calls, restarts

ASSUME MeteringAssumption ==
    /\ IsFiniteSet(Nodes) /\ IsFiniteSet(Users)
    /\ EmailOf \in [Users -> Emails]
    /\ None \notin Users
    /\ MaxBytes \in Nat
    /\ MaxResets \in Nat
    /\ MaxFailures \in Nat

VARIABLES
    live,       \* per user: "none" before the insert, "live", "gone" after the delete
    used,       \* users.used_upload_bytes + used_download_bytes
    snap,       \* per node and user: sum of the traffic_snapshots ever inserted
    counter,    \* per node and email: the node's counters since the last reset
    pending,    \* per node and email: pendingDeltas of the actor
    ids,        \* per node and email: the user id resolved in this cycle
    pc,         \* per node: the next call of the cycle
    resets, failures,
    \* History variables: no action reads them.
    generated,  \* per node and email: bytes ever counted
    credited,   \* per node and email: bytes ever added to a user
    again,      \* per node and email: bytes still pending though they were added
    lost,       \* per node and email: bytes whose reply never arrived
    wiped,      \* per node and email: bytes a restart of node or actor took
    dropped,    \* per node and email: bytes of an email that has no user
    forgiven    \* per user: usage zeroed by resets

userVars == <<live, used, snap, resets, forgiven>>
meterHistory == <<generated, credited, again, lost, wiped, dropped>>
meterVars == <<userVars, meterHistory, counter, pending, ids, pc, failures>>

Bytes == [Nodes -> [Emails -> Nat]]
Zero == [e \in Emails |-> 0]
Unresolved == [e \in Emails |-> None]

MeterTypeOK ==
    /\ live \in [Users -> {"none", "live", "gone"}]
    /\ used \in [Users -> Nat]
    /\ snap \in [Nodes -> [Users -> Nat]]
    /\ counter \in Bytes
    /\ pending \in Bytes
    /\ ids \in [Nodes -> [Emails -> Users \union {None}]]
    /\ pc \in [Nodes -> {"idle", "resolve", "apply"}]
    /\ resets \in [Users -> 0..MaxResets]
    /\ failures \in 0..MaxFailures
    /\ generated \in Bytes
    /\ credited \in Bytes
    /\ again \in Bytes
    /\ lost \in Bytes
    /\ wiped \in Bytes
    /\ dropped \in Bytes
    /\ forgiven \in [Users -> Nat]

MeterInit ==
    /\ live = [u \in Users |-> "none"]
    /\ used = [u \in Users |-> 0]
    /\ snap = [n \in Nodes |-> [u \in Users |-> 0]]
    /\ counter = [n \in Nodes |-> Zero]
    /\ pending = [n \in Nodes |-> Zero]
    /\ ids = [n \in Nodes |-> Unresolved]
    /\ pc = [n \in Nodes |-> "idle"]
    /\ resets = [u \in Users |-> 0]
    /\ failures = 0
    /\ generated = [n \in Nodes |-> Zero]
    /\ credited = [n \in Nodes |-> Zero]
    /\ again = [n \in Nodes |-> Zero]
    /\ lost = [n \in Nodes |-> Zero]
    /\ wiped = [n \in Nodes |-> Zero]
    /\ dropped = [n \in Nodes |-> Zero]
    /\ forgiven = [u \in Users |-> 0]

\* f with x[e] added to f[n][e] for every email in S.
Plus(f, n, x, S) ==
    [f EXCEPT ![n] = [e \in Emails |-> IF e \in S THEN f[n][e] + x[e] ELSE f[n][e]]]

-----------------------------------------------------------------------------
(***************************************************************************)
(* Users come and go, and have their usage reset, at any time.             *)
(***************************************************************************)

CreateUser(u) ==
    /\ live[u] = "none"
    /\ \A v \in Users : live[v] = "live" => EmailOf[v] # EmailOf[u]
    /\ live' = [live EXCEPT ![u] = "live"]
    /\ UNCHANGED <<used, snap, resets, forgiven, meterHistory, counter, pending, ids, pc, failures>>

\* The totals of a deleted user are kept in the model as a record of what was
\* credited; no action reads them.
DeleteUser(u) ==
    /\ live[u] = "live"
    /\ live' = [live EXCEPT ![u] = "gone"]
    /\ UNCHANGED <<used, snap, resets, forgiven, meterHistory, counter, pending, ids, pc, failures>>

StoreResetTraffic(u) ==
    /\ live[u] = "live"
    /\ resets[u] < MaxResets
    /\ resets' = [resets EXCEPT ![u] = @ + 1]
    /\ used' = [used EXCEPT ![u] = 0]
    /\ forgiven' = [forgiven EXCEPT ![u] = @ + used[u]]
    /\ UNCHANGED <<live, snap, meterHistory, counter, pending, ids, pc, failures>>

-----------------------------------------------------------------------------
(***************************************************************************)
(* The collection cycle of the actor of node n.                            *)
(***************************************************************************)

\* The node counts a byte: also of a user whose row is gone.
Traffic(n, e) ==
    /\ MapThenSumSet(LAMBDA x : generated[x[1]][x[2]], Nodes \X Emails) < MaxBytes
    /\ counter' = [counter EXCEPT ![n][e] = @ + 1]
    /\ generated' = [generated EXCEPT ![n][e] = @ + 1]
    /\ UNCHANGED <<userVars, credited, again, lost, wiped, dropped, pending, ids, pc, failures>>

\* Mutant: a delta that was read again replaces the one carried over.
Merged_Overwrites(n) ==
    [pending EXCEPT ![n] = [e \in Emails |->
        IF counter[n][e] > 0 THEN counter[n][e] ELSE pending[n][e]]]

\* The merge of freshly read counters into carried-over deltas.
Merged(n) == Plus(pending, n, counter[n], Emails)

\* Read and reset, then merge.  Without any delta the cycle ends.
QueryUserTraffic(n) ==
    /\ pc[n] = "idle"
    /\ counter' = [counter EXCEPT ![n] = Zero]
    /\ pending' = Merged(n)
    /\ pc' = [pc EXCEPT ![n] = IF pending'[n] = Zero THEN "idle" ELSE "resolve"]
    /\ UNCHANGED <<userVars, meterHistory, ids, failures>>

\* Mutant: a row of another email is taken.
Found_NotByEmail(e) == {u \in Users : live[u] = "live"}

\* The user that has the email.
Found(e) == {u \in Users : live[u] = "live" /\ EmailOf[u] = e}

\* Mutant: an id that was resolved before is taken from a cache.
UserIDsByEmail_Cached(n) ==
    /\ pc[n] = "resolve"
    /\ ids' = [ids EXCEPT ![n] = [e \in Emails |->
                  IF ids[n][e] # None THEN ids[n][e]
                  ELSE IF Found(e) = {} THEN None ELSE CHOOSE u \in Found(e) : TRUE]]
    /\ pc' = [pc EXCEPT ![n] = "apply"]
    /\ UNCHANGED <<userVars, meterHistory, counter, pending, failures>>

UserIDsByEmail(n) ==
    /\ pc[n] = "resolve"
    /\ ids' = [ids EXCEPT ![n] = [e \in Emails |->
                  IF Found(e) = {} THEN None ELSE CHOOSE u \in Found(e) : TRUE]]
    /\ pc' = [pc EXCEPT ![n] = "apply"]
    /\ UNCHANGED <<userVars, meterHistory, counter, pending, failures>>

Known(n) == {e \in Emails : ids[n][e] # None}

\* What the transaction adds to user u.
Delta(n, u) == IF ids[n][EmailOf[u]] = u THEN pending[n][EmailOf[u]] ELSE 0

\* The snapshot of a user deleted since the ids were resolved violates the
\* foreign key and rolls everything back.
Insertable(n) == \A u \in Users : Delta(n, u) > 0 => live[u] = "live"

\* Mutant: the total is set to the sum of this node's snapshots: resets and
\* the deltas of other nodes are overwritten.
Commit_Overwrites(n) ==
    /\ snap' = [snap EXCEPT ![n] = [u \in Users |-> snap[n][u] + Delta(n, u)]]
    /\ used' = [u \in Users |-> IF Delta(n, u) > 0 THEN snap'[n][u] ELSE used[u]]
    /\ credited' = Plus(credited, n, pending[n], Known(n))

Commit(n) ==
    /\ snap' = [snap EXCEPT ![n] = [u \in Users |-> snap[n][u] + Delta(n, u)]]
    /\ used' = [u \in Users |-> used[u] + Delta(n, u)]
    /\ credited' = Plus(credited, n, pending[n], Known(n))

\* On success the buffer is cleared, the deltas of unknown emails with it.
\* On an error the deltas are kept for the next cycle.
ApplyTrafficDeltas(n) ==
    /\ pc[n] = "apply"
    /\ IF Insertable(n)
         THEN /\ Commit(n)
              /\ dropped' = Plus(dropped, n, pending[n], Emails \ Known(n))
              /\ pending' = [pending EXCEPT ![n] = Zero]
         ELSE UNCHANGED <<snap, used, credited, dropped, pending>>
    /\ pc' = [pc EXCEPT ![n] = "idle"]
    /\ UNCHANGED <<live, resets, forgiven, generated, again, lost, wiped, counter, ids, failures>>

-----------------------------------------------------------------------------
(***************************************************************************)
(* Faults.                                                                 *)
(***************************************************************************)

Fault == failures < MaxFailures /\ failures' = failures + 1

\* The reply of the query is lost (timeout, connection) after the node has
\* reset its counters.
QueryReplyLost(n) ==
    /\ Fault
    /\ pc[n] = "idle"
    /\ lost' = Plus(lost, n, counter[n], Emails)
    /\ counter' = [counter EXCEPT ![n] = Zero]
    /\ UNCHANGED <<userVars, generated, credited, again, wiped, dropped, pending, ids, pc>>

\* A query or the transaction fails without effect; the deltas are kept.
DatabaseFails(n) ==
    /\ Fault
    /\ pc[n] \in {"resolve", "apply"}
    /\ pc' = [pc EXCEPT ![n] = "idle"]
    /\ UNCHANGED <<userVars, meterHistory, counter, pending, ids>>

\* The transaction commits and the actor sees an error (the connection broke
\* while it waited for the answer): the deltas are kept.
CommitReplyLost(n) ==
    /\ Fault
    /\ pc[n] = "apply"
    /\ Insertable(n)
    /\ Commit(n)
    /\ again' = Plus(again, n, pending[n], Known(n))
    /\ pc' = [pc EXCEPT ![n] = "idle"]
    /\ UNCHANGED <<live, resets, forgiven, generated, lost, wiped, dropped, counter, pending, ids>>

\* Xray restarts and starts counting at zero.
NodeRestart(n) ==
    /\ Fault
    /\ wiped' = Plus(wiped, n, counter[n], Emails)
    /\ counter' = [counter EXCEPT ![n] = Zero]
    /\ UNCHANGED <<userVars, generated, credited, again, lost, dropped, pending, ids, pc>>

\* The actor is replaced or stopped, or the control plane goes down: what it
\* holds in memory is gone.
ActorRestart(n) ==
    /\ Fault
    /\ wiped' = Plus(wiped, n, pending[n], Emails)
    /\ pending' = [pending EXCEPT ![n] = Zero]
    /\ ids' = [ids EXCEPT ![n] = Unresolved]
    /\ pc' = [pc EXCEPT ![n] = "idle"]
    /\ UNCHANGED <<userVars, generated, credited, again, lost, dropped, counter>>

-----------------------------------------------------------------------------

UserStep == \E u \in Users : CreateUser(u) \/ DeleteUser(u) \/ StoreResetTraffic(u)

CollectStep(n) ==
    \/ QueryUserTraffic(n)
    \/ UserIDsByEmail(n)
    \/ ApplyTrafficDeltas(n)

FaultStep(n) ==
    \/ QueryReplyLost(n)
    \/ DatabaseFails(n)
    \/ CommitReplyLost(n)
    \/ NodeRestart(n)
    \/ ActorRestart(n)

MeterNext ==
    \/ UserStep
    \/ \E n \in Nodes : CollectStep(n) \/ FaultStep(n) \/ \E e \in Emails : Traffic(n, e)

MeterSpec == MeterInit /\ [][MeterNext]_meterVars

\* The stats ticker of every actor fires for ever.
MeterFairSpec == MeterSpec /\ \A n \in Nodes : WF_meterVars(CollectStep(n))
-----------------------------------------------------------------------------
(***************************************************************************)
(* Properties.                                                             *)
(***************************************************************************)

\* Every byte a node has counted is in exactly one place: in the counter, in
\* the actor's memory, on a user's account, or gone for a reason the code
\* allows (a restart, a lost reply, an email without a user); only a commit
\* whose answer is lost makes a byte appear twice.  In particular a database
\* error loses nothing (the merge of pendingDeltas).
Conservation ==
    \A n \in Nodes, e \in Emails :
        generated[n][e] + again[n][e] =
            counter[n][e] + pending[n][e] + credited[n][e]
              + lost[n][e] + wiped[n][e] + dropped[n][e]

\* The running total and the snapshots of a user agree, whatever order the
\* nodes' transactions and the resets commit in: the total is the sum of the
\* snapshots less what resets forgave.
TotalsMatchSnapshots ==
    \A u \in Users :
        used[u] + forgiven[u] = MapThenSumSet(LAMBDA n : snap[n][u], Nodes)

\* Deltas are never added to an account under another email: what an email
\* was credited with on a node is on the accounts that carry it.
CreditedByEmail ==
    \A n \in Nodes, e \in Emails :
        credited[n][e] =
            MapThenSumSet(LAMBDA u : snap[n][u], {v \in Users : EmailOf[v] = e})

\* Nothing stays unaccounted for: once traffic and faults stop, counters and
\* buffers drain, also when users are deleted in the middle of a cycle.
Drains == <>[](\A n \in Nodes : counter[n] = Zero /\ pending[n] = Zero)

\* The counters are reset on read and "each read is an unambiguous delta": no
\* byte is lost on the way from a running node to a running actor.
ReadsLoseNothing == \A n \in Nodes : lost[n] = Zero

\* pendingDeltas holds what was read and "not yet persisted": none of it is
\* on an account already.
PendingNotPersisted == \A n \in Nodes : again[n] = Zero
=============================================================================
