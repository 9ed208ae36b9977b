# Verification of xray-api in TLA+

xray-api is a control plane for a fleet of Xray nodes. PostgreSQL holds users,
their assignments to inbounds, traffic and nodes; each node has one *actor* (a
goroutine) that pushes users, collects traffic and probes health over gRPC; HTTP
requests and billing webhooks change the database and trigger the actors. This
directory models the parts that share state, checks them with TLC on small
instances and proves their safety properties with TLAPS.

## The system and its modules

| Part of the code | Module | State | Actions |
|---|---|---|---|
| `worker/reconciler.go`, `store/assignments.go`, assignment side of `service/users.go` | `Reconcile` | users, `user_inbounds`, runtime users of each node, trigger channels, the pass in progress, requests in progress | one per SQL statement or transaction, gRPC call, trigger; failures, node restart, crash |
| `worker/collector.go`, `store/traffic.go`, `xray/stats.go` | `Metering` | counters of the nodes, `pendingDeltas`, totals, snapshots, history of every byte | query with reset, resolution, transaction, their failures and lost answers |
| `service/users.go`, `store/users.go`, plans, the quota header | `Lifecycle` | one row of `users`, its plan, requests that hold a copy of the row | first and later statements of each operation, collection, sweep, change and deletion of the plan |
| `service/billing.go`, `httpapi/webhooks.go`, `store/webhooks.go` | `Billing` (implements `Inbox`) | recorded events, users, handlers in progress, answers | delivery, record, each action's statements, answer, failure |
| `worker/nodeactor.go` (health), status side of `service/nodes.go` | `Health` | the node, the fields of its actors (a replaced one may still run), updates in progress, the row's status | ping, status write, pass, exit; read, write and start by Update; restart, outage, start of the process |
| `worker/manager.go`, actor loop, node side of `service/nodes.go` | `Manager` | the map of actors, each actor's loop, requests | start, stop, trigger, probe, pass, exit, shutdown |
| `cmd/xray-api/main.go` (`runServe`) | `Program`, on top of `Manager` | where `runServe` is, its exit code | signal, Shutdown and its timeout, error of the listener, Stop, exit, crash, start |
| inbounds in `service/nodes.go`, `store/inbounds.go` | `Inbounds` | tags, assignments, statuses, runtime users per tag, pass, requests | create, rename, delete, creation and suspension of users, each step of a pass and its refusal |
| TLS settings in `service/nodes.go`, `xray/client.go` | `NodeSettings` | the stored settings, those of the actor, requests that hold a merged copy | create, partial update, start of the actor, restart |
| `sublink/`, `xray/accounts.go`, validation in `service/nodes.go` | `Sublink` (operators) | none | what a link, a proxy and an account say of an inbound |
| `httpapi/subscription.go` with assignments and tokens | `Subscription` | one inbound, its assignment, the account on the node, the token, a fetch in progress | store, delete, assign, rotate, edit, pass, node restart, fetch |
| `httpapi/ratelimit.go` | `RateLimit` (implements `Limiter`) | the map of buckets | `allow`, passage of time |

`Limiter` and `Inbox` are abstract: what the two components promise, without
maps, pruning, handlers or statements. `MC*` modules define the sets the
configurations need.

How they fit together: a request commits (Lifecycle: what it writes; Reconcile
and Inbounds: which rows) and calls the manager (Manager: which actor gets the
trigger; Program: what a shutdown or a crash makes of it); the actor runs a pass
(Reconcile), a collection (Metering), a probe (Health). Subscription looks at the
same rows from the side of the client. The collector's transaction appears twice,
for what it adds up (Metering) and for whom it suspends (Lifecycle); a suspension
or an expiry then becomes `Sweep` in Reconcile. Each module says in its header
what it abstracts and where the rest is. `PROJECT.json` maps every definition to its lines.

A step is one SQL statement, transaction or gRPC call; between two steps of a
request or pass anything else may happen. Fields that no property tells apart
are left out. Bookkeeping variables (what was asked for, where a byte went, what
the provider was told) are never read by an action's guard on behalf of the
code. Definitions named `X_Something` before a definition `X` are variants with
a plausible error; with one of them in place of `X` the named property fails.

## Runs

| Run | Shows | Bounds |
|---|---|---|
| `reconcile` | `NoForgottenWork`: with the actor at rest and no trigger pending or owed, every row is in force. `OnlyTombstonesPurged`. `Converges` in spite of a fault | 2 users that have one email in turn, 2 inbounds, 1 node, 2 overlapping requests, 3 operations, 1 fault |
| `metering` | `Conservation` of bytes, `TotalsMatchSnapshots`, `CreditedByEmail`, `Drains` | 2 nodes, 2 users with their own emails, 2 bytes, 2 traffic resets per user, 2 faults |
| `lifecycle` | `TimeIsPaidFor`: no expiry beyond what committed requests grant. `DisabledUntilAsked` and `OnlyOverlapShortens`: a suspension by the admin ends, and an expiry moves back, only by a request that asks for it or that read the row before. `Enforced` | 2 overlapping requests, 2 operations beside changes of the plan, a user created active or disabled, expiry 2 or none, time to 1, 1 fault |
| `billing` | `AtMostOnce`, `OneAccount`, `ReplaysAcknowledged`, `ImplementsInbox` | 6 events, 2 handlers, 4 deliveries, 1 fault |
| `health` | `LongUptimeRestartNoticed`, `OfflineNeedsMisses`, `ShownOnline`, `OfflineShown` | 2 actors at a time, 1 update or start, uptime to 2, 1 restart, 1 outage, 1 fault |
| `program` | `RunningIsRegistered`, `ServedNodeHasActor`, `CleanExit`, `ChangeSurvives`, `SignalEnds`, `ActorsExit` | 2 actors, 2 overlapping requests, 2 operations, 1 missed probe, 1 failed statement, 2 outages (signal, error or crash) |
| `inbounds` | `NodeFollowsRows`: at rest, the node has what the rows say, except what a pass that gave up did not reach. `SuspendedLeaves`, although a push may be refused for ever | 2 inbounds, 2 tags of which the node has one, 2 users, 2 requests, 5 operations |
| `node_settings` | `StoredMaterialBuilds` | 2 key pairs, a CA, a text that does not parse, 2 requests, 3 operations |
| `subscription` | `StoredInboundWorks`, `FormatsAgree`, `ClientMatchesNode` | every protocol, transport and security, refused and empty values; all optional texts or none; 2 stores, 2 tokens |
| `rate_limit` | `Refilled`: the tokens of a bucket follow from its idle time. `ImplementsLimiter`: refinement of a limiter without pruning | 3 addresses, burst 2, threshold 1 |

`reconcile`, `lifecycle`, `health`, `program`, `inbounds`, `node_settings` and
`subscription` also check the inductive invariant of the proofs (`IInv`,
`LifecycleInv`, `HealthInv`, `ProgramInv`, `InboundsInv`, `SettingsInv`,
`SubInv`), which contains the type invariant of the module. The type invariants
of Metering, Billing and RateLimit are proved (below) and not repeated by the
runs.

Two runs are expected to find a violation: each states a sentence of the
documentation or of a comment that the code does not keep, quoted in
`PROJECT.json` under `findings`.

| Run | What happens |
|---|---|
| `reconcile_delete` | the cascade of Delete takes the tombstones away before the pass reads them; the user stays on the node |
| `billing_retries` | an event whose action failed is acknowledged on retry and never executed |

## Further configurations

These are kept beside the runs. `Manager.cfg` passes: it checks `NodeHasActor`
and `ChangeReachesPass` with more operations than `program` and without outages.
In each of the others TLC finds a violation of the named property; the files
named `...Further` list several, to be checked one at a time. The last column is
the sentence that the property restates (paths below `src/`, and below
`src/internal/` for Go files).

| Configuration, module, property | What happens | Against |
|---|---|---|
| `ReconcileMark`, `MCReconcile`, `UnrequestedIsTombstoned` | `MarkAssignmentSynced` (`store/assignments.go:69`) marks a row applied over a tombstone written since it was loaded | `store/assignments.go:90`: "tombstones removed ones as 'removing'" |
| `ReconcileReassign`, `MCReconcile`, `RequestedIsAssigned` | an inbound assigned again before its tombstone is purged stays a tombstone (`store/assignments.go:102`) | `service/users.go:164`: "SetInbounds replaces a user's assignment set" |
| `ReconcileTargets`, `MCReconcile`, `RemovedFromNodesReconcile` | of two overlapping SetInbounds, one tombstones a row on a node it does not wake (`service/users.go:177`) | `service/users.go:176`: "so removed-from nodes also reconcile" |
| `ReconcileCredentials`, `MCReconcile`, `AppliedMeansOwnCredentials` | a new user with an old email is marked applied while the node has the old credentials (`xray/users.go:54`) | `worker/reconciler.go:14`: "re-running is always safe" |
| `MeteringFurther`, `MCMetering`, `ReadsLoseNothing` | an answer lost after the reset loses the bytes (`worker/collector.go:24`) | `xray/stats.go:11`: "each read is an unambiguous delta" |
| `MeteringFurther`, `MCMetering`, `PendingNotPersisted` | an answer lost after the commit counts the bytes twice (`worker/collector.go:71`) | `worker/nodeactor.go:38`: "not yet persisted" |
| `LifecycleFurther`, `Lifecycle`, `RenewalsStack` | a request that overlaps a renewal writes back the expiry it read, and the extension is lost (`service/users.go:157`) | `service/users.go:241`: "so early renewals stack" |
| `LifecycleFurther`, `Lifecycle`, `DisabledStays` | a row written back from a stale copy undoes a suspension (`service/users.go:294`) | `service/users.go:287`: "unless the admin explicitly disabled the user" |
| `LifecycleFurther`, `Lifecycle`, `RenewalIsAtomic` | Renew resets the usage and cannot extend: the plan it read was deleted (`service/users.go:281`); with `MaxFaults = 1`, or the second statement fails | `service/users.go:251`: "Renew atomically extends" |
| `LifecycleFurther`, `Lifecycle`, `RenewalRestoresService` | a renewal does not restore service after cancel (`service/users.go:289`) | `docs/billing-webhooks.md:70`: "a later `renew` or `resume` restores service" |
| `LifecycleFurther`, `Lifecycle`, `ResetReactivates` | a collection suspends the user after ResetTraffic has read the row, and it stays suspended with no usage (`service/users.go:228`) | `service/users.go:219`: "reactivates a quota-suspended user" |
| `LifecycleFurther`, `Lifecycle`, `UnlimitedIsAnnounced` | a user with limit zero is announced as unlimited (`sublink/userinfo.go:15`) | `sublink/userinfo.go:11`: "total=0 means unlimited" |
| `HealthFurther`, `Health`, `RestartDetected` | a restart after a short uptime is missed (`worker/nodeactor.go:147`); the next periodic pass repairs it (`Converges`) | `README.md:21`: "re-pushed within one health interval" |
| `HealthFurther`, `Health`, `OnlineAgrees` | Update writes back the status it read before a probe (`store/nodes.go:71`), or the replaced actor writes after its successor (`worker/manager.go:117`); the next probe repairs it (`ShownOnline`) | `worker/nodeactor.go:16`: "Every mutation runs in this one goroutine, so [...] races [...] cannot occur" |
| `HealthFurther`, `Health`, `ShownOffline` | an actor that starts with an unreachable node never writes offline (`worker/nodeactor.go:133`) | `domain/node.go:5`: "the observed health" |
| `ManagerOverlap`, `Manager`, `OneActorActs` | the replaced actor is in the middle of a pass when its successor acts (`worker/manager.go:117`) | `worker/nodeactor.go:16`: "never interleave" |
| `ManagerOrphan`, `Manager`, `ActorIffNode` | Create or Update overlaps Delete and leaves an actor without a node (`service/nodes.go:151`) | `worker/manager.go:129`: "tears down a node's actor (on delete/disable)" |
| `ManagerDeleteFails`, `Manager`, `ActorIffNode` | Delete stops the actor and its statement fails (`service/nodes.go:156`) | `README.md:48`: "continuously converges each node" |
| `ProgramTimeout`, `Program`, `StoreOutlivesWorkers` | the listener fails or Shutdown times out with a request in progress; after Stop has waited, the request starts an actor, and the store is closed (`worker/manager.go:104`) | `worker/manager.go:99`: "waits for them to exit" |
| `InboundsLeft`, `Inbounds`, `NoUserLeftBehind` | users stay on the node under the tag of a renamed or deleted inbound (`service/nodes.go:269`) | `README.md:48`, as above |
| `InboundsRefused`, `Inbounds`, `ActiveIsServed` | a tag that the node does not have ends every pass before other rows are pushed (`worker/reconciler.go:61`) | `worker/reconciler.go:13`: "converges the node to the DB-desired state" |
| `NodeSettingsFurther`, `NodeSettings`, `AbsentLeavesUnchanged` | overlapping partial updates restore values a request left out (`service/nodes.go:147`) | `service/nodes.go:40`: "nil leaves the stored value unchanged" |
| `NodeSettingsFurther`, `NodeSettings`, `ActorHasStoredSettings` | of two updates one writes the row last and the other starts the actor last (`service/nodes.go:151`) | `service/nodes.go:150`: "Reconnect with new settings." |
| `SubscriptionFurther`, `MCSubscription`, `AccountFollowsInbound` | the flow of an inbound changes, and the account on the node stays as it was pushed (`service/nodes.go:269`) | `service/nodes.go:268`: "Tag/protocol changes affect what should be pushed; reconcile the node." |
| `SubscriptionFurther`, `MCSubscription`, `ListedIsAssigned` | an inbound that was taken from the user is listed until a pass removes the tombstone (`store/inbounds.go:63`) | `store/inbounds.go:60`: "returns the inbounds a user is assigned to" |
| `SubscriptionFurther`, `MCSubscription`, `ReplacedTokenStaysInvalid` | an Update that read the row before a rotation writes the old token back (`service/users.go:157`) | `service/users.go:301`: "invalidates old links" |
| `SubscriptionFurther`, `MCSubscription`, `VMessLinkComplete` | the VMess link has neither the path, host and mode of XHTTP nor the fingerprint and the keys of Reality (`sublink/links.go:152`) | `docs/node-setup.md:87-98` |

With `Clients = {c1}` TLC finds no violation in `ReconcileTargets`,
`ManagerOrphan` and `NodeSettingsFurther`, nor of `RenewalsStack`,
`DisabledStays` and `ReplacedTokenStaysInvalid`: these need two requests that
overlap. (`ReconcileTargets` has no faults; with one, the query of the old nodes
may fail, and a single request is enough.)

**Why the bounds are enough to be of interest.** The races take two actors and
at most three of their steps, so two overlapping requests beside a pass reach
them. Two inbounds make a pass have a rest (rows not yet processed); two users
with one email make slots change hands; one fault at any step covers every
abort. Two bytes and two faults in `metering` let a carried-over delta meet a
freshly read one, and a retry fail again. Several nodes matter to `Reconcile`
only through the set of nodes to wake: the `reconcile` run has one node, and the
theorems hold for any number. Two operations in `lifecycle` are two requests that
overlap in every way; a user that is disabled from the start spares the third. An
uptime of 2 in `health` tells a long uptime from a short one. A threshold
of 1 in `RateLimit` makes pruning happen all the time. Two outages in `program` let the
process crash again after it came back with a change still to be pushed. The
inputs of `subscription` cover every branch of the rendering; the theorems cover
every input.

**Deadlock** is checked except in `Billing`, where the provider may stop
sending, in `Manager` and `Program`, where no request need come and the process
may be down, and in `NodeSettings`, where no request need come.

## Fairness

Weak fairness of the steps of an accepted request (its goroutine goes on) and of
the actors' passes, collections, probes and of the sweeper (their tickers fire
for ever). In `Manager`, strong fairness of the choices of `select`, which picks
at random among the ready channels. `Program` adds that `runServe` goes on and
that whoever operates the service starts it again. In `Health` nothing is assumed
of the node. Requests, faults, restarts, signals, crashes and
deliveries are never fair. In `Lifecycle` the collector reaches its transaction
whenever a node reports a counter, zero or not, so its fairness needs a node that
answers.

## Proofs

The modules named `...Proofs` are checked by TLAPS for every value of the
constants, from the assumptions named in the modules: bounds are naturals, a
burst and the bound of the uptime are positive, `EmailOf` and `NodeOf` are functions, special
values (`None`, `Null`, `Keep`, "unused") differ from the proper ones, the fields
of an input have their types, there is an actor to start and a first token, and
nodes and users of Metering are finitely many. Every safety property of the runs
is a theorem. The pattern is the same throughout: an invariant is strengthened
until it is inductive, with one lemma or step per action, and the property
follows from it.
`UserProofs` and `NodeProofs` extend two modules each, so Metering and
NodeSettings name their specifications apart (`MeterSpec`, `SettingsSpec`).

| Module | About | Theorems |
|---|---|---|
| `ReconcileProofs` | Reconcile | `Invariance`, `TypeCorrect`, `NothingForgotten`, `LiveRowsStay` |
| `UserProofs` | Lifecycle | `LifecycleTypes`, `LifecycleInvariance`, `NoUnpaidTime`, `DisabledStaysDisabled`, `RenewalsKeepTime` |
| | Metering | `MeterTypes`, `BytesConserved`, `TotalsMatch`, `CreditedToEmail` |
| `BillingProofs` | Billing | `Invariance`, `ExecutedOnce`, `OnePurchaseOneAccount`, `Refinement` |
| `ProgramProofs` | Program, Manager | `ProgramInvariance`, `ProgramTypes`, `NoActorLost`, `NodeIsServed`, `ExitIsClean` |
| `InboundsProofs` | Inbounds | `InboundsInvariance`, `InboundsTypes`, `NodeFollows` |
| `NodeProofs` | NodeSettings | `SettingsInvariance`, `MaterialBuilds` |
| | Health | `HealthInvariance`, `OfflineIsDamped`, `RestartIsNoticed` |
| `SubscriptionProofs` | Subscription, Sublink | `Invariance`, `SubTypes`, `StoredWorks`, `Agreement`, `LinksWork` |
| `RateLimitProofs` | RateLimit | `Invariance`, `AlwaysRefilled`, `Refinement` |

*Reconcile.* `NoForgottenWork` speaks only of an actor at rest, so it is not
inductive. `IInv` adds what a pass knows on its way: `PassInv` (the rows held in
memory belong to the node, are distinct, and those loaded as tombstones still are
tombstones or their user is gone), and `Progress` (how far the pass has brought a
row that nothing else will wake: still to be removed, removed, still to be
pushed, pushed). Rows have users, and emails of existing users are unique, so
that no other row can disturb a slot on the node. `NextInv` has one lemma per
action. From `Invariance` follow `TypeCorrect`, `NothingForgotten` and the
action property `LiveRowsStay`.

The changes that nothing announces are those collected in the variable `untold`:
a pass that failed, a failed target query, a restart of the node, a crash, a
stale status written by RotateSubToken, a tombstone on a node SetInbounds does not
know of. The theorem says nothing of a node there until its next pass, and it says
that a row which wants a user on the node has one there, not whose credentials
it has (`ReconcileCredentials`). Reconcile and Inbounds take a node to have one
actor. An update of the node may leave the old actor in the middle of a pass
(`ManagerOverlap`); two passes over the same rows could mark a tombstone applied
before it is purged, and are not modelled.

*Lifecycle.* Every request but a few reads the row, computes, and writes it back
as a whole, and nothing keeps requests from overlapping. `LifecycleInv` therefore
compares what a request is about to write with what it read, not with the row as
it is by then: a request that read "disabled" and asks for no status writes
"disabled" (`KeepsDisabled`); one that asks for no expiry writes none earlier than
the one it read, and none later than what is granted once it commits
(`KeepsExpiry`). `granted` is history: the latest expiry that committed requests
give a right to, each renewal adding its days to the later of that and the time it
came. It only grows, so a step of one request leaves what the invariant says of
the others (`FitsMore`, `OneRequest`). Collections, sweeps, the clock and changes
of the plan touch neither an expiry nor a disabled user (`OtherFacts`).
`NoUnpaidTime`, `DisabledStaysDisabled` and `RenewalsKeepTime` follow for any
number of overlapping requests. They do not say that no update is lost: of two
overlapping requests one may undo the other, and TLC shows it (`RenewalsStack`,
`DisabledStays` in `LifecycleFurther`); they say that nothing else takes time away
or enables a user.

*Metering.* `BytesConserved` is inductive together with `MeterTypeOK`: each
action moves bytes of one node and email between two terms of the sum.
`TotalsMatchSnapshots` and `CreditedByEmail` are about sums over all nodes and
over the users with an email. The prover cannot be given an induction rule with a
predicate as its parameter, so the lemmas about sums argue with a smallest
counterexample: the strict subsets of a finite set are well founded, so among the
subsets for which a claim about a sum fails there is a minimal one
(`MinimalSet`). This gives that the table behind `MapThenSumSet` exists and is
unique (`SumsExist`, `SumsAgree`), that a sum is the chosen element and the sum
of the rest (`SumUnfolds`), and that a sum changes by what one of its terms
changes (`SumChanges`). A commit changes, for each user, one term of the user's
total; for the credits it needs `IdsCarryEmail`: a resolved id has the email it
was resolved for.

*Program.* `RunningIsRegistered` is inductive with the types. `ServedNodeHasActor`
and `CleanExit` look only at quiet moments; `ActorIsDue` says what holds while
requests are in progress (an actor is registered, or a request is about to start
one or to delete the node), and `CleanSoFar` that after a Shutdown without error
no request comes back, so no actor either once Stop has waited.

*Inbounds.* For every row, a trigger is on its way on behalf of its user
(`Announced`), or the pass that is under way or ended has dealt with the row as
it is now, or will (`Reached`); in both, the row's inbound exists and a request
knows what it is about.

*NodeSettings.* What a request is going to write and to start an actor with was
validated after the merge, so it makes a configuration as well as what is stored.
That overlapping updates may restore old values and leave the actor with others
than the row is in `NodeSettingsFurther`.

*Health.* Several actors of one node may run: one that was replaced is not waited
for. What an actor counts is the number of probes that failed since its last
success; an actor that has seen its node online holds the status "offline" only
when that number is the threshold (`OfflineIsDamped`); and after a restart the
node has not been up for longer than the time since the last successful probe,
which makes the comparison of uptimes sound (`RestartIsNoticed`).

*RateLimit.* The refinement maps an address without a bucket to a full one, so
pruning must only drop full buckets. `Refilled` says why it does: a bucket has at
least as many tokens as ticks it was idle for, up to the burst. With `TypeOK` it
is inductive (`Invariance`), a pruned bucket is full (`PrunedIsFull`), and each
step is a step of `Limiter` or leaves its variables alone (`Refinement`).

*Subscription.* `SubInv` says that tokens in use were issued, a stored row is
`Valid` (what `validate` and the defaults leave), so is the row behind an
assignment, the account on the node was built from the row as stored unless the
row has changed since, and no fetch has failed. The lemmas about the operators
(`ValidWorks`, `ValidSameTold`, `ValidPresents`) then give `StoredWorks`,
`Agreement` and `LinksWork` for every input, not only those of the run.
`Agreement` is exact about where the two formats differ (`SameTold`): a VMess link
has neither fingerprint and Reality keys nor the options of XHTTP, Reality with
neither key nor short id looks like TLS in a proxy, and a proxy gives the name of
the server as `servername`, with TLS also as `sni`.

*Billing.* `AtMostOnce` needs `Claims`: of the handlers of an event at most one
is past the insert of its id and not yet done, the event is recorded by then and
has not taken effect; an event that took effect is recorded. `OneAccount` needs
`UniqueIds`, and that the row a renewal will write has the external id of the row
it replaces (`Keeps`). `Refinement` maps the recorded events to those the inbox
has taken; every other step leaves the inbox alone.

**Only model-checked:** liveness, since the prover has neither fairness nor
ENABLED: `Converges`, `Drains`, `Enforced`, `ReplaysAcknowledged`,
`ShownOnline`, `OfflineShown`, `ChangeSurvives`, `SignalEnds`, `ActorsExit` and
`SuspendedLeaves`.

## Inventory and what is not modelled

`PROJECT.json` lists every part under `components` and every hazard with the
properties that cover it under `hazards`.

Not modelled:

- API keys: independent rows and one lookup per request; nothing else reads them.
- Configuration, metrics, version, routing, JSON encoding and migrations: read
  once, write-only, or pure I/O.
- The signature check of webhooks and the decoding of requests: they come before
  any state.
- The other subcommands of `main.go`.
- The pruner of traffic snapshots and the usage report: no step of the system
  reads what they delete or sum.
- Escaping, Base64 and YAML of subscriptions, remarks, and the protobuf of
  accounts: `Sublink` keeps what they tell, not how it is written.
- Creation and names of plans: independent rows.
- The statements inside SetAssignmentsForUserTx: the transaction is one step. What
  its statements see of each other under READ COMMITTED is decided by the
  database, and no line of the code says which of two overlapping requests wins.
- Overflow of int64 counters: it takes 2^63 bytes.

## Running

In this directory, `tlc -config X.cfg M` for the module and configuration of a
run in `PROJECT.json`, and `tlapm M.tla` for every module named `...Proofs`.
tlapm becomes slower with every obligation it encodes for the SMT solver within
one module, so leaves without arithmetic name Zenon.
