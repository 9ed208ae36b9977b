---------------------------- MODULE Subscription ----------------------------
(***************************************************************************)
(* One user and one inbound: requests store and change the inbound, assign *)
(* it, rotate the subscription token and edit the user; passes push the    *)
(* user's account to the node; clients fetch the subscription with a token *)
(* they were given at some time.                                           *)
(*                                                                         *)
(* Abstractions.  A pass is one step and succeeds (module Reconcile has    *)
(* its interleavings), and the user is active.  The configuration of the   *)
(* node follows the inbound: what it was changed to is in force after the  *)
(* next restart of the node.  Tokens are numbers in the order of issue.    *)
(***************************************************************************)
EXTENDS Naturals, Sublink

CONSTANTS
    Inputs,     \* bodies of requests that create or change the inbound
    Clients,    \* requests for the user that may be in progress at the same time
    None,
    MaxTokens,  \* bound: tokens issued
    MaxStored   \* bound: creations and changes of the inbound

ASSUME SubscriptionAssumption ==
    /\ MaxTokens \in Nat \ {0} /\ MaxStored \in Nat
    /\ \A in \in Inputs :
        /\ {in.protocol, in.network, in.security, in.method, in.mode} \subseteq STRING
        /\ in.given \subseteq Optional
        /\ in.addressed \in BOOLEAN

VARIABLES
    inbound,    \* the row of the inbound, or None
    row,        \* user_inbounds.sync_status: "none" without a row
    account,    \* the account of the user that the node holds, or None
    current,    \* the account was pushed for the inbound as it is stored now
    token,      \* users.sub_token
    issued,     \* tokens issued so far
    req,        \* per request: the token it read and will write, or None
    get,        \* a request for the subscription: its next step and what it found
    stored

vars == <<inbound, row, account, current, token, issued, req, get, stored>>

user == [uuid |-> "uuid", password |-> "password"]

Idle == [pc |-> "idle", listed |-> {}]

SubTypeOK ==
    /\ inbound = None \/
        /\ DOMAIN inbound = {"protocol", "network", "security", "method", "mode", "given"}
        /\ inbound.network \in Networks /\ inbound.security \in Securities
    /\ row \in {"none", "live", "removing"}
    /\ current \in BOOLEAN
    /\ token \in 1..issued /\ issued \in 1..MaxTokens
    /\ req \in [Clients -> 1..issued \union {None}]
    /\ get.pc \in {"idle", "list", "200", "404", "500"}
    /\ stored \in 0..MaxStored

Init ==
    /\ inbound = None
    /\ row = "none"
    /\ account = None
    /\ current = TRUE
    /\ token = 1 /\ issued = 1
    /\ req = [c \in Clients |-> None]
    /\ get = Idle
    /\ stored = 0

-----------------------------------------------------------------------------

\* CreateInbound and UpdateInbound: the input replaces the row as a whole.
StoreInbound(in) ==
    /\ stored < MaxStored
    /\ validate(in)
    /\ inbound' = inboundFromInput(in)
    /\ current' = FALSE
    /\ stored' = stored + 1
    /\ UNCHANGED <<row, account, token, issued, req, get>>

\* The assignment goes with the inbound; the account stays on the node.
DeleteInbound ==
    /\ inbound # None
    /\ inbound' = None
    /\ row' = "none"
    /\ UNCHANGED <<account, current, token, issued, req, get, stored>>

\* SetInbounds inserts a row unless there is one, or makes it a tombstone.
SetInbounds ==
    /\ inbound # None
    /\ row' \in {IF row = "none" THEN "live" ELSE row, IF row = "none" THEN "none" ELSE "removing"}
    /\ UNCHANGED <<inbound, account, current, token, issued, req, get, stored>>

\* RotateSubToken and UserService.Update read the row, ...
GetUser(c, rotate) ==
    /\ req[c] = None
    /\ IF rotate THEN issued < MaxTokens /\ issued' = issued + 1 ELSE UNCHANGED issued
    /\ req' = [req EXCEPT ![c] = IF rotate THEN issued' ELSE token]
    /\ UNCHANGED <<inbound, row, account, current, token, get, stored>>

\* ... and write it back as a whole, the token with it.
UpdateUser(c) ==
    /\ req[c] # None
    /\ token' = req[c]
    /\ req' = [req EXCEPT ![c] = None]
    /\ UNCHANGED <<inbound, row, account, current, issued, get, stored>>

-----------------------------------------------------------------------------

\* A pass: a tombstone is removed from the node and deleted, an account that is
\* there already is left as it is.
reconcile ==
    /\ \/ /\ row = "removing"
          /\ account' = None
          /\ row' = "none"
          /\ UNCHANGED current
       \/ /\ row = "live"
          /\ Builds(user, inbound)
          /\ account' = IF account = None THEN buildUser(user, inbound) ELSE account
          /\ current' = (current \/ account = None)
          /\ UNCHANGED row
    /\ UNCHANGED <<inbound, token, issued, req, get, stored>>

NodeRestarts ==
    /\ account' = None
    /\ UNCHANGED <<inbound, row, current, token, issued, req, get, stored>>

-----------------------------------------------------------------------------

\* GetUserBySubToken, ...
SubscriptionByToken(t) ==
    /\ get.pc # "list"
    /\ get' = [pc |-> IF t = token THEN "list" ELSE "404", listed |-> {}]
    /\ UNCHANGED <<inbound, row, account, current, token, issued, req, stored>>

\* The join with user_inbounds does not look at sync_status.
ListInboundsForUser == IF row = "none" THEN {} ELSE {inbound}

\* ... then the inbounds, and the rendering in one format or the other.
handleSubscription(format) ==
    LET found == ListInboundsForUser
        fails == format = "v2ray" /\ \E ib \in found : ~Renders(user, ib)
    IN  /\ get.pc = "list"
        /\ get' = [pc |-> IF fails THEN "500" ELSE "200",
                   listed |-> IF fails THEN {}
                              ELSE IF format = "clash" THEN {clashProxyFor(user, ib) : ib \in found}
                              ELSE {Link(user, ib) : ib \in found}]
        /\ UNCHANGED <<inbound, row, account, current, token, issued, req, stored>>

-----------------------------------------------------------------------------

Next ==
    \/ \E in \in Inputs : StoreInbound(in)
    \/ DeleteInbound
    \/ SetInbounds
    \/ \E c \in Clients : UpdateUser(c) \/ \E rotate \in BOOLEAN : GetUser(c, rotate)
    \/ reconcile
    \/ NodeRestarts
    \/ \E t \in 1..issued : SubscriptionByToken(t)
    \/ \E format \in {"v2ray", "clash"} : handleSubscription(format)

Spec == Init /\ [][Next]_vars

\* The reconcile ticker fires for ever.
FairSpec == Spec /\ WF_vars(reconcile)
-----------------------------------------------------------------------------
(***************************************************************************)
(* Properties.                                                             *)
(***************************************************************************)

\* What validate and inboundFromInput leave of an input.
Valid(ib) ==
    /\ ib.protocol \in Protocols
    /\ ib.network \in Networks
    /\ ib.security \in Securities
    /\ ib.protocol = "shadowsocks" => ib.method \in ShadowsocksMethods

\* The inductive invariant: the row that CreateInbound and UpdateInbound left is
\* valid, and an assignment has such a row behind it (user_inbounds refers to
\* inbounds and goes with them); the account that reconcile put on the node was
\* built from the row that is stored, unless the row has changed since; and
\* handleSubscription has not failed.
SubInv ==
    /\ SubTypeOK
    /\ inbound # None => Valid(inbound)
    /\ row # "none" => Valid(inbound)
    /\ inbound # None /\ account # None /\ current => account = buildUser(user, inbound)
    /\ get.pc # "500"

\* What CreateInbound and UpdateInbound accept can be used: V2Ray does not fail
\* on it, so the owner of a valid token is never answered with an error, and
\* buildUser makes an account of it, so it does not end every pass of its node.
StoredInboundWorks == get.pc # "500" /\ (inbound # None => Builds(user, inbound))

\* The functions of links.go and clashProxyFor agree on every inbound that can be
\* stored: share link and Clash proxy name the same protocol, secret, cipher,
\* transport, security and options, apart from the differences that SameTold
\* lists (what a VMess link leaves out, keyless Reality, the fields for the
\* server name), and they do differ in these.
FormatsAgree ==
    inbound # None => SameTold(Link(user, inbound), clashProxyFor(user, inbound), inbound)

\* Links work: what a client presents that was told of an inbound, in either
\* format, is the account that the node holds, if the account was pushed for
\* the inbound as it is stored.
ClientMatchesNode ==
    (inbound # None /\ account # None /\ current) =>
        /\ Presents(Link(user, inbound)) = account
        /\ Presents(clashProxyFor(user, inbound)) = account

\* "Tag/protocol changes affect what should be pushed; reconcile the node":
\* the account on the node is soon that of the inbound as it is stored.
AccountFollowsInbound ==
    row = "live" ~> row # "live" \/ account = buildUser(user, inbound)

\* "ListInboundsForUser returns the inbounds a user is assigned to": an inbound
\* that was taken from the user is not listed.
ListedIsAssigned ==
    [][get.pc = "list" /\ get'.pc = "200" /\ row # "live" => get'.listed = {}]_vars

\* "issues a new subscription token (invalidates old links)": a token that was
\* replaced is not accepted again.
ReplacedTokenStaysInvalid == [][token' >= token]_vars

\* "What the control plane can provision and render into subscription links":
\* the link of a VMess inbound has all that its proxy in Clash has.
VMessLinkComplete ==
    inbound # None => Options(Link(user, inbound)) = Options(clashProxyFor(user, inbound))
=============================================================================
