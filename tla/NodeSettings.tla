---------------------------- MODULE NodeSettings ----------------------------
(***************************************************************************)
(* The settings of a node: whether TLS is used, a CA certificate and       *)
(* a client certificate with its key.  What a request leaves out of the    *)
(* certificates is taken from the stored row, the result is validated as a *)
(* whole, the whole row is written back and an actor is started that dials *)
(* with the settings the request has written.  Requests overlap.           *)
(*                                                                         *)
(* Abstractions.  A PEM text is a model value; parsing it is membership in *)
(* a set, X509KeyPair a relation.  Name, address, port and server name are *)
(* left out.  What the actors do is in module Manager.                     *)
(***************************************************************************)
EXTENDS Naturals

CONSTANTS
    Clients,    \* requests that may be in progress at the same time
    CAs,        \* texts with a CA certificate
    Pairs,      \* names of key pairs: certificate <<"cert", p>>, key <<"key", p>>
    Junk,       \* a text that does not parse
    Empty,      \* the empty string: no material
    Absent,     \* a field the request leaves out (nil)
    MaxOps      \* bound: requests accepted

ASSUME SettingsAssumption == MaxOps \in Nat

VARIABLES
    exists,     \* the node has been created
    material,   \* the row: nodes.api_ca_cert, api_client_cert, api_client_key, api_tls
    dialled,    \* the settings of the actor in the map, what it dials with
    req,        \* per request: its next step, its input and the row it will write
    ops

settingsVars == <<exists, material, dialled, req, ops>>

CACerts == CAs \union {Junk, Empty}
ClientCerts == ({"cert"} \X Pairs) \union {Junk, Empty}
ClientKeys == ({"key"} \X Pairs) \union {Junk, Empty}

Settings == [ca : CACerts, cert : ClientCerts, key : ClientKeys, tls : BOOLEAN]
NoSettings == [ca |-> Empty, cert |-> Empty, key |-> Empty, tls |-> FALSE]

NodeInput == [ca : CACerts \union {Absent}, cert : ClientCerts \union {Absent},
              key : ClientKeys \union {Absent}, tls : BOOLEAN]
NothingGiven == [ca |-> Absent, cert |-> Absent, key |-> Absent, tls |-> FALSE]

Idle == [pc |-> "idle", in |-> NothingGiven, node |-> NoSettings]

SettingsTypeOK ==
    /\ exists \in BOOLEAN
    /\ material \in Settings
    /\ dialled \in Settings
    /\ req \in [Clients -> [pc : {"idle", "insert", "update", "start"},
                            in : NodeInput, node : Settings]]
    /\ ops \in 0..MaxOps

SettingsInit ==
    /\ exists = FALSE
    /\ material = NoSettings
    /\ dialled = NoSettings
    /\ req = [c \in Clients |-> Idle]
    /\ ops = 0

-----------------------------------------------------------------------------

\* tls.X509KeyPair
X509KeyPair(cert, key) == \E p \in Pairs : cert = <<"cert", p>> /\ key = <<"key", p>>

\* A configuration can be built from the material.
buildTLSConfig(n) ==
    /\ n.ca # Empty => n.ca \in CAs
    /\ (n.cert # Empty \/ n.key # Empty) => X509KeyPair(n.cert, n.key)

\* Dial: without TLS the material is not looked at.
Dials(n) == n.tls => buildTLSConfig(n)

\* The fields that are given replace those read; api_tls is always given.
Applied(n, in) == [f \in DOMAIN n |-> IF in[f] = Absent THEN n[f] ELSE in[f]]

\* The merged material is what is validated, whether TLS is used or not.
ValidateTLSMaterial(n, in) == buildTLSConfig(Applied(n, in))

Accept(c) ==
    /\ req[c].pc = "idle"
    /\ ops < MaxOps
    /\ ops' = ops + 1

\* A request that fails validation is answered 400 and changes nothing.
Validated(c, p, n, in) ==
    req' = IF ValidateTLSMaterial(n, in)
             THEN [req EXCEPT ![c] = [pc |-> p, in |-> in, node |-> Applied(n, in)]]
             ELSE req

Create(c, in) ==
    /\ Accept(c)
    /\ ~ exists
    /\ \A d \in Clients : req[d].pc = "idle"
    /\ Validated(c, "insert", NoSettings, in)
    /\ UNCHANGED <<exists, material, dialled>>

\* Mutant: the input is written, not the merged settings.
CreateNode_WritesInput(c) ==
    /\ req[c].pc = "insert"
    /\ exists' = TRUE
    /\ material' = req[c].in
    /\ req' = [req EXCEPT ![c].pc = "start", ![c].in = NothingGiven]
    /\ UNCHANGED <<dialled, ops>>

CreateNode(c) ==
    /\ req[c].pc = "insert"
    /\ exists' = TRUE
    /\ material' = req[c].node
    /\ req' = [req EXCEPT ![c].pc = "start", ![c].in = NothingGiven]
    /\ UNCHANGED <<dialled, ops>>

\* Update reads the row, merges and validates, ...
Update(c, in) ==
    /\ Accept(c)
    /\ exists
    /\ Validated(c, "update", material, in)
    /\ UNCHANGED <<exists, material, dialled>>

\* Mutant: only the fields the request gives are written.
UpdateNode_GivenFields(c) ==
    /\ req[c].pc = "update"
    /\ material' = Applied(material, req[c].in)
    /\ req' = [req EXCEPT ![c].pc = "start", ![c].in = NothingGiven]
    /\ UNCHANGED <<exists, dialled, ops>>

\* ... writes the whole row, ...
UpdateNode(c) ==
    /\ req[c].pc = "update"
    /\ material' = req[c].node
    /\ req' = [req EXCEPT ![c].pc = "start", ![c].in = NothingGiven]
    /\ UNCHANGED <<exists, dialled, ops>>

\* ... and replaces the actor by one with the settings it has in memory.
Reconnect(c) ==
    /\ req[c].pc = "start"
    /\ dialled' = req[c].node
    /\ req' = [req EXCEPT ![c] = Idle]
    /\ UNCHANGED <<exists, material, ops>>

\* The process starts again: actors have the settings of the rows.
Restart ==
    /\ exists
    /\ dialled' = material
    /\ req' = [c \in Clients |-> Idle]
    /\ UNCHANGED <<exists, material, ops>>

SettingsNext ==
    \/ \E c \in Clients :
        \/ \E in \in NodeInput : Create(c, in) \/ Update(c, in)
        \/ CreateNode(c)
        \/ UpdateNode(c)
        \/ Reconnect(c)
    \/ Restart

SettingsSpec == SettingsInit /\ [][SettingsNext]_settingsVars

-----------------------------------------------------------------------------
(***************************************************************************)
(* Properties.                                                             *)
(***************************************************************************)

\* "Cert/CA material is validated when the node is created or updated": what
\* is stored, and what the actor has in memory, always makes a configuration,
\* so that Dial fails for no node, also when updates of different fields
\* overlap and when an update turns TLS on over material stored without it.
StoredMaterialBuilds == Dials(material) /\ Dials(dialled) /\ buildTLSConfig(material)

\* "nil leaves the stored value unchanged (so a PATCH never wipes the
\* write-only client key)": a write of a request that gives no value for a
\* field leaves that field of the row as it is.
AbsentLeavesUnchanged ==
    [][\A c \in Clients :
        (req[c].pc = "update" /\ req'[c].pc = "start")
            => \A f \in DOMAIN material :
                req[c].in[f] = Absent => material'[f] = material[f]]_settingsVars

\* "Reconnect with new settings": when no request is in progress the actor
\* dials with the settings that are stored.
ActorHasStoredSettings ==
    exists /\ (\A c \in Clients : req[c].pc = "idle") => dialled = material

\* The inductive invariant behind StoredMaterialBuilds: what the requests in
\* progress are going to write and to start an actor with makes a configuration
\* as well, with TLS or without.
SettingsInv ==
    /\ SettingsTypeOK
    /\ buildTLSConfig(material) /\ buildTLSConfig(dialled)
    /\ \A c \in Clients : buildTLSConfig(req[c].node)
=============================================================================
