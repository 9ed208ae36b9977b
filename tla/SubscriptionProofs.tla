------------------------- MODULE SubscriptionProofs -------------------------
(***************************************************************************)
(* Every inbound that validate accepts can be rendered and provisioned,    *)
(* and its links, its proxies and its accounts agree: for every input, not *)
(* only those of the instance that TLC checks.                             *)
(***************************************************************************)
EXTENDS Subscription, TLAPS

-----------------------------------------------------------------------------
(***************************************************************************)
(* Lemmas about the operators.                                             *)
(***************************************************************************)

\* CreateInbound and UpdateInbound store valid rows only.
LEMMA StoredIsValid ==
    ASSUME NEW in, validate(in)
    PROVE  Valid(inboundFromInput(in))
  BY DEF validate, Valid, inboundFromInput, Networks, Securities

\* A parameter is told only if it is asked for.
LEMMA GivenIsAsked ==
    ASSUME NEW ib, NEW S
    PROVE  Given(ib, S) \subseteq S
  BY DEF Given

LEMMA GivenUnion ==
    ASSUME NEW ib, NEW S, NEW T
    PROVE  Given(ib, S) \union Given(ib, T) = Given(ib, S \union T)
  BY DEF Given

\* The flow has a parameter of its own, which no transport uses.
LEMMA NoFlowInStream ==
    ASSUME NEW ib
    PROVE  "flow" \notin streamParams(ib) /\ "flow" \notin clashParams(ib)
  <1>1. "flow" \notin streamParams(ib)
    BY GivenIsAsked, SMTT(30) DEF streamParams
  <1>2. "flow" \notin clashOpts(ib) /\ "flow" \notin clashNames(ib)
    BY GivenIsAsked, SMTT(30) DEF clashOpts, clashNames
  <1> QED
    BY <1>1, <1>2 DEF clashParams

LEMMA FlowGiven ==
    ASSUME NEW ib
    PROVE  "flow" \in Given(ib, {"flow"}) <=> "flow" \in ib.given
  BY DEF Given

\* streamParams and clashProxyFor choose the same options.
LEMMA SameParams ==
    ASSUME NEW ib, Valid(ib)
    PROVE  streamParams(ib) \ {"sni", "servername"} = clashOpts(ib)
  <1> DEFINE N == CASE ib.network \in {"ws", "httpupgrade"} -> {"path", "host"}
                    [] ib.network = "grpc" -> {"service"}
                    [] ib.network = "xhttp" -> {"path", "host", "mode"}
                    [] OTHER -> {}
             S == CASE ib.security = "tls" -> {"sni", "fp"}
                    [] ib.security = "reality" -> {"sni", "fp", "pbk", "sid"}
                    [] OTHER -> {}
             C == (IF ib.security \in {"tls", "reality"} THEN {"fp"} ELSE {})
                  \union (IF ib.security = "reality" THEN {"pbk", "sid"} ELSE {})
                  \union (IF ib.network \in {"ws", "httpupgrade", "xhttp"} THEN {"path", "host"}
                                                                           ELSE {})
                  \union (IF ib.network = "grpc" THEN {"service"} ELSE {})
                  \union (IF ib.network = "xhttp" THEN {"mode"} ELSE {})
  <1>1. streamParams(ib) = Given(ib, N) \union Given(ib, S)
    BY DEF streamParams
  <1>2. clashOpts(ib) = Given(ib, C)
    BY DEF clashOpts
  <1>3. (N \union S) \ {"sni", "servername"} = C
    OBVIOUS
  <1> HIDE DEF N, S, C
  <1> QED
    BY <1>1, <1>2, <1>3 DEF Given

\* The server name in streamParams and in clashProxyFor.
LEMMA SameName ==
    ASSUME NEW ib, Valid(ib)
    PROVE  /\ "sni" \in streamParams(ib)
                <=> ib.security \in {"tls", "reality"} /\ "sni" \in ib.given
           /\ "servername" \notin streamParams(ib)
           /\ "servername" \in clashNames(ib)
                <=> ib.security \in {"tls", "reality"} /\ "sni" \in ib.given
           /\ "sni" \in clashNames(ib) <=> ib.security = "tls" /\ "sni" \in ib.given
           /\ clashNames(ib) \subseteq {"sni", "servername"}
           /\ "sni" \notin clashOpts(ib) /\ "servername" \notin clashOpts(ib)
  <1>1. \A S : "sni" \in Given(ib, S) <=> "sni" \in S /\ "sni" \in ib.given
    BY DEF Given
  <1>2. Given(ib, {"sni"}) = {} <=> "sni" \notin ib.given
    BY DEF Given
  <1>3. "sni" \in streamParams(ib) <=> ib.security \in {"tls", "reality"} /\ "sni" \in ib.given
    BY <1>1, SMTT(30) DEF streamParams
  <1>4. "servername" \notin streamParams(ib)
    BY GivenIsAsked, SMTT(30) DEF streamParams
  <1>5. "sni" \notin clashOpts(ib) /\ "servername" \notin clashOpts(ib)
    BY GivenIsAsked, SMTT(30) DEF clashOpts
  <1> QED
    BY <1>2, <1>3, <1>4, <1>5 DEF clashNames

\* A link can be made of a valid inbound, and an account.
LEMMA ValidWorks ==
    ASSUME NEW ib, Valid(ib)
    PROVE  Renders(user, ib) /\ Builds(user, ib)
  <1>1. Renders(user, ib)
    BY DEF Valid, Protocols, Renders, Link, Unsupported, Told, vlessLink, trojanLink, vmessLink,
           shadowsocksLink
  <1>2. Builds(user, ib)
    BY DEF Valid, Protocols, ShadowsocksMethods, Builds, buildUser, shadowsocksCipher
  <1> QED
    BY <1>1, <1>2

\* The security that clashProxyFor tells.
LEMMA SameSecurity ==
    ASSUME NEW ib, Valid(ib)
    PROVE  clashSecurity(ib) = IF ib.security = "reality" /\ {"pbk", "sid"} \intersect clashOpts(ib) = {}
                                 THEN "tls" ELSE ib.security
  <1>1. ib.security = "reality"
          => {"pbk", "sid"} \intersect clashOpts(ib) = Given(ib, {"pbk", "sid"})
    BY DEF clashOpts, Given
  <1> QED
    BY <1>1 DEF clashSecurity, Valid, Securities

\* Of a stream whose link has the parameters P and whose proxy has Q, and the
\* flow F in both, it is enough to compare P and Q.
LEMMA SameStream ==
    ASSUME NEW ib, Valid(ib), NEW scheme, NEW secret, NEW P, NEW F, F \subseteq {"flow"},
           clashOpts(ib) = (P \ {"sni", "servername"}) \union LinkOmits(ib),
           P \intersect LinkOmits(ib) = {}, F \intersect LinkOmits(ib) = {},
           "sni" \in P <=> ib.security \in {"tls", "reality"} /\ "sni" \in ib.given
    PROVE  SameTold(Told(scheme, secret, "", ib.network, ib.security, P \union F),
                    Told(scheme, secret, "", ib.network, clashSecurity(ib), clashParams(ib) \union F),
                    ib)
  <1> DEFINE l == Told(scheme, secret, "", ib.network, ib.security, P \union F)
             Q == clashParams(ib) \union F
             p == Told(scheme, secret, "", ib.network, clashSecurity(ib), Q)
  <1>1. /\ l.scheme = scheme /\ l.secret = secret /\ l.cipher = "" /\ l.network = ib.network
        /\ l.security = ib.security /\ l.params = P \union F
        /\ p.scheme = scheme /\ p.secret = secret /\ p.cipher = "" /\ p.network = ib.network
        /\ p.security = clashSecurity(ib) /\ p.params = Q
    BY DEF Told
  <1>2. Q \ {"sni", "servername"} = clashOpts(ib) \union F
    BY SameName DEF clashParams
  <1>3. {"pbk", "sid"} \intersect Q = {"pbk", "sid"} \intersect clashOpts(ib)
    BY <1>2
  <1>4. /\ "servername" \in Q <=> "sni" \in P \union F
        /\ "sni" \in Q <=> "sni" \in P \union F /\ ib.security = "tls"
    BY SameName DEF clashParams
  <1> HIDE DEF l, p, Q
  <1>5. Options(p) = Options(l) \union LinkOmits(ib) /\ Options(l) \intersect LinkOmits(ib) = {}
    BY <1>1, <1>2 DEF Options
  <1>6. SameTold(l, p, ib)
    BY <1>1, <1>3, <1>4, <1>5, SameSecurity DEF SameTold
  <1> QED
    BY <1>6 DEF l, p, Q

\* What the link of a VMess inbound tells and what it leaves out are the options
\* of its proxy.
LEMMA VMessParams ==
    ASSUME NEW ib, Valid(ib), ib.protocol = "vmess"
    PROVE  LET P == vmessLink(user, ib).params
           IN  /\ clashOpts(ib) = (P \ {"sni", "servername"}) \union LinkOmits(ib)
               /\ P \intersect LinkOmits(ib) = {}
               /\ "sni" \in P <=> ib.security \in {"tls", "reality"} /\ "sni" \in ib.given
  <1> DEFINE N == CASE ib.network \in {"ws", "httpupgrade"} -> {"path", "host"}
                    [] ib.network = "grpc" -> {"service"}
                    [] OTHER -> {}
             S == IF ib.security = "none" THEN {} ELSE {"sni"}
             O == (IF ib.security \in {"tls", "reality"} THEN {"fp"} ELSE {})
                  \union (IF ib.security = "reality" THEN {"pbk", "sid"} ELSE {})
                  \union (IF ib.network = "xhttp" THEN {"path", "host", "mode"} ELSE {})
             C == (IF ib.security \in {"tls", "reality"} THEN {"fp"} ELSE {})
                  \union (IF ib.security = "reality" THEN {"pbk", "sid"} ELSE {})
                  \union (IF ib.network \in {"ws", "httpupgrade", "xhttp"} THEN {"path", "host"}
                                                                           ELSE {})
                  \union (IF ib.network = "grpc" THEN {"service"} ELSE {})
                  \union (IF ib.network = "xhttp" THEN {"mode"} ELSE {})
  <1>1. vmessLink(user, ib).params = Given(ib, N) \union Given(ib, S)
    BY DEF vmessLink, Told
  <1>2. clashOpts(ib) = Given(ib, C)
    BY DEF clashOpts
  <1>3. LinkOmits(ib) = Given(ib, O)
    BY DEF LinkOmits
  <1>4. /\ C = ((N \union S) \ {"sni", "servername"}) \union O
        /\ (N \union S) \intersect O = {}
        /\ "sni" \in N \union S <=> ib.security \in {"tls", "reality"}
        /\ "sni" \notin N
    BY DEF Valid, Securities, Networks
  <1> HIDE DEF N, S, O, C
  <1> QED
    BY <1>1, <1>2, <1>3, <1>4 DEF Given

\* What SameTold says of a valid inbound.
LEMMA ValidSameTold ==
    ASSUME NEW ib, Valid(ib)
    PROVE  SameTold(Link(user, ib), clashProxyFor(user, ib), ib)
  <1> DEFINE F == Given(ib, {"flow"})
  <1>1. ib.protocol # "vmess" => LinkOmits(ib) = {}
    BY DEF LinkOmits
  <1>2. F \subseteq {"flow"} /\ {} \subseteq {"flow"}
    BY GivenIsAsked
  <1>3. CASE ib.protocol = "vless"
    <2>1. /\ Link(user, ib) = Told("vless", user.uuid, "", ib.network, ib.security, streamParams(ib) \union F)
          /\ clashProxyFor(user, ib) =
                Told("vless", user.uuid, "", ib.network, clashSecurity(ib), clashParams(ib) \union F)
      BY <1>3 DEF Link, vlessLink, clashProxyFor
    <2> DEFINE P == streamParams(ib)
    <2>2. /\ clashOpts(ib) = (P \ {"sni", "servername"}) \union LinkOmits(ib)
          /\ P \intersect LinkOmits(ib) = {} /\ F \intersect LinkOmits(ib) = {}
          /\ "sni" \in P <=> ib.security \in {"tls", "reality"} /\ "sni" \in ib.given
      BY <1>1, <1>3, SameParams, SameName
    <2> HIDE DEF F, P
    <2>3. SameTold(Told("vless", user.uuid, "", ib.network, ib.security, P \union F),
                   Told("vless", user.uuid, "", ib.network, clashSecurity(ib), clashParams(ib) \union F),
                   ib)
      BY <1>2, <2>2, SameStream, Zenon
    <2> QED
      BY <2>1, <2>3, Zenon DEF P
  <1>4. CASE ib.protocol = "trojan"
    <2>1. /\ Link(user, ib) = Told("trojan", user.password, "", ib.network, ib.security, streamParams(ib) \union {})
          /\ clashProxyFor(user, ib) =
                Told("trojan", user.password, "", ib.network, clashSecurity(ib), clashParams(ib) \union {})
      BY <1>4 DEF Link, trojanLink, clashProxyFor
    <2> DEFINE P == streamParams(ib)
    <2>2. /\ clashOpts(ib) = (P \ {"sni", "servername"}) \union LinkOmits(ib)
          /\ P \intersect LinkOmits(ib) = {} /\ {} \intersect LinkOmits(ib) = {}
          /\ "sni" \in P <=> ib.security \in {"tls", "reality"} /\ "sni" \in ib.given
      BY <1>1, <1>4, SameParams, SameName
    <2> HIDE DEF P
    <2>3. SameTold(Told("trojan", user.password, "", ib.network, ib.security, P \union {}),
                   Told("trojan", user.password, "", ib.network, clashSecurity(ib), clashParams(ib) \union {}),
                   ib)
      BY <1>2, <2>2, SameStream, Zenon
    <2> QED
      BY <2>1, <2>3, Zenon DEF P
  <1>5. CASE ib.protocol = "shadowsocks"
    BY <1>1, <1>5 DEF SameTold, Options, Link, clashProxyFor, shadowsocksLink, Told
  <1>6. CASE ib.protocol = "vmess"
    <2> DEFINE P == vmessLink(user, ib).params
    <2>1. /\ Link(user, ib) = Told("vmess", user.uuid, "", ib.network, ib.security, P \union {})
          /\ clashProxyFor(user, ib) =
                Told("vmess", user.uuid, "", ib.network, clashSecurity(ib), clashParams(ib) \union {})
      BY <1>6 DEF Link, vmessLink, clashProxyFor, Told
    <2>2. /\ clashOpts(ib) = (P \ {"sni", "servername"}) \union LinkOmits(ib)
          /\ P \intersect LinkOmits(ib) = {} /\ {} \intersect LinkOmits(ib) = {}
          /\ "sni" \in P <=> ib.security \in {"tls", "reality"} /\ "sni" \in ib.given
      BY <1>6, VMessParams
    <2> HIDE DEF P
    <2>3. SameTold(Told("vmess", user.uuid, "", ib.network, ib.security, P \union {}),
                   Told("vmess", user.uuid, "", ib.network, clashSecurity(ib), clashParams(ib) \union {}),
                   ib)
      BY <1>2, <2>2, SameStream, Zenon
    <2> QED
      BY <2>1, <2>3, Zenon DEF P
  <1> QED
    BY <1>3, <1>4, <1>5, <1>6 DEF Valid, Protocols

\* What a client presents, from what it was told of a stream.
LEMMA PresentsStream ==
    ASSUME NEW scheme, scheme # "shadowsocks", NEW secret, NEW network, NEW security, NEW params,
           NEW flow, flow = ("flow" \in params)
    PROVE  Presents(Told(scheme, secret, "", network, security, params)) =
             [protocol |-> scheme, secret |-> secret, flow |-> flow, cipher |-> ""]
  BY Zenon DEF Presents, Told

\* What a client presents that was told of a valid inbound is the account that
\* buildUser makes of it.
LEMMA ValidPresents ==
    ASSUME NEW ib, Valid(ib)
    PROVE  /\ Presents(Link(user, ib)) = buildUser(user, ib)
           /\ Presents(clashProxyFor(user, ib)) = buildUser(user, ib)
  <1> DEFINE link(scheme, secret, params) ==
                Told(scheme, secret, "", ib.network, ib.security, params)
             proxy(scheme, secret, params) ==
                Told(scheme, secret, "", ib.network, clashSecurity(ib), params)
             accountOf(scheme, secret, cipher, flow) ==
                [protocol |-> scheme, secret |-> secret, flow |-> flow, cipher |-> cipher]
  <1>1. CASE ib.protocol = "vless"
    <2> DEFINE flow == "flow" \in ib.given
               P == streamParams(ib) \union Given(ib, {"flow"})
               Q == clashParams(ib) \union Given(ib, {"flow"})
    <2>1. Link(user, ib) = link("vless", user.uuid, P)
      BY <1>1 DEF Link, vlessLink
    <2>2. clashProxyFor(user, ib) = proxy("vless", user.uuid, Q)
      BY <1>1 DEF clashProxyFor
    <2>3. flow = ("flow" \in P) /\ flow = ("flow" \in Q)
      BY NoFlowInStream, FlowGiven
    <2>4. buildUser(user, ib) = accountOf("vless", user.uuid, "", flow)
      BY <1>1 DEF buildUser
    <2> HIDE DEF flow, P, Q
    <2>5. Presents(link("vless", user.uuid, P)) = accountOf("vless", user.uuid, "", flow)
      BY <2>3, PresentsStream, ZenonT(40)
    <2>6. Presents(proxy("vless", user.uuid, Q)) = accountOf("vless", user.uuid, "", flow)
      BY <2>3, PresentsStream, ZenonT(40)
    <2> QED
      BY <2>1, <2>2, <2>4, <2>5, <2>6, Zenon
  <1>2. CASE ib.protocol = "trojan"
    <2>1. Link(user, ib) = link("trojan", user.password, streamParams(ib))
      BY <1>2 DEF Link, trojanLink
    <2>2. clashProxyFor(user, ib) = proxy("trojan", user.password, clashParams(ib))
      BY <1>2 DEF clashProxyFor
    <2>3. FALSE = ("flow" \in streamParams(ib)) /\ FALSE = ("flow" \in clashParams(ib))
      BY NoFlowInStream
    <2>4. buildUser(user, ib) = accountOf("trojan", user.password, "", FALSE)
      BY <1>2 DEF buildUser
    <2>5. Presents(link("trojan", user.password, streamParams(ib))) =
            accountOf("trojan", user.password, "", FALSE)
      BY <2>3, PresentsStream, ZenonT(40)
    <2>6. Presents(proxy("trojan", user.password, clashParams(ib))) =
            accountOf("trojan", user.password, "", FALSE)
      BY <2>3, PresentsStream, ZenonT(40)
    <2> QED
      BY <2>1, <2>2, <2>4, <2>5, <2>6, Zenon
  <1>3. CASE ib.protocol = "vmess"
    <2> DEFINE P == Given(ib, CASE ib.network \in {"ws", "httpupgrade"} -> {"path", "host"}
                                [] ib.network = "grpc" -> {"service"}
                                [] OTHER -> {})
                    \union Given(ib, IF ib.security = "none" THEN {} ELSE {"sni"})
    <2>1. Link(user, ib) = link("vmess", user.uuid, P)
      BY <1>3 DEF Link, vmessLink
    <2>2. clashProxyFor(user, ib) = proxy("vmess", user.uuid, clashParams(ib))
      BY <1>3 DEF clashProxyFor
    <2>3. FALSE = ("flow" \in P) /\ FALSE = ("flow" \in clashParams(ib))
      BY NoFlowInStream, GivenIsAsked
    <2>4. buildUser(user, ib) = accountOf("vmess", user.uuid, "", FALSE)
      BY <1>3 DEF buildUser
    <2> HIDE DEF P
    <2>5. Presents(link("vmess", user.uuid, P)) = accountOf("vmess", user.uuid, "", FALSE)
      BY <2>3, PresentsStream, ZenonT(40)
    <2>6. Presents(proxy("vmess", user.uuid, clashParams(ib))) =
            accountOf("vmess", user.uuid, "", FALSE)
      BY <2>3, PresentsStream, ZenonT(40)
    <2> QED
      BY <2>1, <2>2, <2>4, <2>5, <2>6, Zenon
  <1>4. CASE ib.protocol = "shadowsocks"
    <2> DEFINE told == Told("shadowsocks", user.password, ib.method, "tcp", "none", {})
               code == shadowsocksCipher(ib.method)
    <2>1. orDefault(ib.method) = ib.method
      BY <1>4 DEF Valid, ShadowsocksMethods, orDefault
    <2>2. Link(user, ib) = told /\ clashProxyFor(user, ib) = told
      BY <1>4, <2>1 DEF Link, shadowsocksLink, clashProxyFor
    <2>3. FALSE = ("flow" \in {})
      OBVIOUS
    <2>4. buildUser(user, ib) = accountOf("shadowsocks", user.password, code, FALSE)
      BY <1>4 DEF buildUser
    <2>5. Presents(told) = accountOf("shadowsocks", user.password, code, FALSE)
      BY <2>3, Zenon DEF Presents, Told
    <2> QED
      BY <2>2, <2>4, <2>5, Zenon
  <1> QED
    BY <1>1, <1>2, <1>3, <1>4 DEF Valid, Protocols

-----------------------------------------------------------------------------
(***************************************************************************)
(* Theorems.                                                               *)
(***************************************************************************)

\* The row of an inbound that CreateInbound or UpdateInbound stores has its
\* defaults filled in.
LEMMA StoredType ==
    ASSUME NEW in, validate(in)
    PROVE  LET ib == inboundFromInput(in)
           IN  /\ DOMAIN ib = {"protocol", "network", "security", "method", "mode", "given"}
               /\ ib.network \in Networks /\ ib.security \in Securities
  <1>1. DOMAIN inboundFromInput(in) =
          {"protocol", "network", "security", "method", "mode", "given"}
    BY DEF inboundFromInput
  <1>2. Valid(inboundFromInput(in))
    BY StoredIsValid
  <1> QED
    BY <1>1, <1>2 DEF Valid

\* What requests, passes and fetches write has its type: UpdateUser writes a
\* token that was issued.
LEMMA TypeStep ==
    ASSUME SubTypeOK, [Next]_vars
    PROVE  SubTypeOK'
  <1>1. ASSUME NEW in \in Inputs, StoreInbound(in) PROVE SubTypeOK'
    <2>1. stored' \in 0..MaxStored
      BY <1>1, SubscriptionAssumption DEF StoreInbound, SubTypeOK
    <2> QED
      BY <1>1, <2>1, StoredType DEF StoreInbound, SubTypeOK
  <1>2. CASE DeleteInbound
    BY <1>2 DEF DeleteInbound, SubTypeOK
  <1>3. CASE SetInbounds
    BY <1>3 DEF SetInbounds, SubTypeOK
  <1>4. ASSUME NEW c \in Clients, UpdateUser(c) PROVE SubTypeOK'
    BY <1>4 DEF UpdateUser, SubTypeOK
  <1>5. ASSUME NEW c \in Clients, NEW rotate \in BOOLEAN, GetUser(c, rotate) PROVE SubTypeOK'
    <2>1. issued' \in 1..MaxTokens /\ 1..issued \subseteq 1..issued'
      BY <1>5, SubscriptionAssumption DEF GetUser, SubTypeOK
    <2>2. req' \in [Clients -> 1..issued' \union {None}]
      BY <1>5, <2>1, SubscriptionAssumption DEF GetUser, SubTypeOK
    <2> QED
      BY <1>5, <2>1, <2>2 DEF GetUser, SubTypeOK
  <1>6. CASE reconcile
    BY <1>6 DEF reconcile, SubTypeOK
  <1>7. CASE NodeRestarts
    BY <1>7 DEF NodeRestarts, SubTypeOK
  <1>8. ASSUME NEW t \in 1..issued, SubscriptionByToken(t) PROVE SubTypeOK'
    BY <1>8 DEF SubscriptionByToken, SubTypeOK
  <1>9. ASSUME NEW format \in {"v2ray", "clash"}, handleSubscription(format) PROVE SubTypeOK'
    <2>1. get'.pc \in {"200", "500"}
      BY <1>9 DEF handleSubscription
    <2> QED
      BY <1>9, <2>1 DEF handleSubscription, SubTypeOK
  <1>10. CASE UNCHANGED vars
    BY <1>10 DEF vars, SubTypeOK
  <1> QED
    BY <1>1, <1>2, <1>3, <1>4, <1>5, <1>6, <1>7, <1>8, <1>9, <1>10 DEF Next

\* SubInv holds whatever requests, passes, restarts of the node and fetches of
\* the subscription there are.
THEOREM Invariance == Spec => []SubInv
  <1>1. Init => SubInv
    BY SubscriptionAssumption DEF Init, SubInv, SubTypeOK, Idle
  <1>2. SubInv /\ [Next]_vars => SubInv'
    <2> SUFFICES ASSUME SubInv, [Next]_vars PROVE SubInv'
      OBVIOUS
    <2>0. SubTypeOK'
      BY TypeStep DEF SubInv
    <2>1. ASSUME NEW in \in Inputs, StoreInbound(in) PROVE SubInv'
      BY <2>0, <2>1, StoredIsValid DEF StoreInbound, SubInv
    <2>2. CASE DeleteInbound
      BY <2>0, <2>2 DEF DeleteInbound, SubInv
    <2>3. CASE SetInbounds
      BY <2>0, <2>3 DEF SetInbounds, SubInv
    <2>4. ASSUME NEW c \in Clients, UpdateUser(c) PROVE SubInv'
      BY <2>0, <2>4 DEF UpdateUser, SubInv
    <2>5. ASSUME NEW c \in Clients, NEW rotate \in BOOLEAN, GetUser(c, rotate) PROVE SubInv'
      BY <2>0, <2>5 DEF GetUser, SubInv
    <2>6. CASE reconcile
      BY <2>0, <2>6 DEF reconcile, SubInv
    <2>7. CASE NodeRestarts
      BY <2>0, <2>7 DEF NodeRestarts, SubInv
    <2>8. ASSUME NEW t \in 1..issued, SubscriptionByToken(t) PROVE SubInv'
      BY <2>0, <2>8 DEF SubscriptionByToken, SubInv
    <2>9. ASSUME NEW format \in {"v2ray", "clash"}, handleSubscription(format) PROVE SubInv'
      <3>1. row # "none" => Renders(user, inbound)
        BY ValidWorks DEF SubInv
      <3>2. get'.pc = "200"
        BY <2>9, <3>1 DEF handleSubscription, ListInboundsForUser
      <3> QED
        BY <2>0, <2>9, <3>2 DEF handleSubscription, ListInboundsForUser, SubInv
    <2>10. CASE UNCHANGED vars
      BY <2>0, <2>10 DEF vars, SubInv
    <2> QED
      BY <2>1, <2>2, <2>3, <2>4, <2>5, <2>6, <2>7, <2>8, <2>9, <2>10 DEF Next
  <1> QED
    BY <1>1, <1>2, PTL DEF Spec

\* Every variable has its type: every token that a request will write back and
\* the one that is stored were issued by RotateSubToken.
THEOREM SubTypes == Spec => []SubTypeOK
  <1>1. SubInv => SubTypeOK
    BY DEF SubInv
  <1> QED
    BY <1>1, Invariance, PTL

\* No inbound that validate accepted makes handleSubscription fail, and none
\* makes buildUser fail, which would end every pass of its node.
THEOREM StoredWorks == Spec => []StoredInboundWorks
  <1>1. SubInv => StoredInboundWorks
    BY ValidWorks DEF SubInv, StoredInboundWorks
  <1> QED
    BY <1>1, Invariance, PTL

\* The share link and the Clash proxy of every inbound that can be stored agree,
\* and differ, as SameTold says.
THEOREM Agreement == Spec => []FormatsAgree
  <1>1. SubInv => FormatsAgree
    BY ValidSameTold DEF SubInv, FormatsAgree
  <1> QED
    BY <1>1, Invariance, PTL

\* A client that uses what handleSubscription told it presents the account that
\* the reconciler pushed for the stored inbound.
THEOREM LinksWork == Spec => []ClientMatchesNode
  <1>1. SubInv => ClientMatchesNode
    BY ValidPresents DEF SubInv, ClientMatchesNode
  <1> QED
    BY <1>1, Invariance, PTL
=============================================================================
