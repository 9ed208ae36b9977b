------------------------------ MODULE Sublink ------------------------------
(***************************************************************************)
(* How an inbound is checked when it is stored, what a subscription tells  *)
(* a client about it, as a share link and as a Clash proxy, and the        *)
(* account that the reconciler pushes for it.                              *)
(*                                                                         *)
(* Abstractions.  Of an optional text of an inbound only is kept whether   *)
(* it is given (not empty); tag, host and port are one flag.  A link or a  *)
(* proxy is the information a client takes from it; URL, base64, JSON and  *)
(* YAML keep that information and are left out.                            *)
(***************************************************************************)

Protocols == {"vless", "vmess", "trojan", "shadowsocks"}
Networks == {"tcp", "ws", "grpc", "httpupgrade", "xhttp"}
Securities == {"none", "tls", "reality"}
XHTTPModes == {"auto", "packet-up", "stream-up", "stream-one"}

ShadowsocksMethods ==
    {"aes-128-gcm", "aes-256-gcm", "chacha20-ietf-poly1305", "xchacha20-ietf-poly1305", "none"}

\* ws_path, host_header, grpc_service_name, sni, fingerprint,
\* reality_public_key, reality_short_id and flow
Optional == {"path", "host", "service", "sni", "fp", "pbk", "sid", "flow"}

-----------------------------------------------------------------------------

\* Mutant: the method is only asked for.
validate_AnyMethod(in) ==
    /\ in.addressed
    /\ in.protocol \in Protocols
    /\ in.network \in Networks \union {""}
    /\ in.security \in Securities \union {""}
    /\ in.protocol = "shadowsocks" => in.method # ""
    /\ in.mode \in XHTTPModes \union {""}

validate(in) ==
    /\ in.addressed
    /\ in.protocol \in Protocols
    /\ in.network \in Networks \union {""}
    /\ in.security \in Securities \union {""}
    /\ in.protocol = "shadowsocks" => in.method \in ShadowsocksMethods
    /\ in.mode \in XHTTPModes \union {""}

\* Mutant: an absent network stays empty.
inboundFromInput_NoDefault(in) ==
    [protocol |-> in.protocol, method |-> in.method, mode |-> in.mode, given |-> in.given,
     network |-> in.network,
     security |-> IF in.security = "" THEN "none" ELSE in.security]

inboundFromInput(in) ==
    [protocol |-> in.protocol, method |-> in.method, mode |-> in.mode, given |-> in.given,
     network |-> IF in.network = "" THEN "tcp" ELSE in.network,
     security |-> IF in.security = "" THEN "none" ELSE in.security]

-----------------------------------------------------------------------------
(***************************************************************************)
(* Share links.                                                            *)
(***************************************************************************)

\* What the texts of ib say of the names in S.
Given(ib, S) == S \intersect (ib.given \union (IF ib.mode = "" THEN {} ELSE {"mode"}))

Told(scheme, secret, cipher, network, security, params) ==
    [scheme |-> scheme, secret |-> secret, cipher |-> cipher,
     network |-> network, security |-> security, params |-> params]

Unsupported == Told("unsupported", "", "", "", "", {})

\* Mutant: XHTTP has no case of its own.
streamParams_NoXHTTP(ib) ==
    Given(ib, CASE ib.network \in {"ws", "httpupgrade"} -> {"path", "host"}
                [] ib.network = "grpc" -> {"service"}
                [] OTHER -> {})
    \union Given(ib, CASE ib.security = "tls" -> {"sni", "fp"}
                       [] ib.security = "reality" -> {"sni", "fp", "pbk", "sid"}
                       [] OTHER -> {})

streamParams(ib) ==
    Given(ib, CASE ib.network \in {"ws", "httpupgrade"} -> {"path", "host"}
                [] ib.network = "grpc" -> {"service"}
                [] ib.network = "xhttp" -> {"path", "host", "mode"}
                [] OTHER -> {})
    \union Given(ib, CASE ib.security = "tls" -> {"sni", "fp"}
                       [] ib.security = "reality" -> {"sni", "fp", "pbk", "sid"}
                       [] OTHER -> {})

\* Mutant: the flow is forgotten.
vlessLink_NoFlow(u, ib) ==
    Told("vless", u.uuid, "", ib.network, ib.security, streamParams(ib))

vlessLink(u, ib) ==
    Told("vless", u.uuid, "", ib.network, ib.security, streamParams(ib) \union Given(ib, {"flow"}))

trojanLink(u, ib) == Told("trojan", u.password, "", ib.network, ib.security, streamParams(ib))

\* The cipher that link and proxy name if none is stored.
orDefault(method) == IF method = "" THEN "aes-256-gcm" ELSE method

\* Plain TCP, whatever the inbound is.
shadowsocksLink(u, ib) ==
    Told("shadowsocks", u.password, orDefault(ib.method), "tcp", "none", {})

vmessLink(u, ib) ==
    Told("vmess", u.uuid, "", ib.network, ib.security,
         Given(ib, CASE ib.network \in {"ws", "httpupgrade"} -> {"path", "host"}
                     [] ib.network = "grpc" -> {"service"}
                     [] OTHER -> {})
         \union Given(ib, IF ib.security = "none" THEN {} ELSE {"sni"}))

Link(u, ib) ==
    CASE ib.protocol = "vless" -> vlessLink(u, ib)
      [] ib.protocol = "trojan" -> trojanLink(u, ib)
      [] ib.protocol = "vmess" -> vmessLink(u, ib)
      [] ib.protocol = "shadowsocks" -> shadowsocksLink(u, ib)
      [] OTHER -> Unsupported

-----------------------------------------------------------------------------
(***************************************************************************)
(* Clash.                                                                  *)
(***************************************************************************)

\* Reality is told by its options, and these are left out if both are empty.
clashSecurity(ib) ==
    IF ib.security = "reality" /\ Given(ib, {"pbk", "sid"}) = {} THEN "tls"
    ELSE IF ib.security \in {"tls", "reality"} THEN ib.security
    ELSE "none"

\* A field for sni is written for TLS only, one for servername for both.
clashNames(ib) ==
    IF Given(ib, {"sni"}) = {} THEN {}
    ELSE (IF ib.security = "tls" THEN {"sni"} ELSE {})
         \union (IF ib.security \in {"tls", "reality"} THEN {"servername"} ELSE {})

clashOpts(ib) ==
    Given(ib, (IF ib.security \in {"tls", "reality"} THEN {"fp"} ELSE {})
              \union (IF ib.security = "reality" THEN {"pbk", "sid"} ELSE {})
              \union (IF ib.network \in {"ws", "httpupgrade", "xhttp"} THEN {"path", "host"}
                                                                       ELSE {})
              \union (IF ib.network = "grpc" THEN {"service"} ELSE {})
              \union (IF ib.network = "xhttp" THEN {"mode"} ELSE {}))

clashParams(ib) == clashNames(ib) \union clashOpts(ib)

clashProxyFor(u, ib) ==
    LET stream(scheme, secret, more) ==
            Told(scheme, secret, "", ib.network, clashSecurity(ib), clashParams(ib) \union more)
    IN  CASE ib.protocol = "vless" -> stream("vless", u.uuid, Given(ib, {"flow"}))
          [] ib.protocol = "vmess" -> stream("vmess", u.uuid, {})
          [] ib.protocol = "trojan" -> stream("trojan", u.password, {})
          [] ib.protocol = "shadowsocks" ->
                Told("shadowsocks", u.password, orDefault(ib.method), "tcp", "none", {})
          [] OTHER -> stream("", "", {})

-----------------------------------------------------------------------------
(***************************************************************************)
(* The account on the node.                                                *)
(***************************************************************************)

shadowsocksCipher(method) ==
    CASE method \in {"aes-128-gcm", "aead_aes_128_gcm"} -> "AES_128_GCM"
      [] method \in {"aes-256-gcm", "aead_aes_256_gcm"} -> "AES_256_GCM"
      [] method \in {"chacha20-ietf-poly1305", "chacha20-poly1305", "aead_chacha20_poly1305"} ->
            "CHACHA20_POLY1305"
      [] method \in {"xchacha20-ietf-poly1305", "xchacha20-poly1305", "aead_xchacha20_poly1305"} ->
            "XCHACHA20_POLY1305"
      [] method \in {"none", "plain"} -> "NONE"
      [] OTHER -> "UNKNOWN"

\* accountFor and buildUser
buildUser(u, ib) ==
    LET account(secret, cipher, flow) ==
            [protocol |-> ib.protocol, secret |-> secret, cipher |-> cipher, flow |-> flow]
    IN  CASE ib.protocol = "vless" -> account(u.uuid, "", "flow" \in ib.given)
          [] ib.protocol = "vmess" -> account(u.uuid, "", FALSE)
          [] ib.protocol = "trojan" -> account(u.password, "", FALSE)
          [] ib.protocol = "shadowsocks" ->
                account(u.password, shadowsocksCipher(ib.method), FALSE)
          [] OTHER -> account("", "UNKNOWN", FALSE)

Builds(u, ib) == buildUser(u, ib).cipher # "UNKNOWN"

-----------------------------------------------------------------------------

\* What a client that was told t presents, as the node sees it.
Presents(t) ==
    [protocol |-> t.scheme, secret |-> t.secret, flow |-> "flow" \in t.params,
     cipher |-> IF t.scheme = "shadowsocks" THEN shadowsocksCipher(t.cipher) ELSE ""]

\* V2Ray fails on the first inbound that has no link; Clash never fails.
Renders(u, ib) == Link(u, ib) # Unsupported

\* What a format tells besides the name of the server.
Options(t) == t.params \ {"sni", "servername"}

\* What the link of a VMess inbound leaves out.
LinkOmits(ib) ==
    IF ib.protocol # "vmess" THEN {}
    ELSE Given(ib, (IF ib.security \in {"tls", "reality"} THEN {"fp"} ELSE {})
                   \union (IF ib.security = "reality" THEN {"pbk", "sid"} ELSE {})
                   \union (IF ib.network = "xhttp" THEN {"path", "host", "mode"} ELSE {}))

\* The link l and the proxy p tell the same of ib, but for three differences:
\* the link leaves out LinkOmits; Reality with neither key nor short id is TLS
\* to the proxy; and the sni of the link is the servername of the proxy, which
\* has it as sni too with TLS only.
SameTold(l, p, ib) ==
    /\ l.scheme = p.scheme /\ l.secret = p.secret /\ l.cipher = p.cipher /\ l.network = p.network
    /\ Options(p) = Options(l) \union LinkOmits(ib)
    /\ Options(l) \intersect LinkOmits(ib) = {}
    /\ p.security = IF l.security = "reality" /\ {"pbk", "sid"} \intersect p.params = {}
                      THEN "tls" ELSE l.security
    /\ "servername" \in p.params <=> "sni" \in l.params
    /\ "sni" \in p.params <=> "sni" \in l.params /\ ib.security = "tls"
=============================================================================
