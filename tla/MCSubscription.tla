--------------------------- MODULE MCSubscription ---------------------------
(***************************************************************************)
(* Instances of Subscription for TLC.                                      *)
(***************************************************************************)
EXTENDS Subscription

\* Every combination of protocol, transport and security, with all of the
\* optional texts or with none, a method where one belongs, and the values
\* that validate refuses or replaces by a default.
MCInputs ==
    {in \in [addressed : BOOLEAN, protocol : Protocols \union {"socks"},
             network : Networks \union {"", "kcp"}, security : Securities \union {"", "xtls"},
             method : {"", "aes-256-gcm", "xchacha20-ietf-poly1305", "rc4-md5"},
             mode : {"", "auto", "fast"}, given : {{}, Optional}] :
        /\ ~in.addressed => in.protocol = "vless"
        /\ in.protocol # "shadowsocks" => in.method = ""
        /\ (in.mode = "") <=> (in.given = {})}

\* VLESS with and without a flow, and VMess over XHTTP.
FewInputs ==
    {in \in MCInputs :
        in.addressed /\ in.security = "tls"
            /\ <<in.protocol, in.network>> \in {<<"vless", "tcp">>, <<"vmess", "xhttp">>}}
=============================================================================
