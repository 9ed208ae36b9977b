------------------------------- MODULE Limiter ------------------------------
(***************************************************************************)
(* What the per-address limiter of the public endpoints promises: a token  *)
(* bucket for every address, there from the beginning and for ever.  The   *)
(* unit of time is the time one token takes to come back.                  *)
(***************************************************************************)
EXTENDS Naturals

CONSTANTS
    IPs,
    Burst       \* requests a minute, and at once

VARIABLES
    tokens,     \* per address: tokens in its bucket
    reply       \* the last decision: the address, and whether it was let through

Init ==
    /\ tokens = [ip \in IPs |-> Burst]
    /\ reply \in [ip : IPs, ok : {FALSE}]

Refill(n) == IF n < Burst THEN n + 1 ELSE n

Tick ==
    /\ tokens' = [ip \in IPs |-> Refill(tokens[ip])]
    /\ UNCHANGED reply

Allow(ip) ==
    /\ reply' = [ip |-> ip, ok |-> tokens[ip] > 0]
    /\ tokens' = IF tokens[ip] > 0 THEN [tokens EXCEPT ![ip] = @ - 1] ELSE tokens

Next == Tick \/ \E ip \in IPs : Allow(ip)

Spec == Init /\ [][Next]_<<tokens, reply>>
=============================================================================
