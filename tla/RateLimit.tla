------------------------------ MODULE RateLimit -----------------------------
(***************************************************************************)
(* The limiter of the public endpoints: buckets are made when an address   *)
(* is first seen, and idle ones are pruned once there are too many.        *)
(*                                                                         *)
(* Abstractions.  A tick is the time in which one token comes back, and    *)
(* requests fall on ticks; a token bucket of golang.org/x/time/rate is its *)
(* number of whole tokens.  allow holds the mutex throughout, so it is one *)
(* step.  The time since a bucket was last used is counted up to the first *)
(* value at which it may be pruned.                                        *)
(***************************************************************************)
EXTENDS Naturals, FiniteSets

CONSTANTS
    IPs,
    Burst,      \* perMinute of newIPLimiter
    Threshold   \* 10000 in the code: buckets kept without pruning

ASSUME LimitAssumption == Burst \in Nat \ {0} /\ Threshold \in Nat

VARIABLES
    buckets,    \* per address in the map: [tokens, idle since lastSeen]
    reply       \* the last decision: the address, and whether it was let through

vars == <<buckets, reply>>

\* Ten minutes; a whole burst comes back in one.
ipBucketTTL == 10 * Burst

Bucket == [tokens : 0..Burst, idle : 0..(ipBucketTTL + 1)]

TypeOK ==
    /\ DOMAIN buckets \subseteq IPs
    /\ \A ip \in DOMAIN buckets : buckets[ip] \in Bucket
    /\ reply \in [ip : IPs, ok : BOOLEAN]

Init ==
    /\ buckets = [ip \in {} |-> 0]
    /\ reply \in [ip : IPs, ok : {FALSE}]

NewLimiter == [tokens |-> Burst, idle |-> 0]

\* The clock of the buckets (rate.Limiter advances its tokens when asked).
Advanced(b) ==
    [tokens |-> IF b.tokens < Burst THEN b.tokens + 1 ELSE b.tokens,
     idle |-> IF b.idle <= ipBucketTTL THEN b.idle + 1 ELSE b.idle]

Tick ==
    /\ buckets' = [ip \in DOMAIN buckets |-> Advanced(buckets[ip])]
    /\ UNCHANGED reply

\* Mutant: the time to live is a tenth of what a burst takes to come back.
pruneLocked_TooEarly(bs) ==
    [ip \in {i \in DOMAIN bs : ~ (10 * bs[i].idle > Burst)} |-> bs[ip]]

pruneLocked(bs) ==
    [ip \in {i \in DOMAIN bs : ~ (bs[i].idle > ipBucketTTL)} |-> bs[ip]]

\* Mutant: lastSeen is set only when the bucket is made.
allow_SeenOnce(ip) ==
    LET b == IF ip \in DOMAIN buckets THEN buckets[ip] ELSE NewLimiter
        seen == [i \in DOMAIN buckets \union {ip} |-> IF i = ip THEN b ELSE buckets[i]]
        kept == IF Cardinality(DOMAIN seen) > Threshold THEN pruneLocked(seen) ELSE seen
        ok == b.tokens > 0
    IN  /\ reply' = [ip |-> ip, ok |-> ok]
        /\ buckets' = IF ok /\ ip \in DOMAIN kept THEN [kept EXCEPT ![ip].tokens = @ - 1] ELSE kept

\* The bucket is found or made, and marked as seen, before the others are
\* pruned; then it is asked for a token.
allow(ip) ==
    LET b == IF ip \in DOMAIN buckets THEN buckets[ip] ELSE NewLimiter
        seen == [i \in DOMAIN buckets \union {ip} |->
                    IF i = ip THEN [b EXCEPT !.idle = 0] ELSE buckets[i]]
        kept == IF Cardinality(DOMAIN seen) > Threshold THEN pruneLocked(seen) ELSE seen
        ok == b.tokens > 0
    IN  /\ reply' = [ip |-> ip, ok |-> ok]
        /\ buckets' = IF ok THEN [kept EXCEPT ![ip].tokens = @ - 1] ELSE kept

Next == Tick \/ \E ip \in IPs : allow(ip)

Spec == Init /\ [][Next]_vars
-----------------------------------------------------------------------------
(***************************************************************************)
(* Properties.                                                             *)
(***************************************************************************)

\* An address without a bucket counts as one with a full bucket.
Tokens == [ip \in IPs |-> IF ip \in DOMAIN buckets THEN buckets[ip].tokens ELSE Burst]

Abstract == INSTANCE Limiter WITH tokens <- Tokens

\* A bucket that was left alone for as long as a burst takes to come back is
\* full: what pruneLocked may forget is what a new limiter starts with.
Refilled ==
    \A ip \in DOMAIN buckets : buckets[ip].tokens >= buckets[ip].idle \/ buckets[ip].tokens = Burst

\* Pruning is invisible: the limiter with its map of buckets, made on demand
\* and pruned when idle, decides every request as a limiter that keeps a
\* bucket for every address for ever.
ImplementsLimiter == Abstract!Spec
=============================================================================
