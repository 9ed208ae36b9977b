--------------------------- MODULE RateLimitProofs --------------------------
(***************************************************************************)
(* The limiter with pruning implements the limiter without, for any set of *)
(* addresses, burst and threshold.                                         *)
(*                                                                         *)
(* The refinement mapping gives an address without a bucket a full one, so *)
(* the proof has to show that a bucket is full when it is pruned.  The     *)
(* threshold and the number of buckets play no part: pruning would be      *)
(* invisible at any time.                                                  *)
(***************************************************************************)
EXTENDS RateLimit, TLAPS

Inv == TypeOK /\ Refilled

\* A token that comes back leaves a bucket a bucket, and the relation of
\* Refilled between its tokens and the time since it was used.
LEMMA AdvancedBucket ==
    ASSUME NEW b \in Bucket, b.tokens >= b.idle \/ b.tokens = Burst
    PROVE  /\ Advanced(b) \in Bucket
           /\ Advanced(b).tokens >= Advanced(b).idle \/ Advanced(b).tokens = Burst
           /\ Advanced(b).tokens = IF b.tokens < Burst THEN b.tokens + 1 ELSE b.tokens
  BY LimitAssumption, SMT DEF Bucket, Advanced, ipBucketTTL

\* What pruneLocked drops is a full bucket.
LEMMA PrunedIsFull ==
    ASSUME Inv, NEW ip \in DOMAIN buckets, buckets[ip].idle > ipBucketTTL
    PROVE  buckets[ip].tokens = Burst
  <1>1. buckets[ip] \in Bucket
    BY DEF Inv, TypeOK
  <1>2. buckets[ip].tokens >= buckets[ip].idle \/ buckets[ip].tokens = Burst
    BY DEF Inv, Refilled
  <1> QED
    BY <1>1, <1>2, LimitAssumption DEF Bucket, ipBucketTTL

\* The buckets after allow: the one that was asked has its token taken, another
\* one is as it was or was pruned after its time to live.
LEMMA AllowEffect ==
    ASSUME Inv, NEW ip \in IPs, allow(ip)
    PROVE  LET n == IF ip \in DOMAIN buckets THEN buckets[ip].tokens ELSE Burst
           IN  /\ n \in 0..Burst
               /\ reply' = [ip |-> ip, ok |-> n > 0]
               /\ DOMAIN buckets' \subseteq DOMAIN buckets \union {ip}
               /\ ip \in DOMAIN buckets'
               /\ buckets'[ip] = [tokens |-> IF n > 0 THEN n - 1 ELSE n, idle |-> 0]
               /\ \A i \in DOMAIN buckets \ {ip} :
                    IF i \in DOMAIN buckets' THEN buckets'[i] = buckets[i]
                    ELSE buckets[i].idle > ipBucketTTL
  <1> DEFINE b == IF ip \in DOMAIN buckets THEN buckets[ip] ELSE NewLimiter
             n == IF ip \in DOMAIN buckets THEN buckets[ip].tokens ELSE Burst
             seen == [i \in DOMAIN buckets \union {ip} |->
                        IF i = ip THEN [b EXCEPT !.idle = 0] ELSE buckets[i]]
             kept == IF Cardinality(DOMAIN seen) > Threshold THEN pruneLocked(seen) ELSE seen
             left == {i \in DOMAIN seen : ~ (seen[i].idle > ipBucketTTL)}
  <1>1. b \in Bucket /\ b.tokens = n
    BY LimitAssumption DEF Inv, TypeOK, Bucket, NewLimiter, ipBucketTTL
  <1>2. n \in 0..Burst
    BY <1>1 DEF Bucket
  <1>3. /\ DOMAIN seen = DOMAIN buckets \union {ip}
        /\ seen[ip] = [tokens |-> n, idle |-> 0]
        /\ \A i \in DOMAIN buckets \ {ip} : seen[i] = buckets[i]
    BY <1>1 DEF Bucket
  <1>4. pruneLocked(seen) = [i \in left |-> seen[i]]
    BY DEF pruneLocked
  <1>5. ip \in left
    BY <1>3, LimitAssumption DEF ipBucketTTL
  <1> HIDE DEF seen
  <1>6. /\ DOMAIN kept \subseteq DOMAIN seen /\ ip \in DOMAIN kept
        /\ kept = [i \in DOMAIN kept |-> seen[i]]
        /\ \A i \in DOMAIN seen \ DOMAIN kept : seen[i].idle > ipBucketTTL
    <2>1. CASE Cardinality(DOMAIN seen) > Threshold
      BY <2>1, <1>4, <1>5
    <2>2. CASE ~(Cardinality(DOMAIN seen) > Threshold)
      <3>1. kept = seen /\ seen = [i \in DOMAIN seen |-> seen[i]]
        BY <2>2 DEF seen
      <3> QED
        BY <3>1, <1>3
    <2> QED
      BY <2>1, <2>2
  <1>7. /\ reply' = [ip |-> ip, ok |-> n > 0]
        /\ buckets' = IF n > 0 THEN [kept EXCEPT ![ip].tokens = @ - 1] ELSE kept
    BY <1>1 DEF allow, seen
  <1> HIDE DEF kept, n, b
  <1>8. /\ DOMAIN buckets' = DOMAIN kept
        /\ buckets'[ip] = [tokens |-> IF n > 0 THEN n - 1 ELSE n, idle |-> 0]
        /\ \A i \in DOMAIN kept \ {ip} : buckets'[i] = seen[i]
    BY <1>2, <1>3, <1>6, <1>7
  <1> QED
    BY <1>2, <1>3, <1>6, <1>7, <1>8 DEF n

-----------------------------------------------------------------------------

\* The invariant that pruning rests on: a bucket that has been idle for long
\* enough to be pruned is full.
THEOREM Invariance == Spec => []Inv
  <1>1. Init => Inv
    BY DEF Init, Inv, TypeOK, Refilled
  <1>2. Inv /\ [Next]_vars => Inv'
    <2> SUFFICES ASSUME Inv, [Next]_vars PROVE Inv'
      OBVIOUS
    <2>1. CASE Tick
      <3>1. DOMAIN buckets' = DOMAIN buckets /\ reply' = reply
        BY <2>1 DEF Tick
      <3>2. \A ip \in DOMAIN buckets : buckets'[ip] = Advanced(buckets[ip])
        BY <2>1 DEF Tick
      <3>3. \A ip \in DOMAIN buckets :
                buckets[ip] \in Bucket /\ (buckets[ip].tokens >= buckets[ip].idle
                                            \/ buckets[ip].tokens = Burst)
        BY DEF Inv, TypeOK, Refilled
      <3> QED
        BY <3>1, <3>2, <3>3, AdvancedBucket, ZenonT(40) DEF Inv, TypeOK, Refilled
    <2>2. ASSUME NEW ip \in IPs, allow(ip) PROVE Inv'
      <3> DEFINE n == IF ip \in DOMAIN buckets THEN buckets[ip].tokens ELSE Burst
      <3>1. /\ n \in 0..Burst
            /\ reply' = [ip |-> ip, ok |-> n > 0]
            /\ buckets'[ip] = [tokens |-> IF n > 0 THEN n - 1 ELSE n, idle |-> 0]
        BY <2>2, AllowEffect, Zenon
      <3> HIDE DEF n
      <3>2. reply' \in [ip : IPs, ok : BOOLEAN]
        BY <3>1
      <3>3. ASSUME NEW i \in DOMAIN buckets'
            PROVE  /\ i \in IPs /\ buckets'[i] \in Bucket
                   /\ buckets'[i].tokens >= buckets'[i].idle \/ buckets'[i].tokens = Burst
        <4>1. CASE i = ip
          BY <3>1, <4>1, LimitAssumption DEF Bucket, ipBucketTTL
        <4>2. CASE i # ip
          BY <2>2, <3>3, <4>2, AllowEffect DEF Inv, TypeOK, Refilled
        <4> QED
          BY <4>1, <4>2
      <3> QED
        BY <3>2, <3>3 DEF Inv, TypeOK, Refilled
    <2>3. CASE UNCHANGED vars
      BY <2>3 DEF vars, Inv, TypeOK, Refilled, Bucket
    <2> QED
      BY <2>1, <2>2, <2>3 DEF Next
  <1> QED
    BY <1>1, <1>2, PTL DEF Spec

\* allow keeps the type of a bucket, and a bucket idle since its burst came
\* back is full, whatever the number of addresses.
THEOREM AlwaysRefilled == Spec => []Refilled
  BY Invariance, PTL DEF Inv

\* The limiter that prunes decides as one that keeps a bucket for every address
\* for ever: the condition under which pruneLocked forgets a bucket is safe.
THEOREM Refinement == Spec => ImplementsLimiter
  <1>1. Init => Abstract!Init
    BY DEF Init, Abstract!Init, Tokens
  <1>2. Inv /\ [Next]_vars => [Abstract!Next]_<<Tokens, reply>>
    <2> SUFFICES ASSUME Inv, [Next]_vars
                 PROVE  Abstract!Next \/ (Tokens' = Tokens /\ reply' = reply)
      BY Zenon
    <2>1. CASE Tick
      <3>1. DOMAIN buckets' = DOMAIN buckets /\ reply' = reply
        BY <2>1 DEF Tick
      <3>2. \A ip \in DOMAIN buckets :
                buckets'[ip].tokens = Abstract!Refill(buckets[ip].tokens)
        BY <2>1 DEF Tick, Advanced, Abstract!Refill
      <3>3. Burst = Abstract!Refill(Burst)
        BY LimitAssumption DEF Abstract!Refill
      <3>4. Tokens' = [ip \in IPs |-> Abstract!Refill(Tokens[ip])]
        BY <3>1, <3>2, <3>3 DEF Tokens
      <3> QED
        BY <3>1, <3>4 DEF Abstract!Next, Abstract!Tick
    <2>2. ASSUME NEW ip \in IPs, allow(ip) PROVE Abstract!Allow(ip)
      <3>1. \A i \in IPs \ {ip} : Tokens'[i] = Tokens[i]
        BY <2>2, AllowEffect, PrunedIsFull DEF Tokens
      <3> DEFINE n == IF ip \in DOMAIN buckets THEN buckets[ip].tokens ELSE Burst
      <3>2. /\ n \in 0..Burst
            /\ reply' = [ip |-> ip, ok |-> n > 0]
            /\ ip \in DOMAIN buckets'
            /\ buckets'[ip] = [tokens |-> IF n > 0 THEN n - 1 ELSE n, idle |-> 0]
        BY <2>2, AllowEffect, Zenon
      <3>3. Tokens[ip] = n
        BY DEF Tokens
      <3> HIDE DEF n
      <3>4. /\ Tokens[ip] \in 0..Burst
            /\ reply' = [ip |-> ip, ok |-> Tokens[ip] > 0]
            /\ Tokens'[ip] = IF Tokens[ip] > 0 THEN Tokens[ip] - 1 ELSE Tokens[ip]
        BY <3>2, <3>3 DEF Tokens
      <3>5. Tokens = [i \in IPs |-> Tokens[i]] /\ Tokens' = [i \in IPs |-> Tokens'[i]]
        BY DEF Tokens
      <3>6. Tokens' = IF Tokens[ip] > 0 THEN [Tokens EXCEPT ![ip] = @ - 1] ELSE Tokens
        BY <3>1, <3>4, <3>5
      <3> QED
        BY <3>4, <3>6 DEF Abstract!Allow
    <2>3. CASE UNCHANGED vars
      BY <2>3 DEF vars, Tokens
    <2> QED
      BY <2>1, <2>2, <2>3 DEF Next, Abstract!Next
  <1> QED
    BY <1>1, <1>2, Invariance, PTL DEF Spec, ImplementsLimiter, Abstract!Spec
=============================================================================
