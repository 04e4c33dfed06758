---------------------------- MODULE RateLimiter -----------------------------
(***************************************************************************)
(* utils/rate_limit.py with Redis, for one key: every attempt increments   *)
(* the counter of the current bucket and sums the buckets of the window;   *)
(* INCR, EXPIRE and MGET are separate round trips, and a process may stop  *)
(* between them. The number of the bucket is taken once, at the start.     *)
(***************************************************************************)
EXTENDS Naturals, FiniteSets

CONSTANTS
    Checkers,          \* server processes
    MaxLimited, Window, BucketSize,   \* limit, window, bucket_size
    MaxStall,          \* how long a check may take
    LastTime, MaxAttempts             \* bounds

VARIABLES
    clock,
    counter,   \* of each bucket; 0 if Redis has no such key
    expiry,    \* when the key of a bucket expires; Never without EXPIRE
    check,     \* of each process: where is_limited is, in which bucket, since when
    attempts,
    allowed    \* history: how many attempts of each time were not limited

limiterVars == <<clock, counter, expiry, check, attempts, allowed>>

NumBuckets == Window \div BucketSize
CurrentBucket == clock \div BucketSize
Buckets == 0..LastTime \div BucketSize
Never == LastTime + Window + BucketSize + 1
NoCheck == [at |-> "idle"]
Total(count, within) == Cardinality({u \in within \X (1..MaxAttempts) : u[2] <= count[u[1]]})

Init ==
    /\ clock = 0
    /\ counter = [b \in Buckets |-> 0] /\ expiry = [b \in Buckets |-> Never]
    /\ check = [p \in Checkers |-> NoCheck]
    /\ attempts = 0
    /\ allowed = [t \in 0..LastTime |-> 0]
-----------------------------------------------------------------------------
\* attempts = INCR
Increment(p) ==
    LET b == CurrentBucket IN
    /\ check[p] = NoCheck /\ attempts < MaxAttempts
    /\ attempts' = attempts + 1
    /\ counter' = [counter EXCEPT ![b] = @ + 1]
    /\ check' = [check EXCEPT ![p] = [at |-> IF counter[b] = 0 THEN "expire" ELSE "sum",
                                      bucket |-> b, since |-> clock]]
    /\ UNCHANGED <<clock, expiry, allowed>>

\* The first attempt of a bucket: EXPIRE window + bucket_size
SetExpiry(p) ==
    /\ check[p].at = "expire"
    /\ LET b == check[p].bucket IN
       expiry' = IF counter[b] = 0 THEN expiry
                 ELSE [expiry EXCEPT ![b] = clock + Window + BucketSize]
    /\ check' = [check EXCEPT ![p].at = "sum"]
    /\ UNCHANGED <<clock, counter, attempts, allowed>>

\* Mutant: as many buckets as the window holds.
InWindowShort(b, now) == b <= now /\ now < b + NumBuckets

\* [now_bucket - i for i in range(num_buckets + 1)]
InWindow(b, now) == b <= now /\ now <= b + NumBuckets

\* MGET, and the answer.
Sum(p) ==
    /\ check[p].at = "sum"
    /\ LET total == Total(counter, {b \in Buckets : InWindow(b, check[p].bucket)}) IN
       allowed' = IF total > MaxLimited THEN allowed
                  ELSE [allowed EXCEPT ![check[p].since] = @ + 1]
    /\ check' = [check EXCEPT ![p] = NoCheck]
    /\ UNCHANGED <<clock, counter, expiry, attempts>>

Stop(p) ==
    /\ check[p] # NoCheck
    /\ check' = [check EXCEPT ![p] = NoCheck]
    /\ UNCHANGED <<clock, counter, expiry, attempts, allowed>>

\* Time passes, and Redis drops what has expired.
Pass ==
    /\ clock < LastTime
    /\ \A p \in Checkers : check[p] # NoCheck => clock < check[p].since + MaxStall
    /\ clock' = clock + 1
    /\ LET dead == {b \in Buckets : expiry[b] <= clock'} IN
       /\ counter' = [b \in Buckets |-> IF b \in dead THEN 0 ELSE counter[b]]
       /\ expiry' = [b \in Buckets |-> IF b \in dead THEN Never ELSE expiry[b]]
    /\ UNCHANGED <<check, attempts, allowed>>

Next ==
    \/ \E p \in Checkers : Increment(p) \/ SetExpiry(p) \/ Sum(p) \/ Stop(p)
    \/ Pass

Spec == Init /\ [][Next]_limiterVars
-----------------------------------------------------------------------------
TypeOK ==
    /\ clock \in 0..LastTime
    /\ counter \in [Buckets -> 0..MaxAttempts]
    /\ expiry \in [Buckets -> 0..Never]
    /\ \A p \in Checkers : check[p] = NoCheck \/ check[p] \in
           [at : {"expire", "sum"}, bucket : Buckets, since : 0..LastTime]
    /\ attempts \in 0..MaxAttempts
    /\ allowed \in [0..LastTime -> 0..MaxAttempts]

\* "Max allowed events in the window": no stretch of Window seconds, wherever it
\* begins, lets more attempts pass than the limit, and one more for every other
\* process that was inside is_limited when a bucket ended.
WindowIsLimited ==
    \A t \in 0..LastTime :
        Total(allowed, {u \in 0..LastTime : t <= u /\ u < t + Window})
            <= MaxLimited + Cardinality(Checkers) - 1
=============================================================================
