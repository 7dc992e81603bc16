---------------------------- MODULE RateLimiter ----------------------------
(***************************************************************************)
(* The token bucket of internal/server/ratelimit.go that guards the public *)
(* POST endpoints and the two sign-in endpoints.  A bucket is created      *)
(* full when its address first asks, refilled only when it asks again, and *)
(* forgotten by a sweep once it has been idle.  allow runs under a mutex   *)
(* with the time read inside it, so that one call is one step.             *)
(*                                                                         *)
(* Time is counted in ticks, Second of them to a second.  The code's       *)
(* tokens are floats refilled by burst/window a second; here a request     *)
(* costs Window parts and a tick refills Burst of them, which is the same  *)
(* in integers.  Rounding of the floats is left out.                       *)
(***************************************************************************)
EXTENDS Integers

CONSTANTS
    Key,         \* addresses of clients (clientIP)
    Burst,       \* defaultRateBurst
    Window,      \* defaultRateWindow, in ticks
    BucketTTL,   \* bucketTTL, in ticks
    Second,      \* ticks to a second
    MaxTime      \* bound on the clock

ASSUME ParameterAssumption ==
    /\ Burst \in Nat \ {0}
    /\ Window \in Nat \ {0}
    /\ Second \in Nat \ {0}
    /\ MaxTime \in Nat

\* "idle long enough to be fully refilled" (ratelimit.go:76): true of ten
\* minutes and a window of one.
ASSUME TTLAssumption == BucketTTL \in Nat /\ BucketTTL >= Window

VARIABLES
    now,         \* the monotonic clock
    buckets,     \* a function from some addresses to buckets
    lastSweep,
    answer,      \* what was last answered, until the clock goes on
    granted,     \* history: per address and time, requests let through since then
    told         \* history: when an address that was refused may come back

vars == <<now, buckets, lastSweep, answer, granted, told>>

----------------------------------------------------------------------------
(* Buckets *)

Cost == Window
Full == Burst * Window

Bucket == [tokens : 0 .. Full, seen : Nat]

NoAnswer == <<>>
NotTold == -1

Time == 0 .. MaxTime

\* lastSweep before the first sweep: the zero time, longer ago than any TTL.
ZeroTime == -BucketTTL

Capped(tokens) == IF tokens > Full THEN Full ELSE tokens

\* The tokens a bucket has when it is next asked, with its refill.
Refilled(b) == Capped(b.tokens + (now - b.seen) * Burst)

TypeOK ==
    /\ now \in Time
    /\ DOMAIN buckets \subseteq Key
    /\ buckets \in [DOMAIN buckets -> Bucket]
    /\ lastSweep \in Int
    /\ answer \in {NoAnswer} \cup (Key \X BOOLEAN)
    /\ granted \in [Key -> [Time -> Nat]]
    /\ told \in [Key -> Nat \cup {NotTold}]

Init ==
    /\ now = 0
    /\ buckets = [k \in {} |-> 0]
    /\ lastSweep = ZeroTime
    /\ answer = NoAnswer
    /\ granted = [k \in Key |-> [t \in Time |-> 0]]
    /\ told = [k \in Key |-> NotTold]

----------------------------------------------------------------------------
(* The operations *)

SweepDue == now - lastSweep >= BucketTTL

\* Faulty: the sweep drops every bucket, idle or not.
Kept_None == IF SweepDue THEN {} ELSE DOMAIN buckets

\* The buckets that the sweep at the start of a call leaves.
Kept ==
    IF SweepDue THEN {k \in DOMAIN buckets : now - buckets[k].seen <= BucketTTL}
    ELSE DOMAIN buckets

\* Faulty: an idle bucket fills beyond the burst.
TokensOf_Uncapped(k) ==
    IF k \in Kept
    THEN buckets[k].tokens + (now - buckets[k].seen) * Burst
    ELSE Full

\* The tokens a call finds for k: of a new bucket, or of the one it refills.
TokensOf(k) == IF k \in Kept THEN Refilled(buckets[k]) ELSE Full

\* Faulty: the wait is cut to whole seconds.
RetryAfter_Cut(tokens) == (Cost - tokens) \div (Burst * Second)

\* The Retry-After header: the wait for the missing tokens plus a second, cut
\* to whole seconds (ratelimit.go:70 and 94).
RetryAfter(tokens) == ((Cost - tokens) \div (Burst * Second)) + 1

\* Faulty: the time of the refill is not noted, the next call refills again.
Store_OldSeen(k, tokens) ==
    /\ buckets' = [i \in Kept \cup {k} |->
                    IF i \in Kept /\ i = k THEN [buckets[i] EXCEPT !.tokens = tokens]
                    ELSE IF i = k THEN [tokens |-> tokens, seen |-> now] ELSE buckets[i]]
    /\ lastSweep' = IF SweepDue THEN now ELSE lastSweep
    /\ UNCHANGED now

\* A call's effect on the buckets, when it leaves k with tokens.
Store(k, tokens) ==
    /\ buckets' = [i \in Kept \cup {k} |->
                    IF i = k THEN [tokens |-> tokens, seen |-> now] ELSE buckets[i]]
    /\ lastSweep' = IF SweepDue THEN now ELSE lastSweep
    /\ UNCHANGED now

\* allow, when there is no token: the request is answered with 429.
Refuse(k) ==
    /\ TokensOf(k) < Cost
    /\ Store(k, TokensOf(k))
    /\ answer' = <<k, FALSE>>
    /\ told' = [told EXCEPT ![k] = now + RetryAfter(TokensOf(k)) * Second]
    /\ UNCHANGED granted

\* allow, when there is one: the request goes on to its handler.
Pass(k) ==
    /\ TokensOf(k) >= Cost
    /\ Store(k, TokensOf(k) - Cost)
    /\ answer' = <<k, TRUE>>
    /\ granted' = [granted EXCEPT ![k] =
                    [t \in Time |-> IF t <= now THEN granted[k][t] + 1 ELSE granted[k][t]]]
    /\ told' = [told EXCEPT ![k] = NotTold]

Allow(k) == Pass(k) \/ Refuse(k)

\* The process starts again, with no buckets.  The counts are of one process.
Restart ==
    /\ buckets' = [k \in {} |-> 0]
    /\ lastSweep' = ZeroTime
    /\ answer' = NoAnswer
    /\ granted' = [k \in Key |-> [t \in Time |-> 0]]
    /\ UNCHANGED <<now, told>>

Tick ==
    /\ now < MaxTime
    /\ now' = now + 1
    /\ answer' = NoAnswer
    /\ UNCHANGED <<buckets, lastSweep, granted, told>>

Next == Tick \/ Restart \/ \E k \in Key : Allow(k)

Spec == Init /\ [][Next]_vars

----------------------------------------------------------------------------
(* Properties *)

\* The allowance an address has, whether or not a bucket of it is kept.
Level(k) == IF k \in DOMAIN buckets THEN Refilled(buckets[k]) ELSE Full

\* From any time on, an address gets no more requests through than a burst and
\* the refill since: the promise of the limit, which the sweep must not break.
RateBound ==
    \A k \in Key : \A t \in 0 .. now :
        granted[k][t] * Cost <= Full + (now - t) * Burst

\* A client that waits as long as Retry-After told it, and whose address had no
\* other request let through meanwhile, is not refused again.
RetryIsHonoured ==
    [][ \A k \in Key :
            told[k] # NotTold /\ told[k] <= now => answer' # <<k, FALSE>> ]_vars

\* Why the bound holds: what was let through and what is left together never
\* exceed it.
Accounted ==
    \A k \in Key : \A t \in 0 .. now :
        granted[k][t] * Cost + Level(k) <= Full + (now - t) * Burst

\* Why the wait is long enough: the missing tokens come in by then.
EnoughByThen ==
    \A k \in Key : told[k] # NotTold =>
        IF told[k] <= now THEN Level(k) >= Cost
        ELSE Level(k) + (told[k] - now) * Burst >= Cost

IInv ==
    /\ TypeOK
    /\ \A k \in DOMAIN buckets : buckets[k].seen <= now
    /\ \A k \in Key : \A t \in Time : t > now => granted[k][t] = 0
    /\ Accounted
    /\ EnoughByThen

\* Buckets, their lazy refill and the sweep are not seen from outside: the
\* limiter answers like a plain allowance for every address.
Promise == INSTANCE Quota WITH
    Refill <- Burst,
    level <- [k \in Key |-> Level(k)]

KeepsQuota == Promise!Spec
=============================================================================
