---------------------------- MODULE RateLimiter ----------------------------
(***************************************************************************)
(* The per-recipient token bucket of src/middleware/ratelimit.ts, for one  *)
(* recipient: a Lua script that Redis runs atomically, called by requests  *)
(* of several server processes.  A request reads Date.now() before it      *)
(* sends the script, so scripts may run in another order than their        *)
(* timestamps.                                                             *)
(*                                                                         *)
(* Tokens are counted in units of 1/Window: the bucket holds Full units,   *)
(* gains Capacity units per tick and a request costs Window units, so the  *)
(* script's division is exact.  The rounding of its floats is left out.    *)
(***************************************************************************)
EXTENDS Integers

CONSTANTS
    Requests,   \* the requests in flight at one time
    Capacity,   \* options.capacity
    Window,     \* options.windowSeconds, in ticks of the clock
    Second,     \* the ticks of a second: a tick is the script's millisecond
    MaxDelay,   \* the ticks from Date.now() to the run of the script, at most
    Ttl,        \* the PEXPIRE of the bucket, in ticks
    None,       \* no request in flight
    MaxClock    \* bound: the last tick

ASSUME LimiterAssumption ==
    /\ Capacity \in Nat \ {0}
    /\ Window \in Nat \ {0}
    /\ Second \in Nat \ {0}
    /\ MaxDelay \in Nat
    /\ Ttl \in Nat
    /\ Ttl >= 2 * Window      \* max(120 s, 2 * windowMs)
    /\ MaxDelay <= Window     \* a request is not in flight for a minute
    /\ None \notin Nat
    /\ MaxClock \in Nat

VARIABLES
    clock,      \* the time, the same for every process
    stored,     \* whether the key exists in Redis
    tokens,     \* field `tokens`, in units
    last,       \* field `last_refill`
    expiry,     \* when the key expires
    stamp,      \* request -> the Date.now() it has sent, or None
    allowedAt,  \* history: when the last refused request was told to come back
    admitted,   \* history: requests admitted since `since`
    since,      \* history: when counting began
    rewound     \* history: ticks by which last_refill was set back since then

bucketVars  == <<stored, tokens, last, expiry>>
historyVars == <<allowedAt, admitted, since, rewound>>
vars == <<clock, bucketVars, stamp, historyVars>>

Full == Capacity * Window

TypeOK ==
    /\ clock \in Nat
    /\ stored \in BOOLEAN
    /\ tokens \in 0 .. Full
    /\ last \in Nat
    /\ expiry \in Nat
    /\ stamp \in [Requests -> Nat \cup {None}]
    /\ allowedAt \in Nat \cup {None}
    /\ admitted \in Nat
    /\ since \in Nat
    /\ rewound \in Nat

Init ==
    /\ clock = 0
    /\ stored = FALSE
    /\ tokens = 0
    /\ last = 0
    /\ expiry = 0
    /\ stamp = [r \in Requests |-> None]
    /\ allowedAt = None
    /\ admitted = 0
    /\ since = 0
    /\ rewound = 0

-----------------------------------------------------------------------------
AtLeast(x, y) == IF x >= y THEN x ELSE y

AtMost(x, y) == IF x <= y THEN x ELSE y

CeilDiv(x, y) == (x + y - 1) \div y

(***************************************************************************)
(* The level of the bucket at time now: a missing one is full, and time    *)
(* that runs backwards adds nothing.                                       *)
(***************************************************************************)
uncapped(now) == IF stored THEN tokens + AtLeast(0, now - last) * Capacity ELSE Full  \* mutant

refilled(now) ==
    IF stored
    THEN AtMost(Full, tokens + AtLeast(0, now - last) * Capacity)
    ELSE Full

(***************************************************************************)
(* retry_after_ms for a bucket at this level, and what the caller is told: *)
(* whole seconds.                                                          *)
(***************************************************************************)
retryAfter(level) == CeilDiv(Window - level, Capacity)

secondsRoundedDown(level) == retryAfter(level) \div Second  \* mutant

retryAfterSeconds(level) == CeilDiv(retryAfter(level), Second)

shortLifetime == Window \div 2  \* mutant: an idle bucket refills too early

keyLifetime == Ttl

checkRateLimit(r) ==
    /\ stamp[r] = None
    /\ stamp' = [stamp EXCEPT ![r] = clock]
    /\ UNCHANGED <<clock, bucketVars, historyVars>>

(***************************************************************************)
(* The script.                                                             *)
(***************************************************************************)
spend(now) ==
    LET level == refilled(now) IN
    IF level >= Window
    THEN /\ tokens' = level - Window
         /\ admitted' = admitted + 1
         /\ allowedAt' = None
    ELSE /\ tokens' = level
         /\ allowedAt' = now + retryAfterSeconds(level) * Second
         /\ UNCHANGED admitted

tokenBucket(r) ==
    /\ stamp[r] # None
    /\ spend(stamp[r])
    /\ stored' = TRUE
    /\ last' = stamp[r]
    /\ expiry' = clock + keyLifetime
    /\ rewound' = rewound + IF stored THEN AtLeast(0, last - stamp[r]) ELSE 0
    /\ stamp' = [stamp EXCEPT ![r] = None]
    /\ UNCHANGED <<clock, since>>

(***************************************************************************)
(* External: Redis drops the key when its time to live is over.            *)
(***************************************************************************)
ExpireKey ==
    /\ stored
    /\ clock >= expiry
    /\ stored' = FALSE
    /\ UNCHANGED <<clock, tokens, last, expiry, stamp, historyVars>>

Tick ==
    /\ clock < MaxClock
    /\ \A r \in Requests : stamp[r] # None => clock < stamp[r] + MaxDelay
    /\ clock' = clock + 1
    /\ UNCHANGED <<bucketVars, stamp, historyVars>>

(***************************************************************************)
(* Counting starts at any time at which no request is in flight: what is   *)
(* shown of the requests counted holds of every such interval.             *)
(***************************************************************************)
StartCounting ==
    /\ \A r \in Requests : stamp[r] = None
    /\ since' = clock
    /\ admitted' = 0
    /\ rewound' = 0
    /\ UNCHANGED <<clock, bucketVars, stamp, allowedAt>>

Next ==
    \/ \E r \in Requests : checkRateLimit(r) \/ tokenBucket(r)
    \/ ExpireKey
    \/ Tick
    \/ StartCounting

Spec == Init /\ [][Next]_vars

-----------------------------------------------------------------------------
(***************************************************************************)
(* In every interval at most the burst plus the refill of the interval is  *)
(* admitted, and the refill of the ticks by which a late script set        *)
(* last_refill back, which are credited twice.                             *)
(***************************************************************************)
AdmissionBound ==
    admitted * Window <= Full + (clock - since + rewound) * Capacity

(***************************************************************************)
(* A caller refused with a Retry-After of n seconds that waits n seconds   *)
(* is admitted, if no script runs meanwhile, also when the bucket expires  *)
(* while it waits; and it was told less than a second too long: a script   *)
(* stamped a whole second earlier still refuses.                           *)
(***************************************************************************)
RetryAfterSuffices ==
    [][\A r \in Requests :
         (tokenBucket(r) /\ allowedAt # None) =>
           /\ stamp[r] >= allowedAt => admitted' = admitted + 1
           /\ stamp[r] + Second <= allowedAt => admitted' = admitted]_vars

=============================================================================
