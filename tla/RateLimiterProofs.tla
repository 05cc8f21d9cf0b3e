-------------------------- MODULE RateLimiterProofs --------------------------
(***************************************************************************)
(* The token bucket admits no more than its burst and its refill, for any  *)
(* capacity, window, delay and number of requests.  The argument is about  *)
(* a potential: what was admitted since counting began and what is left in *)
(* the bucket, against what may have flowed in.                            *)
(***************************************************************************)
EXTENDS RateLimiter, TLAPS

(***************************************************************************)
(* Arithmetic the SMT solver does not find by itself.                      *)
(***************************************************************************)
LEMMA Products ==
  ASSUME NEW a \in Int, NEW b \in Int, NEW c \in Nat
  PROVE  /\ a * c \in Int
         /\ (a + b) * c = a * c + b * c
         /\ a <= b => a * c <= b * c
  BY SMT

LEMMA Quotients ==
  ASSUME NEW n \in Nat, NEW d \in Nat \ {0}
  PROVE  n \div d \in Nat
  BY SMT

LEMMA FullIsNat == Full \in Nat /\ Window <= Full
  BY LimiterAssumption DEF Full

LEMMA InitTypes == Init => TypeOK
<1> SUFFICES ASSUME Init PROVE TypeOK
  OBVIOUS
<1>1. tokens \in 0 .. Full
  BY FullIsNat DEF Init
<1>2. /\ clock \in Nat /\ stored \in BOOLEAN /\ last \in Nat /\ expiry \in Nat
      /\ allowedAt \in Nat \cup {None} /\ admitted \in Nat /\ since \in Nat
      /\ rewound \in Nat
  BY DEF Init
<1>3. stamp \in [Requests -> Nat \cup {None}]
  BY DEF Init
<1> QED BY <1>1, <1>2, <1>3 DEF TypeOK

LEMMA LevelType ==
  ASSUME TypeOK, NEW now \in Nat
  PROVE  refilled(now) \in 0 .. Full
<1>1. AtLeast(0, now - last) \in Nat
  BY DEF TypeOK, AtLeast
<1>2. AtLeast(0, now - last) * Capacity \in Nat
  BY <1>1, LimiterAssumption
<1> QED BY <1>2, FullIsNat DEF TypeOK, refilled, AtMost

LEMMA RetryType ==
  ASSUME NEW level \in Nat, level < Window
  PROVE  retryAfter(level) \in Nat
<1>1. Window - level + Capacity - 1 \in Nat
  BY LimiterAssumption
<1> QED BY <1>1, Quotients, LimiterAssumption DEF retryAfter, CeilDiv

LEMMA SecondsType ==
  ASSUME NEW level \in Nat, level < Window
  PROVE  retryAfterSeconds(level) * Second \in Nat
<1>1. retryAfter(level) \in Nat
  BY RetryType
<1>2. retryAfter(level) + Second - 1 \in Nat
  BY <1>1, LimiterAssumption
<1>3. retryAfterSeconds(level) \in Nat
  BY <1>2, Quotients, LimiterAssumption DEF retryAfterSeconds, CeilDiv
<1> QED BY <1>3, LimiterAssumption

LEMMA ScriptTypes ==
  ASSUME TypeOK, NEW r \in Requests, tokenBucket(r)
  PROVE  TypeOK'
<1> DEFINE now == stamp[r]
<1> DEFINE level == refilled(now)
<1>1. now \in Nat
  BY DEF TypeOK, tokenBucket
<1>2. level \in 0 .. Full
  BY <1>1, LevelType
<1>3. tokens' \in 0 .. Full /\ admitted' \in Nat /\ allowedAt' \in Nat \cup {None}
  <2> HIDE DEF level
  <2>1. CASE level >= Window
    BY <1>2, <2>1, LimiterAssumption, FullIsNat DEF tokenBucket, spend, TypeOK, level
  <2>2. CASE ~ (level >= Window)
    <3>1. level \in Nat /\ level < Window
      BY <1>2, <2>2, FullIsNat, LimiterAssumption
    <3>2. retryAfterSeconds(level) * Second \in Nat
      BY <3>1, SecondsType
    <3>3. /\ tokens' = level /\ UNCHANGED admitted
          /\ allowedAt' = now + retryAfterSeconds(level) * Second
      BY <2>2 DEF tokenBucket, spend, level
    <3> QED BY <1>1, <1>2, <3>2, <3>3 DEF TypeOK
  <2> QED BY <2>1, <2>2
<1>4. stamp' \in [Requests -> Nat \cup {None}]
  BY DEF TypeOK, tokenBucket
<1>5. rewound' \in Nat
  BY <1>1 DEF TypeOK, tokenBucket, AtLeast
<1>6. /\ clock' \in Nat /\ stored' \in BOOLEAN /\ last' \in Nat /\ since' \in Nat
      /\ expiry' \in Nat
  BY <1>1, LimiterAssumption DEF TypeOK, tokenBucket, keyLifetime
<1> QED BY <1>3, <1>4, <1>5, <1>6 DEF TypeOK

LEMMA TypesStep == TypeOK /\ [Next]_vars => TypeOK'
<1> SUFFICES ASSUME TypeOK, [Next]_vars PROVE TypeOK'
  OBVIOUS
<1>1. CASE UNCHANGED vars
  BY <1>1 DEF TypeOK, vars, bucketVars, historyVars
<1>2. ASSUME NEW r \in Requests, checkRateLimit(r) PROVE TypeOK'
  BY <1>2 DEF TypeOK, checkRateLimit, bucketVars, historyVars
<1>3. ASSUME NEW r \in Requests, tokenBucket(r) PROVE TypeOK'
  BY <1>3, ScriptTypes
<1>4. CASE ExpireKey
  BY <1>4 DEF TypeOK, ExpireKey, historyVars
<1>5. CASE Tick
  BY <1>5 DEF TypeOK, Tick, bucketVars, historyVars
<1>6. CASE StartCounting
  BY <1>6 DEF TypeOK, StartCounting, bucketVars
<1> QED BY <1>1, <1>2, <1>3, <1>4, <1>5, <1>6 DEF Next

(***************************************************************************)
(* Every variable of the limiter keeps its type: the script never leaves   *)
(* the bucket overfull or overdrawn.                                       *)
(***************************************************************************)
THEOREM LimiterTypes == Spec => []TypeOK
  BY InitTypes, TypesStep, PTL DEF Spec

-----------------------------------------------------------------------------
(***************************************************************************)
(* A request in flight was stamped after counting began and is not older   *)
(* than MaxDelay; a key that exists outlives a refill, and one that is     *)
(* gone has not been touched for that long.                                *)
(***************************************************************************)
Timely ==
    /\ last <= clock /\ since <= clock
    /\ \A r \in Requests :
         stamp[r] # None => /\ since <= stamp[r] /\ stamp[r] <= clock
                            /\ clock <= stamp[r] + MaxDelay
    /\ stored => last + Ttl <= expiry
    /\ ~stored /\ (admitted # 0 \/ allowedAt # None) => last + Ttl <= clock

(***************************************************************************)
(* The potential.  Before the first script after counting began the bucket *)
(* may be full of what flowed in earlier.                                  *)
(***************************************************************************)
Inflow == (last - since + rewound) * Capacity

Potential ==
    \/ admitted = 0 /\ last <= since /\ rewound = 0
    \/ since <= last /\ tokens + admitted * Window <= Full + Inflow

Bounded == Timely /\ Potential

LEMMA InitBounded == Init => Bounded
  BY DEF Init, Bounded, Timely, Potential

LEMMA ScriptTimely ==
  ASSUME TypeOK, Bounded, NEW r \in Requests, tokenBucket(r)
  PROVE  Timely'
<1>1. stamp[r] \in Nat
  BY DEF TypeOK, tokenBucket
<1> QED
  BY <1>1, LimiterAssumption
  DEF Bounded, Timely, TypeOK, tokenBucket, keyLifetime

LEMMA ScriptPotential ==
  ASSUME TypeOK, Bounded, NEW r \in Requests, tokenBucket(r)
  PROVE  Potential'
<1> DEFINE now == stamp[r]
<1> DEFINE level == refilled(now)
<1>1. /\ now \in Nat /\ since <= now /\ now <= clock /\ clock <= now + MaxDelay
      /\ last' = now /\ since' = since
      /\ rewound' = rewound + IF stored THEN AtLeast(0, last - now) ELSE 0
  BY DEF TypeOK, tokenBucket, Bounded, Timely
<1>2. level \in Nat /\ level <= Full
  BY <1>1, LevelType, FullIsNat
<1>3. tokens' + admitted' * Window = level + admitted * Window
  <2> HIDE DEF level
  <2>1. (admitted + 1) * Window = admitted * Window + Window
    BY Products, LimiterAssumption DEF TypeOK
  <2>2. admitted * Window \in Int
    BY LimiterAssumption DEF TypeOK
  <2>3. \/ tokens' = level - Window /\ admitted' = admitted + 1
        \/ tokens' = level /\ admitted' = admitted
    BY DEF tokenBucket, spend, level
  <2> QED BY <1>2, <2>1, <2>2, <2>3, LimiterAssumption
<1> DEFINE inflow == (now - since + rewound') * Capacity
<1>4. rewound' \in Nat /\ rewound <= rewound'
  BY <1>1 DEF TypeOK, AtLeast
<1>5. inflow \in Nat
  BY <1>1, <1>4, LimiterAssumption DEF TypeOK
<1>6. level + admitted * Window <= Full + inflow
  <2> HIDE DEF level, inflow
  <2>1. CASE admitted = 0
    BY <1>2, <1>5, <2>1, FullIsNat, LimiterAssumption
  <2>2. CASE admitted # 0
    <3>1. since <= last /\ tokens + admitted * Window <= Full + Inflow
      BY <2>2 DEF Bounded, Potential
    <3>2. Inflow \in Int /\ admitted * Window \in Int
      BY LimiterAssumption, Products DEF Inflow, TypeOK
    <3>3. CASE ~stored
      <4>1. last + Window <= now /\ rewound' = rewound
        BY <1>1, <2>2, <3>3, LimiterAssumption DEF Bounded, Timely, TypeOK
      <4>2. (last - since + rewound + Window) * Capacity <= inflow
        BY <1>1, <4>1, Products, LimiterAssumption DEF inflow, TypeOK
      <4>3. (last - since + rewound + Window) * Capacity = Inflow + Full
        BY Products, LimiterAssumption DEF Inflow, Full, TypeOK
      <4> QED
        BY <1>2, <1>5, <3>1, <3>2, <4>2, <4>3, FullIsNat DEF TypeOK
    <3>4. CASE stored /\ last <= now
      <4>1. rewound' = rewound /\ level <= tokens + (now - last) * Capacity
        BY <1>1, <3>4, LimiterAssumption, FullIsNat, Products
        DEF level, refilled, AtMost, AtLeast, TypeOK
      <4>2. inflow = Inflow + (now - last) * Capacity
        BY <1>1, <4>1, Products, LimiterAssumption DEF inflow, Inflow, TypeOK
      <4>3. (now - last) * Capacity \in Int
        BY <1>1, LimiterAssumption DEF TypeOK
      <4> QED
        BY <1>2, <1>5, <3>1, <3>2, <4>1, <4>2, <4>3, FullIsNat DEF TypeOK
    <3>5. CASE stored /\ now < last
      <4>1. rewound' = rewound + (last - now)
        BY <1>1, <3>5 DEF AtLeast, TypeOK
      <4>2. level <= tokens
        BY <1>1, <3>5, LimiterAssumption, FullIsNat
        DEF level, refilled, AtMost, AtLeast, TypeOK
      <4>3. inflow = Inflow
        BY <1>1, <4>1 DEF inflow, Inflow, TypeOK
      <4> QED BY <1>2, <1>5, <3>1, <3>2, <4>2, <4>3, FullIsNat DEF TypeOK
    <3> QED BY <1>1, <3>3, <3>4, <3>5 DEF TypeOK
  <2> QED BY <2>1, <2>2
<1> QED BY <1>1, <1>3, <1>6 DEF Potential, Inflow

LEMMA BoundedStep == TypeOK /\ Bounded /\ [Next]_vars => Bounded'
<1> SUFFICES ASSUME TypeOK, Bounded, [Next]_vars PROVE Bounded'
  OBVIOUS
<1>1. CASE UNCHANGED vars
  BY <1>1 DEF Bounded, Timely, Potential, Inflow, vars, bucketVars, historyVars
<1>2. ASSUME NEW r \in Requests, checkRateLimit(r) PROVE Bounded'
  BY <1>2, LimiterAssumption
  DEF Bounded, Timely, Potential, Inflow, TypeOK, checkRateLimit, bucketVars,
      historyVars
<1>3. ASSUME NEW r \in Requests, tokenBucket(r) PROVE Bounded'
  BY <1>3, ScriptTimely, ScriptPotential DEF Bounded
<1>4. CASE ExpireKey
  <2>1. Timely'
    BY <1>4, LimiterAssumption DEF Bounded, Timely, TypeOK, ExpireKey, historyVars
  <2>2. Potential'
    BY <1>4 DEF Bounded, Potential, Inflow, ExpireKey, historyVars
  <2> QED BY <2>1, <2>2 DEF Bounded
<1>5. CASE Tick
  <2>1. Timely'
    BY <1>5, LimiterAssumption
    DEF Bounded, Timely, TypeOK, Tick, bucketVars, historyVars
  <2>2. Potential'
    BY <1>5 DEF Bounded, Potential, Inflow, Tick, bucketVars, historyVars
  <2> QED BY <2>1, <2>2 DEF Bounded
<1>6. CASE StartCounting
  BY <1>6 DEF Bounded, Timely, Potential, TypeOK, StartCounting, bucketVars
<1> QED BY <1>1, <1>2, <1>3, <1>4, <1>5, <1>6 DEF Next

LEMMA BoundedInvariant == Spec => [](TypeOK /\ Bounded)
  BY InitBounded, BoundedStep, LimiterTypes, PTL DEF Spec

(***************************************************************************)
(* The admission bound: from any moment on, at most the burst plus the     *)
(* refill of the time since then, and of the ticks by which late scripts   *)
(* set last_refill back, is admitted, whatever order the scripts of        *)
(* several processes run in and whenever the bucket expires.               *)
(***************************************************************************)
THEOREM AdmissionsBounded == Spec => []AdmissionBound
<1>1. ASSUME TypeOK, Bounded PROVE AdmissionBound
  <2> DEFINE inflow == (clock - since + rewound) * Capacity
  <2>1. inflow \in Nat /\ Inflow <= inflow /\ Inflow \in Int
    BY <1>1, Products, LimiterAssumption DEF Bounded, Timely, Inflow, TypeOK
  <2>2. admitted * Window \in Nat
    BY <1>1, LimiterAssumption DEF TypeOK
  <2>3. CASE admitted = 0
    BY <1>1, <2>1, <2>3, FullIsNat, LimiterAssumption DEF AdmissionBound, TypeOK
  <2>4. CASE admitted # 0
    <3>1. tokens + admitted * Window <= Full + Inflow
      BY <1>1, <2>4 DEF Bounded, Potential
    <3> HIDE DEF inflow
    <3>2. admitted * Window <= Full + inflow
      BY <1>1, <2>1, <2>2, <3>1, FullIsNat DEF TypeOK
    <3> QED BY <3>2 DEF AdmissionBound, inflow
  <2> QED BY <2>3, <2>4
<1> QED BY <1>1, BoundedInvariant, PTL

-----------------------------------------------------------------------------
(***************************************************************************)
(* After a refusal the bucket holds less than a token, and what the caller *)
(* was told follows from its level.                                        *)
(***************************************************************************)
Refusal ==
    allowedAt # None =>
      /\ tokens < Window
      /\ allowedAt = last + retryAfterSeconds(tokens) * Second

LEMMA CeilFacts ==
  ASSUME NEW x \in Nat, NEW d \in Nat \ {0}, NEW k \in Int
  PROVE  CeilDiv(x, d) <= k <=> x <= k * d
<1> DEFINE n == x + d - 1
<1> DEFINE q == n \div d
<1>1. n \in Nat /\ q \in Nat
  BY Quotients
<1>2. q * d <= n /\ n < (q + 1) * d
  BY SMT
<1> HIDE DEF q
<1>3. (q + 1) * d = q * d + d /\ q * d \in Int /\ k * d \in Int
  BY <1>1, Products
<1>4. ASSUME q <= k PROVE x <= k * d
  <2>1. q * d <= k * d
    BY <1>1, <1>4, Products
  <2> QED BY <1>2, <1>3, <2>1
<1>5. ASSUME k < q PROVE k * d < x
  <2>1. k + 1 <= q /\ k + 1 \in Int
    BY <1>1, <1>5
  <2>2. (k + 1) * d <= q * d
    BY <1>1, <2>1, Products
  <2>3. (k + 1) * d = k * d + d
    BY Products
  <2> QED BY <1>2, <1>3, <2>2, <2>3
<1> QED BY <1>1, <1>3, <1>4, <1>5 DEF CeilDiv, q

LEMMA RefusalStep == TypeOK /\ Refusal /\ [Next]_vars => Refusal'
<1> SUFFICES ASSUME TypeOK, Refusal, [Next]_vars PROVE Refusal'
  OBVIOUS
<1>1. CASE UNCHANGED <<tokens, last, allowedAt>>
  BY <1>1 DEF Refusal, retryAfterSeconds, retryAfter, CeilDiv
<1>2. ASSUME NEW r \in Requests, tokenBucket(r) PROVE Refusal'
  <2> DEFINE level == refilled(stamp[r])
  <2>1. stamp[r] \in Nat /\ level \in Nat /\ last' = stamp[r]
    BY <1>2, LevelType, FullIsNat DEF TypeOK, tokenBucket
  <2>2. CASE level >= Window
    BY <1>2, <2>2 DEF tokenBucket, spend, Refusal
  <2>3. CASE ~ (level >= Window)
    BY <1>2, <2>1, <2>3, LimiterAssumption
    DEF tokenBucket, spend, Refusal, retryAfterSeconds, retryAfter, CeilDiv
  <2> QED BY <2>2, <2>3
<1> QED
  BY <1>1, <1>2
  DEF Next, checkRateLimit, ExpireKey, Tick, StartCounting, vars, bucketVars,
      historyVars

(***************************************************************************)
(* A script stamped s meets a token exactly if s is not before the time    *)
(* the script itself computed.                                             *)
(***************************************************************************)
LEMMA RefillsAt ==
  ASSUME TypeOK, Bounded, Refusal, allowedAt # None, NEW r \in Requests,
         stamp[r] # None
  PROVE  stamp[r] >= last + retryAfter(tokens) <=> refilled(stamp[r]) >= Window
<1> DEFINE s == stamp[r]
<1> DEFINE missing == Window - tokens
<1> DEFINE due == last + retryAfter(tokens)
<1>1. /\ s \in Nat /\ clock <= s + MaxDelay
      /\ tokens \in Nat /\ tokens < Window /\ missing \in Nat /\ missing > 0
      /\ due = last + CeilDiv(missing, Capacity)
  BY FullIsNat, LimiterAssumption
  DEF TypeOK, Bounded, Timely, Refusal, retryAfter
<1>2. CeilDiv(missing, Capacity) \in Nat
  BY <1>1, RetryType DEF retryAfter
<1>3. CeilDiv(missing, Capacity) <= s - last <=> missing <= (s - last) * Capacity
  <2>1. s - last \in Int
    BY <1>1 DEF TypeOK
  <2> HIDE DEF missing
  <2> QED BY <1>1, <2>1, CeilFacts, LimiterAssumption
<1>4. s >= due <=> missing <= (s - last) * Capacity
  BY <1>1, <1>2, <1>3 DEF TypeOK
<1>5. (s - last) * Capacity \in Int
  BY <1>1, LimiterAssumption, Products DEF TypeOK
<1>6. CASE ~stored
  <2>1. Window <= s - last
    BY <1>1, <1>6, LimiterAssumption DEF Bounded, Timely, TypeOK
  <2>2. Window * Capacity <= (s - last) * Capacity
    BY <1>1, <2>1, Products, LimiterAssumption DEF TypeOK
  <2>3. missing <= (s - last) * Capacity
    BY <1>1, <1>5, <2>2, FullIsNat, LimiterAssumption DEF Full
  <2>4. refilled(s) = Full
    BY <1>6 DEF refilled
  <2> QED BY <1>4, <2>3, <2>4, FullIsNat, LimiterAssumption
<1>7. CASE stored /\ last <= s
  <2>1. refilled(s) = AtMost(Full, tokens + (s - last) * Capacity)
    BY <1>1, <1>7 DEF refilled, AtLeast, TypeOK
  <2> QED
    BY <1>1, <1>4, <1>5, <2>1, FullIsNat, LimiterAssumption DEF AtMost
<1>8. CASE stored /\ s < last
  <2>1. refilled(s) <= tokens
    BY <1>1, <1>8, FullIsNat, LimiterAssumption
    DEF refilled, AtLeast, AtMost, TypeOK
  <2>2. refilled(s) \in Nat
    BY <1>1, LevelType, FullIsNat
  <2>3. ~ (s >= due)
    BY <1>1, <1>2, <1>8 DEF TypeOK
  <2> QED BY <1>1, <2>1, <2>2, <2>3, LimiterAssumption
<1> QED BY <1>1, <1>6, <1>7, <1>8 DEF TypeOK

(***************************************************************************)
(* What the caller is told, in ticks, is the script's answer rounded up by *)
(* less than a second.                                                     *)
(***************************************************************************)
LEMMA WholeSeconds ==
  ASSUME NEW level \in Nat, level < Window
  PROVE  LET told == retryAfterSeconds(level) * Second
             exact == retryAfter(level)
         IN  /\ told \in Nat /\ exact \in Nat
             /\ exact <= told
             /\ told < exact + Second
<1> DEFINE exact == retryAfter(level)
<1> DEFINE n == retryAfterSeconds(level)
<1>1. exact \in Nat /\ n * Second \in Nat
  BY RetryType, SecondsType
<1>2. n \in Int
  <2>1. exact + Second - 1 \in Nat
    BY <1>1, LimiterAssumption
  <2> QED BY <2>1, Quotients, LimiterAssumption DEF retryAfterSeconds, CeilDiv
<1>3. n = CeilDiv(exact, Second)
  BY DEF retryAfterSeconds
<1> HIDE DEF exact, n
<1>4. exact <= n * Second
  BY <1>1, <1>2, <1>3, CeilFacts, LimiterAssumption
<1>5. ~ (exact <= (n - 1) * Second)
  <2>1. n - 1 \in Int /\ ~ (n <= n - 1)
    BY <1>2
  <2> QED BY <1>1, <1>3, <2>1, CeilFacts, LimiterAssumption
<1>6. (n - 1) * Second = n * Second - Second
  BY <1>2, Products, LimiterAssumption
<1>7. n * Second < exact + Second
  BY <1>1, <1>5, <1>6, LimiterAssumption
<1> QED BY <1>1, <1>4, <1>7 DEF exact, n

(***************************************************************************)
(* Retry-After is long enough and less than a second too long: the next    *)
(* script after a refusal admits its request if it was stamped at the time *)
(* the refused caller was given, or later, and refuses it if it was        *)
(* stamped a second or more before.                                        *)
(***************************************************************************)
THEOREM RetryAfterIsEnough == Spec => RetryAfterSuffices
<1>1. Init => Refusal
  BY DEF Init, Refusal
<1>2. Spec => [](TypeOK /\ Bounded /\ Refusal)
  BY <1>1, RefusalStep, BoundedInvariant, PTL DEF Spec
<1>3. ASSUME TypeOK, Bounded, Refusal, NEW r \in Requests,
             tokenBucket(r), allowedAt # None
      PROVE  /\ stamp[r] >= allowedAt => admitted' = admitted + 1
             /\ stamp[r] + Second <= allowedAt => admitted' = admitted
  <2> DEFINE exact == retryAfter(tokens)
  <2> DEFINE told == retryAfterSeconds(tokens) * Second
  <2>1. stamp[r] \in Nat /\ last \in Nat /\ tokens \in Nat /\ admitted \in Nat
    BY <1>3, FullIsNat DEF TypeOK, tokenBucket
  <2>2. tokens < Window /\ allowedAt = last + told
    BY <1>3 DEF Refusal
  <2>3. told \in Nat /\ exact \in Nat /\ exact <= told /\ told < exact + Second
    BY <2>1, <2>2, WholeSeconds
  <2>4. stamp[r] >= last + exact <=> refilled(stamp[r]) >= Window
    BY <1>3, RefillsAt DEF tokenBucket
  <2>5. admitted' = IF refilled(stamp[r]) >= Window THEN admitted + 1 ELSE admitted
    BY <1>3 DEF tokenBucket, spend
  <2> HIDE DEF exact, told
  <2>6. ASSUME stamp[r] >= allowedAt PROVE admitted' = admitted + 1
    BY <2>1, <2>2, <2>3, <2>4, <2>5, <2>6
  <2>7. ASSUME stamp[r] + Second <= allowedAt PROVE admitted' = admitted
    BY <2>1, <2>2, <2>3, <2>4, <2>5, <2>7, LimiterAssumption
  <2> QED BY <2>6, <2>7
<1>4. TypeOK /\ Bounded /\ Refusal =>
        [\A r \in Requests :
           (tokenBucket(r) /\ allowedAt # None) =>
             /\ stamp[r] >= allowedAt => admitted' = admitted + 1
             /\ stamp[r] + Second <= allowedAt => admitted' = admitted]_vars
  BY <1>3
<1> QED BY <1>2, <1>4, PTL DEF RetryAfterSuffices

=============================================================================
