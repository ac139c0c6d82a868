------------------------- MODULE RateLimiterProofs --------------------------
(* Proofs about RateLimiter.  The buckets keep their budget in whatever order *)
(* requests are executed, and decide alike; a fixed window does if none is    *)
(* late by more than a window; and all four algorithms are exact if requests  *)
(* are executed in the order of their stamps.                                 *)
EXTENDS RateLimiter, TLAPS

(* Multiplication by the rate, once and for all.                              *)
LEMMA RateTimes ==
    ASSUME NEW x \in Int, NEW y \in Int
    PROVE  /\ Rate * x \in Int
           /\ x * Rate = Rate * x
           /\ Rate * (x + y) = Rate * x + Rate * y
           /\ Rate * (x - y) = Rate * x - Rate * y
           /\ x <= y => Rate * x <= Rate * y
<1>1. Rate \in Int /\ Rate > 0  BY RateAssumption
<1>2. /\ Rate * x \in Int
      /\ x * Rate = Rate * x
      /\ Rate * (x + y) = Rate * x + Rate * y
      /\ Rate * (x - y) = Rate * x - Rate * y
  BY <1>1
<1>3. x <= y => Rate * x <= Rate * y
  <2>1. SUFFICES ASSUME x <= y PROVE Rate * x <= Rate * y
    OBVIOUS
  <2>2. Rate * (y - x) >= 0  BY <1>1, <2>1
  <2>3. Rate * (y - x) = Rate * y - Rate * x  BY <1>1
  <2> QED  BY <1>1, <2>2, <2>3
<1> QED  BY <1>2, <1>3

(* A rounded up quotient is enough.                                           *)
LEMMA CeilingCovers ==
    ASSUME NEW x \in Int
    PROVE  Ceiling(x, Rate) \in Int /\ x <= Rate * Ceiling(x, Rate)
<1>1. Rate \in Int /\ Rate > 0  BY RateAssumption
<1> DEFINE q == (x + Rate - 1) \div Rate
<1>2. q \in Int /\ x + Rate - 1 < Rate * q + Rate  BY <1>1
<1>3. Rate * q \in Int  BY <1>1, <1>2
<1>4. x <= Rate * q  BY <1>1, <1>2, <1>3
<1> QED  BY <1>2, <1>4 DEF Ceiling

(* ... and nothing less is.                                                   *)
LEMMA CeilingIsLeast ==
    ASSUME NEW x \in Int, NEW k \in Int
    PROVE  x <= Rate * k <=> Ceiling(x, Rate) <= k
<1> DEFINE q == Ceiling(x, Rate)
<1>1. Rate \in Int /\ Rate > 0  BY RateAssumption
<1>2. q \in Int /\ x <= Rate * q  BY CeilingCovers
<1>3. Rate * q <= x + Rate - 1  BY <1>1 DEF Ceiling
<1> SUFFICES x <= Rate * k <=> q <= k
  OBVIOUS
<1> HIDE DEF q
<1>4. Rate * q \in Int /\ Rate * k \in Int /\ q - 1 \in Int
  BY <1>1, <1>2
<1>5. q <= k => Rate * q <= Rate * k  BY <1>2, RateTimes
<1>6. k <= q - 1 => Rate * k <= Rate * (q - 1)  BY <1>4, RateTimes, Zenon
<1>7. Rate * (q - 1) = Rate * q - Rate  BY <1>1, <1>2
<1>8. CASE q <= k  BY <1>2, <1>4, <1>5, <1>8
<1>9. CASE ~(q <= k)
  <2>1. Rate * k <= Rate * q - Rate  BY <1>2, <1>6, <1>7, <1>9
  <2> QED  BY <1>1, <1>3, <1>4, <1>9, <2>1
<1> QED  BY <1>8, <1>9

Bucket == [level : Int, ts : Int]

Later(x, y) == IF x <= y THEN y ELSE x

(* What a script does to a bucket: the instant at which it is full is at least *)
(* the present, and a request is admitted if it moves it on to no more than    *)
(* what fills an empty bucket.  The delay is what is missing, rounded up.      *)
Charged(v, n, t, d) ==
    /\ d.ok \in BOOLEAN
    /\ d.value \in Bucket
    /\ d.retry \in Int
    /\ Full(d.value) = Later(Full(v), Rate * t) + (IF d.ok THEN n ELSE 0)
    /\ d.ok <=> Later(Full(v), Rate * t) + n <= Capacity + Rate * t
    /\ ~d.ok => d.retry = Ceiling(Later(Full(v), Rate * t) + n - Capacity - Rate * t, Rate)

(* The token bucket charges what it admits and nothing else.                  *)
LEMMA TokenCharges ==
    ASSUME NEW v \in Bucket, NEW n \in Nat, NEW t \in Int, algorithm = "token"
    PROVE  Charged(v, n, t, Token(v, n, t))
<1>1. Capacity \in Int  BY RateAssumption
<1> DEFINE gain == (t - v.ts) * Rate
           refilled == Smaller(Capacity, v.level + gain)
           d == Token(v, n, t)
<1>2. v.level \in Int /\ v.ts \in Int  BY DEF Bucket
<1>3. gain \in Int /\ gain = Rate * t - Rate * v.ts /\ Rate * t \in Int /\ Rate * v.ts \in Int
  <2>1. t - v.ts \in Int  BY <1>2
  <2>2. gain = Rate * (t - v.ts)  BY <2>1, RateTimes
  <2> QED  BY <1>2, <2>2, RateTimes
<1>4. refilled \in Int /\ Capacity - refilled + Rate * t = Later(Full(v), Rate * t)
  <2>1. Full(v) = Capacity - v.level + Rate * v.ts  BY DEF Full, Tokens
  <2> QED  BY <1>1, <1>2, <1>3, <2>1 DEF Smaller, Later
<1>5. CASE refilled >= n
  <2>1. d = [ok |-> TRUE, value |-> [level |-> refilled - n, ts |-> t], retry |-> 0]
    BY <1>5 DEF Token
  <2>2. Full(d.value) = Capacity - (refilled - n) + Rate * t  BY <2>1 DEF Full, Tokens
  <2>3. d.value \in Bucket /\ d.ok \in BOOLEAN /\ d.retry \in Int /\ d.ok
    BY <1>4, <2>1 DEF Bucket
  <2> QED  BY <1>1, <1>3, <1>4, <1>5, <2>2, <2>3 DEF Charged
<1>6. CASE ~(refilled >= n)
  <2>1. d = [ok |-> FALSE, value |-> [level |-> refilled, ts |-> t],
             retry |-> Ceiling(n - refilled, Rate)]
    BY <1>6 DEF Token
  <2>2. Full(d.value) = Capacity - refilled + Rate * t  BY <2>1 DEF Full, Tokens
  <2>3. Ceiling(n - refilled, Rate) \in Int  BY <1>4, CeilingCovers
  <2>4. d.value \in Bucket /\ d.ok \in BOOLEAN /\ d.retry \in Int /\ ~d.ok
    BY <1>4, <2>1, <2>3 DEF Bucket
  <2>5. Later(Full(v), Rate * t) + n - Capacity - Rate * t = n - refilled
    BY <1>1, <1>3, <1>4
  <2>6. d.retry = Ceiling(Later(Full(v), Rate * t) + n - Capacity - Rate * t, Rate)
    BY <2>1, <2>5
  <2> QED  BY <1>1, <1>3, <1>4, <1>6, <2>2, <2>4, <2>6 DEF Charged
<1> QED  BY <1>5, <1>6

(* The leaky bucket does so too.                                              *)
LEMMA LeakyCharges ==
    ASSUME NEW v \in Bucket, NEW n \in Nat, NEW t \in Int, algorithm = "leaky"
    PROVE  Charged(v, n, t, Leaky(v, n, t))
<1>1. Capacity \in Int  BY RateAssumption
<1> DEFINE leaked == v.level - (t - v.ts) * Rate
           drained == IF leaked < 0 THEN 0 ELSE leaked
           d == Leaky(v, n, t)
<1>2. v.level \in Int /\ v.ts \in Int  BY DEF Bucket
<1>3. /\ (t - v.ts) * Rate \in Int /\ (t - v.ts) * Rate = Rate * t - Rate * v.ts
      /\ Rate * t \in Int /\ Rate * v.ts \in Int
  <2>1. t - v.ts \in Int  BY <1>2
  <2>2. (t - v.ts) * Rate = Rate * (t - v.ts)  BY <2>1, RateTimes
  <2> QED  BY <1>2, <2>2, RateTimes
<1>4. drained \in Int /\ drained + Rate * t = Later(Full(v), Rate * t)
  <2>1. Full(v) = Capacity - (Capacity - v.level) + Rate * v.ts  BY DEF Full, Tokens
  <2> QED  BY <1>1, <1>2, <1>3, <2>1 DEF Later
<1>5. CASE drained + n <= Capacity
  <2>1. d = [ok |-> TRUE, value |-> [level |-> drained + n, ts |-> t], retry |-> 0]
    BY <1>5 DEF Leaky
  <2>2. Full(d.value) = Capacity - (Capacity - (drained + n)) + Rate * t
    BY <2>1 DEF Full, Tokens
  <2>3. d.value \in Bucket /\ d.ok \in BOOLEAN /\ d.retry \in Int /\ d.ok
    BY <1>4, <2>1 DEF Bucket
  <2> QED  BY <1>1, <1>3, <1>4, <1>5, <2>2, <2>3 DEF Charged
<1>6. CASE ~(drained + n <= Capacity)
  <2>1. d = [ok |-> FALSE, value |-> [level |-> drained, ts |-> t],
             retry |-> Ceiling(drained + n - Capacity, Rate)]
    BY <1>6 DEF Leaky
  <2>2. Full(d.value) = Capacity - (Capacity - drained) + Rate * t
    BY <2>1 DEF Full, Tokens
  <2>3. Ceiling(drained + n - Capacity, Rate) \in Int  BY <1>1, <1>4, CeilingCovers
  <2>4. d.value \in Bucket /\ d.ok \in BOOLEAN /\ d.retry \in Int /\ ~d.ok
    BY <1>4, <2>1, <2>3 DEF Bucket
  <2>5. Later(Full(v), Rate * t) + n - Capacity - Rate * t = drained + n - Capacity
    BY <1>1, <1>3, <1>4
  <2>6. d.retry = Ceiling(Later(Full(v), Rate * t) + n - Capacity - Rate * t, Rate)
    BY <2>1, <2>5
  <2> QED  BY <1>1, <1>3, <1>4, <1>6, <2>2, <2>4, <2>6 DEF Charged
<1> QED  BY <1>5, <1>6

(* The value a script of a bucket works on.                                   *)
LEMMA BucketValue ==
    ASSUME BucketInv, ~Windowed, NEW t \in Int
    PROVE  /\ algorithm \in {"token", "leaky"}
           /\ KeyOf(t) = 0
           /\ Value(t) \in Bucket
           /\ Full(Value(t)) = IF Exists THEN Full(store[0].value) ELSE Rate * t
<1>1. algorithm \in {"token", "leaky"}
  BY RateAssumption, Zenon DEF BucketInv, TypeOK, Windowed
<1>2. KeyOf(t) = 0  BY <1>1 DEF KeyOf
<1>3. CASE Exists
  <2>1. store[0].value \in Bucket  BY <1>3 DEF BucketInv, StoreOK, Exists, Bucket
  <2>2. Value(t) = store[0].value  BY <1>2, <1>3 DEF Value, Exists
  <2> QED  BY <1>1, <1>2, <1>3, <2>1, <2>2
<1>4. CASE ~Exists
  <2>1. Value(t) = Missing(t)  BY <1>2, <1>4 DEF Value, Exists
  <2>2. Capacity \in Int /\ Rate * t \in Int  BY RateAssumption, RateTimes
  <2>3. CASE algorithm = "token"
    <3>1. Missing(t) = [level |-> Capacity, ts |-> t]  BY <2>3 DEF Missing
    <3>2. Full(Missing(t)) = Capacity - Capacity + Rate * t
      BY <2>3, <3>1 DEF Full, Tokens
    <3> QED  BY <1>1, <1>2, <1>4, <2>1, <2>2, <3>1, <3>2 DEF Bucket
  <2>4. CASE algorithm = "leaky"
    <3>1. Missing(t) = [level |-> 0, ts |-> t]  BY <2>4 DEF Missing
    <3>2. Full(Missing(t)) = Capacity - (Capacity - 0) + Rate * t
      BY <2>4, <3>1 DEF Full, Tokens
    <3> QED  BY <1>1, <1>2, <1>4, <2>1, <2>2, <3>1, <3>2 DEF Bucket
  <2> QED  BY <1>1, <2>3, <2>4
<1> QED  BY <1>3, <1>4

(* So does the script, whichever of the two is run.                           *)
LEMMA ScriptCharges ==
    ASSUME NEW v \in Bucket, NEW n \in Nat, NEW t \in Int, NEW placed,
           algorithm \in {"token", "leaky"}
    PROVE  Charged(v, n, t, Script(v, n, t, placed))
<1>1. CASE algorithm = "token"
  BY <1>1, TokenCharges DEF Script
<1>2. CASE algorithm = "leaky"
  BY <1>2, LeakyCharges DEF Script
<1> QED  BY <1>1, <1>2

(* The same of a request that is executed for the first time.                 *)
LEMMA FirstScriptCharges ==
    ASSUME NEW v \in Bucket, NEW n \in Nat, NEW t \in Int, algorithm \in {"token", "leaky"}
    PROVE  Charged(v, n, t, Script(v, n, t, FALSE))
<1>1. CASE algorithm = "token"
  BY <1>1, TokenCharges DEF Script
<1>2. CASE algorithm = "leaky"
  BY <1>2, LeakyCharges DEF Script
<1> QED  BY <1>1, <1>2, Zenon

CallType == [n : Nat, sent : 0 .. MaxTime, placed : BOOLEAN, ok : BOOLEAN, retry : Int]

(* A request is well formed when it is sent.                                  *)
LEMMA FreshCall ==
    ASSUME NEW n \in Nat, NEW t \in 0 .. MaxTime
    PROVE  Request(n, t) \in CallType /\ Request(n, t).sent = t
BY DEF Request, CallType

\* The windowed algorithms are asked for whole requests.
Whole == Windowed => \A c \in Clients : \E q \in Nat : call[c].n = Unit * q

CallOK == TypeOK /\ Prompt /\ Whole

\* What callers do between two scripts.
CallStep ==
    \/ \E c \in Clients :
          \/ \E n \in Amounts : Allow(c, n)
          \/ AllowAgain(c) \/ Resend(c) \/ ReturnFromCall(c) \/ Sleep(c)
    \/ UNCHANGED vars

(* It is no concern of the limiter.                                           *)
LEMMA CallStepKeeps ==
    ASSUME CallOK, CallStep
    PROVE  CallOK' /\ UNCHANGED <<now, algorithm, lead, store, spent>>
<1>1. UNCHANGED <<now, algorithm, lead, store, spent>> /\ Windowed' = Windowed
  BY DEF CallStep, Allow, AllowAgain, Resend, ReturnFromCall, Return, Sleep, vars, Windowed
<1>2. /\ TypeOK /\ now \in 0 .. MaxTime /\ MaxDelay \in Nat /\ MaxTime \in Nat
      /\ Prompt /\ Whole /\ Amounts \subseteq Nat /\ Unit \in Nat \ {0}
  BY RateAssumption DEF CallOK, TypeOK
<1>3. ASSUME NEW c \in Clients, NEW n \in Amounts, Allow(c, n) PROVE CallOK'
  <2>1. Count(n) \in Nat /\ (Windowed => \E q \in Nat : Count(n) = Unit * q)
    <3>1. Ceiling(n, Unit) \in Nat  BY <1>2 DEF Ceiling
    <3>2. Unit * Ceiling(n, Unit) \in Nat  BY <1>2, <3>1
    <3> QED  BY <1>2, <3>1, <3>2 DEF Count
  <2>2. TypeOK'
    <3>1. Request(Count(n), now) \in CallType  BY <1>2, <2>1, FreshCall
    <3> QED  BY <1>2, <1>3, <3>1 DEF TypeOK, Allow, CallType
  <2>3. Prompt'
    BY <1>2, <1>3 DEF Prompt, TypeOK, Allow, Request
  <2>4. Whole'
    BY <1>1, <1>2, <1>3, <2>1, Zenon DEF Whole, TypeOK, Allow, Request
  <2> QED  BY <2>2, <2>3, <2>4 DEF CallOK
<1>4. ASSUME NEW c \in Clients, AllowAgain(c) PROVE CallOK'
  <2>1. call[c].n \in Nat  BY <1>2 DEF TypeOK
  <2>2. TypeOK'
    <3>1. Request(call[c].n, now) \in CallType  BY <1>2, <2>1, FreshCall
    <3> QED  BY <1>2, <1>4, <3>1 DEF TypeOK, AllowAgain, CallType
  <2>3. Prompt'
    BY <1>2, <1>4 DEF Prompt, TypeOK, AllowAgain, Request
  <2>4. Whole'
    BY <1>1, <1>2, <1>4, Zenon DEF Whole, TypeOK, AllowAgain, Request
  <2> QED  BY <2>2, <2>3, <2>4 DEF CallOK
<1>5. ASSUME NEW c \in Clients, Resend(c) PROVE CallOK'
  <2>1. TypeOK'  BY <1>2, <1>5 DEF TypeOK, Resend
  <2>2. now - MaxDelay <= call[c].sent /\ call[c].sent <= now
    BY <1>2, <1>5 DEF TypeOK, Resend, Prompt
  <2>3. Prompt'
    BY <1>2, <1>5, <2>2 DEF Prompt, TypeOK, Resend
  <2>4. Whole'  BY <1>1, <1>2, <1>5, Zenon DEF Whole, Resend
  <2> QED  BY <2>1, <2>3, <2>4 DEF CallOK
<1>6. ASSUME NEW c \in Clients, ReturnFromCall(c) PROVE CallOK'
  <2>1. TypeOK'  BY <1>2, <1>6 DEF TypeOK, ReturnFromCall, Return, NoCall, Request
  <2>2. Prompt'
    BY <1>2, <1>6 DEF Prompt, TypeOK, ReturnFromCall, Return, NoCall, Request
  <2>3. Whole'
    <3>1. 0 = Unit * 0  BY <1>2
    <3> QED  BY <1>1, <1>2, <1>6, <3>1, Zenon DEF Whole, TypeOK, ReturnFromCall, Return, NoCall, Request
  <2> QED  BY <2>1, <2>2, <2>3 DEF CallOK
<1>7. ASSUME NEW c \in Clients, Sleep(c) PROVE CallOK'
  <2>1. call[c].n \in Nat /\ now + call[c].retry \in Int  BY <1>2 DEF TypeOK
  <2>2. TypeOK'
    <3>1. Request(call[c].n, 0) \in CallType  BY <1>2, <2>1, FreshCall
    <3> QED  BY <1>2, <1>7, <2>1, <3>1 DEF TypeOK, Sleep, CallType
  <2>3. Prompt'
    BY <1>2, <1>7 DEF Prompt, TypeOK, Sleep, Request
  <2>4. Whole'
    BY <1>1, <1>2, <1>7, Zenon DEF Whole, TypeOK, Sleep, Request
  <2> QED  BY <2>2, <2>3, <2>4 DEF CallOK
<1>8. ASSUME UNCHANGED vars PROVE CallOK'
  <2>1. TypeOK'  BY <1>2, <1>8 DEF TypeOK, vars
  <2>2. Prompt'  BY <1>2, <1>8 DEF Prompt, vars
  <2>3. Whole'  BY <1>1, <1>2, <1>8 DEF Whole, vars
  <2> QED  BY <2>1, <2>2, <2>3 DEF CallOK
<1>9. CallOK'
  BY <1>3, <1>4, <1>5, <1>6, <1>7, <1>8 DEF CallStep
<1> QED  BY <1>1, <1>9

(* Every step is one of the callers' or changes the limiter.                  *)
LEMMA StepKinds ==
    ASSUME [Next]_vars
    PROVE  CallStep \/ (\E c \in Clients : Serve(c) \/ Reset(c)) \/ Tick
BY DEF Next, CallStep

(* No step changes the algorithm.                                             *)
LEMMA SameAlgorithm ==
    ASSUME [Next]_vars
    PROVE  algorithm' = algorithm
BY Zenon DEF Next, vars, Allow, AllowAgain, Serve, Resend, ReturnFromCall, Return, Sleep, Reset, Tick

(* A step that leaves the keys, the clock and the history alone.              *)
LEMMA QuietStep ==
    ASSUME BucketInv, ~Windowed, TypeOK', Prompt',
           UNCHANGED <<now, algorithm, store, spent>>
    PROVE  BucketInv'
<1>1. Exists' = Exists /\ StoreOK' = StoreOK /\ Lifetime' = Lifetime /\ FullAt' = FullAt
  BY DEF Exists, StoreOK, Lifetime, Windowed, FullAt, Full, Tokens
<1>2. Full(store[0].value)' = Full(store[0].value)  BY DEF Full, Tokens
<1> QED  BY <1>1, <1>2 DEF BucketInv

(* A key lives for the time in which an empty bucket fills up, and Slack.     *)
LEMMA LifetimeFits ==
    ASSUME ~Windowed
    PROVE  Lifetime \in Int /\ Capacity <= Rate * (Lifetime - Slack)
<1>1. Capacity \in Int /\ Slack \in Int  BY RateAssumption
<1>2. Ceiling(Capacity, Rate) \in Int /\ Capacity <= Rate * Ceiling(Capacity, Rate)
  BY <1>1, CeilingCovers
<1>3. Lifetime - Slack = Ceiling(Capacity, Rate) /\ Lifetime \in Int
  BY <1>1, <1>2 DEF Lifetime
<1> QED  BY <1>2, <1>3

(* Executing a request.                                                       *)
LEMMA ServeKeeps ==
    ASSUME BucketInv, ~Windowed, NEW c \in Clients, Serve(c)
    PROVE  BucketInv'
<1> DEFINE r == call[c]
           t == Stamp(c)
           v == Value(t)
           d == Script(v, r.n, t, r.placed)
           full == Full(d.value)
           base == Later(Full(v), Rate * t)
           ends == now + Lifetime
<1>1. /\ TypeOK /\ StoreOK /\ Prompt /\ now - MaxDelay <= r.sent /\ r.sent <= now
      /\ Capacity \in Int /\ MaxLead \in Nat /\ MaxDelay \in Nat /\ MaxTime \in Nat /\ Slack \in Nat
      /\ Times \subseteq Int
  BY RateAssumption DEF BucketInv, Serve, Times, Prompt
<1>2. /\ r.n \in Nat /\ r.sent \in 0 .. MaxTime /\ lead[c] \in 0 .. MaxLead /\ now \in 0 .. MaxTime
      /\ r \in [n : Nat, sent : 0 .. MaxTime, placed : BOOLEAN, ok : BOOLEAN, retry : Int]
  BY <1>1 DEF TypeOK
<1>3. t \in Times /\ t \in now - MaxDelay .. now + MaxLead /\ t \in Int
  BY <1>1, <1>2 DEF Stamp, Times
<1>4. algorithm \in {"token", "leaky"} /\ KeyOf(t) = 0 /\ v \in Bucket
      /\ Full(v) = IF Exists THEN Full(store[0].value) ELSE Rate * t
  BY <1>3, BucketValue, Zenon
<1>5. /\ d.ok \in BOOLEAN /\ d.value \in Bucket /\ d.retry \in Int
      /\ full = base + (IF d.ok THEN r.n ELSE 0)
      /\ d.ok => full <= Capacity + Rate * t
  BY <1>2, <1>3, <1>4, ScriptCharges DEF Charged
<1>6. /\ store' = Put(store, 0, [value |-> d.value, ends |-> ends])
      /\ call' = [call EXCEPT ![c] = [r EXCEPT !.ok = d.ok, !.retry = d.retry,
                                               !.placed = r.placed \/ d.ok]]
      /\ spent' = IF d.ok THEN Spend(r.n, t) ELSE spent
      /\ pc' = [pc EXCEPT ![c] = "served"]
      /\ UNCHANGED <<now, algorithm, lead, wake>>
  BY <1>4, <1>5, Zenon DEF Serve
<1>7. Lifetime \in Int /\ Capacity <= Rate * (Lifetime - Slack) /\ ends \in Int
  BY <1>2, LifetimeFits
<1>8. /\ store' \in [{0} -> [value : [level : Int, ts : Int], ends : Int]]
      /\ store'[0].value = d.value /\ store'[0].ends = ends /\ 0 \in DOMAIN store'
  <2>1. DOMAIN store \subseteq {0}  BY <1>1 DEF StoreOK
  <2>2. store' = [k \in {0} |-> [value |-> d.value, ends |-> ends]]
    BY <1>6, <2>1, Zenon DEF Put
  <2> QED  BY <1>5, <1>7, <2>2 DEF Bucket
<1>9. full \in Int /\ base \in Int /\ Full(v) \in Int /\ Rate * t \in Int
  <2>1. Rate * t \in Int /\ v.ts \in Int /\ v.level \in Int  BY <1>3, <1>4, RateTimes DEF Bucket
  <2>2. Rate * v.ts \in Int  BY <2>1, RateTimes, Zenon
  <2>3. Full(v) \in Int  BY <1>1, <2>1, <2>2 DEF Full, Tokens
  <2> QED  BY <1>2, <1>5, <2>1, <2>3 DEF Later
<1>10. Exists' /\ FullAt' = full /\ Full(store[0].value)' = full
  BY <1>6, <1>8 DEF Exists, FullAt, Full, Tokens
<1>11. spent' \in [Times -> [Times -> Nat]]
       /\ \A a, b \in Times :
             spent'[a][b] = spent[a][b] + (IF d.ok /\ a <= t /\ t <= b THEN r.n ELSE 0)
  <2>1. spent \in [Times -> [Times -> Nat]]  BY <1>1 DEF TypeOK
  <2>2. CASE d.ok  BY <1>2, <1>6, <2>1, <2>2 DEF Spend
  <2>3. CASE ~d.ok  BY <1>2, <1>6, <2>1, <2>3
  <2> QED  BY <2>2, <2>3
<1>12. call' \in [Clients -> CallType]
  <2>1. r.placed \/ d.ok \in BOOLEAN  BY <1>2, <1>5
  <2>2. [r EXCEPT !.ok = d.ok, !.retry = d.retry, !.placed = r.placed \/ d.ok]
          \in [n : Nat, sent : 0 .. MaxTime, placed : BOOLEAN, ok : BOOLEAN, retry : Int]
    BY <1>2, <1>5, <2>1, Zenon
  <2> QED  BY <1>1, <1>6, <2>2, Zenon DEF TypeOK, CallType
<1>13. TypeOK'
  BY <1>1, <1>6, <1>11, <1>12 DEF TypeOK, CallType
<1>14. Prompt'
  BY <1>1, <1>6, Zenon DEF Prompt, BucketInv, TypeOK
<1>15. full <= Rate * (ends - Slack + MaxLead)
  <2>1. Rate * (ends - Slack + MaxLead) = Rate * (now + MaxLead) + Rate * (Lifetime - Slack)
        /\ Rate * (now + MaxLead) \in Int /\ Rate * (Lifetime - Slack) \in Int
    <3>1. now + MaxLead \in Int /\ Lifetime - Slack \in Int  BY <1>1, <1>2, <1>7
    <3>2. ends - Slack + MaxLead = (now + MaxLead) + (Lifetime - Slack)  BY <1>1, <1>2, <1>7
    <3> QED  BY <3>1, <3>2, RateTimes
  <2>2. Rate * t <= Rate * (now + MaxLead)
    <3>1. now + MaxLead \in Int /\ t <= now + MaxLead  BY <1>1, <1>2, <1>3
    <3> QED  BY <1>3, <3>1, RateTimes
  <2>3. CASE d.ok
    BY <1>1, <1>5, <1>7, <1>9, <2>1, <2>2, <2>3
  <2>4. CASE ~d.ok
    <3>1. Capacity > 0  BY RateAssumption
    <3>2. Full(v) <= Rate * (ends - Slack + MaxLead)
      <4>1. CASE Exists
        <5>1. store[0].ends \in Int /\ store[0].ends <= ends
              /\ Full(v) <= Rate * (store[0].ends - Slack + MaxLead)
          BY <1>4, <1>7, <4>1 DEF BucketInv, StoreOK, Exists
        <5>2. /\ store[0].ends - Slack + MaxLead \in Int
              /\ ends - Slack + MaxLead \in Int
              /\ store[0].ends - Slack + MaxLead <= ends - Slack + MaxLead
          BY <1>1, <1>7, <5>1
        <5>3. /\ Rate * (store[0].ends - Slack + MaxLead) <= Rate * (ends - Slack + MaxLead)
              /\ Rate * (store[0].ends - Slack + MaxLead) \in Int
              /\ Rate * (ends - Slack + MaxLead) \in Int
          BY <5>2, RateTimes, Zenon
        <5> QED  BY <1>9, <5>1, <5>3
      <4>2. CASE ~Exists  BY <1>1, <1>4, <1>7, <1>9, <2>1, <2>2, <3>1, <4>2
      <4> QED  BY <4>1, <4>2
    <3> QED  BY <1>1, <1>5, <1>7, <1>9, <2>1, <2>2, <2>4, <3>1, <3>2 DEF Later
  <2> QED  BY <1>5, <2>3, <2>4
<1>16. ASSUME NEW a \in Times, NEW b \in Times, a <= b
       PROVE  /\ spent'[a][b] = 0 \/ spent'[a][b] + Rate * a <= full
              /\ spent'[a][b] <= Capacity + Rate * (b - a)
  <2>1. /\ spent[a][b] \in Nat /\ a \in Int /\ b \in Int
        /\ spent[a][b] = 0 \/ spent[a][b] + Rate * a <= FullAt
        /\ spent[a][b] <= Capacity + Rate * (b - a)
    BY <1>1, <1>16 DEF BucketInv, TypeOK
  <2>2. FullAt <= base
    <3>1. CASE Exists  BY <1>4, <1>9, <3>1 DEF FullAt, Later
    <3>2. CASE ~Exists
      <4>1. now - MaxDelay \in Int /\ now - MaxDelay <= t  BY <1>1, <1>2, <1>3
      <4>2. Rate * (now - MaxDelay) <= Rate * t /\ Rate * (now - MaxDelay) \in Int
        BY <1>3, <4>1, RateTimes
      <4> QED  BY <1>9, <3>2, <4>2 DEF FullAt, Later
    <3> QED  BY <3>1, <3>2
  <2>3. FullAt \in Int
    <3>1. CASE Exists  BY <1>4, <1>9, <3>1 DEF FullAt
    <3>2. CASE ~Exists
      <4>1. now - MaxDelay \in Int  BY <1>1, <1>2
      <4> QED  BY <3>2, <4>1, RateTimes DEF FullAt
    <3> QED  BY <3>1, <3>2
  <2>4. /\ Rate * a \in Int /\ Rate * b \in Int /\ Rate * (b - a) = Rate * b - Rate * a
        /\ a <= t => Rate * a <= Rate * t
        /\ t <= b => Rate * t <= Rate * b
        /\ Rate * a <= Rate * b
    BY <1>3, <1>16, <2>1, RateTimes, Zenon
  <2>5. CASE d.ok /\ a <= t /\ t <= b
    <3>1. spent'[a][b] = spent[a][b] + r.n  BY <1>11, <2>5, Zenon
    <3>2. full = base + r.n /\ full <= Capacity + Rate * t  BY <1>5, <2>5
    <3>3. Rate * t <= base  BY <1>9 DEF Later
    <3> QED  BY <1>1, <1>2, <1>9, <2>1, <2>2, <2>3, <2>4, <2>5, <3>1, <3>2, <3>3
  <2>6. CASE ~(d.ok /\ a <= t /\ t <= b)
    <3>1. spent'[a][b] = spent[a][b]  BY <1>11, <2>1, <2>6
    <3>2. base <= full  BY <1>2, <1>5, <1>9
    <3> QED  BY <1>9, <2>1, <2>2, <2>3, <2>4, <3>1, <3>2
  <2> QED  BY <2>5, <2>6
<1>17. StoreOK'  BY <1>8 DEF StoreOK
<1>18. store'[0].ends \in now' + 1 .. now' + Lifetime'
  <2>1. Lifetime >= 1
    BY RateAssumption, <1>1, <1>7, CeilingCovers DEF Lifetime
  <2>2. Lifetime' = Lifetime  BY <1>6 DEF Lifetime, Windowed
  <2> QED  BY <1>2, <1>6, <1>7, <1>8, <2>1, <2>2
<1>19. Full(store[0].value)' <= Rate * (store'[0].ends - Slack + MaxLead)
  BY <1>8, <1>10, <1>15
<1> HIDE DEF r, t, v, d, full, base, ends
<1> QED
  BY <1>10, <1>13, <1>14, <1>16, <1>17, <1>18, <1>19 DEF BucketInv

(* The passing of time: a bucket that expires has been full for MaxDelay.     *)
LEMMA TickKeeps ==
    ASSUME BucketInv, ~Windowed, Tick
    PROVE  BucketInv'
<1>1. /\ TypeOK /\ StoreOK
      /\ MaxLead \in Nat /\ MaxDelay \in Nat /\ Slack \in Nat /\ MaxDelay + MaxLead <= Slack
      /\ Capacity \in Int /\ MaxTime \in Nat /\ Times \subseteq Int
  BY RateAssumption DEF BucketInv, Times
<1>2. /\ now \in 0 .. MaxTime /\ now < MaxTime /\ now' = now + 1
      /\ store' = Restrict(store, {k \in DOMAIN store : store[k].ends > now + 1})
      /\ UNCHANGED <<algorithm, lead, pc, call, wake, spent>>
  BY <1>1 DEF Tick, TypeOK
<1>3. TypeOK'  BY <1>1, <1>2 DEF TypeOK
<1>4. Prompt'
  BY <1>1, <1>2 DEF Prompt, BucketInv, TypeOK, Tick
<1>5. Lifetime' = Lifetime /\ Lifetime \in Int  BY <1>2, LifetimeFits DEF Lifetime, Windowed
<1> DEFINE early == Rate * (now - MaxDelay)
           late == Rate * (now + 1 - MaxDelay)
<1>6. early \in Int /\ late \in Int /\ early <= late
  <2>1. /\ now - MaxDelay \in Int /\ now + 1 - MaxDelay \in Int
        /\ now - MaxDelay <= now + 1 - MaxDelay
    BY <1>1, <1>2
  <2> QED  BY <2>1, RateTimes, Zenon
<1>7. SUFFICES /\ StoreOK'
               /\ FullAt \in Int /\ FullAt' \in Int /\ FullAt <= FullAt'
               /\ Exists' => /\ Full(store[0].value)' <= Rate * (store'[0].ends - Slack + MaxLead)
                             /\ store'[0].ends \in now' + 1 .. now' + Lifetime'
  <2>1. ASSUME NEW a \in Times, NEW b \in Times, a <= b
        PROVE  /\ spent'[a][b] = 0 \/ spent'[a][b] + Rate * a <= FullAt'
               /\ spent'[a][b] <= Capacity + Rate * (b - a)
    <3>1. spent[a][b] \in Nat /\ Rate * a \in Int  BY <1>1, RateTimes DEF TypeOK
    <3>2. /\ spent[a][b] = 0 \/ spent[a][b] + Rate * a <= FullAt
          /\ spent[a][b] <= Capacity + Rate * (b - a)
      BY <2>1 DEF BucketInv
    <3> QED  BY <1>2, <1>7, <3>1, <3>2
  <2> QED  BY <1>3, <1>4, <1>7, <2>1, Zenon DEF BucketInv
<1>8. CASE ~Exists
  <2>1. DOMAIN store = {}  BY <1>1, <1>8 DEF StoreOK, Exists
  <2>2. DOMAIN store' = {}
    <3>1. {k \in DOMAIN store : store[k].ends > now + 1} = {}  BY <2>1
    <3> QED  BY <1>2, <3>1 DEF Restrict
  <2>3. ~Exists'  BY <2>2 DEF Exists
  <2>4. FullAt = early /\ FullAt' = late  BY <1>1, <1>2, <1>8, <2>3 DEF FullAt
  <2> QED  BY <1>6, <2>2, <2>3, <2>4 DEF StoreOK
<1>9. CASE Exists
  <2>1. /\ store \in [{0} -> [value : [level : Int, ts : Int], ends : Int]]
        /\ Full(store[0].value) <= Rate * (store[0].ends - Slack + MaxLead)
        /\ store[0].ends \in now + 1 .. now + Lifetime
        /\ FullAt = Full(store[0].value)
    BY <1>1, <1>9 DEF BucketInv, StoreOK, Exists, FullAt
  <2>2. Full(store[0].value) \in Int
    <3>1. store[0].value.level \in Int /\ store[0].value.ts \in Int  BY <2>1
    <3>2. Rate * store[0].value.ts \in Int  BY <3>1, RateTimes, Zenon
    <3> QED  BY <1>1, <3>1, <3>2 DEF Full, Tokens
  <2>3. CASE store[0].ends > now + 1
    <3>1. store' = store
      <4>1. {k \in DOMAIN store : store[k].ends > now + 1} = DOMAIN store  BY <2>1, <2>3
      <4> QED  BY <1>2, <2>1, <4>1 DEF Restrict
    <3>2. Exists' /\ FullAt' = FullAt /\ Full(store[0].value)' = Full(store[0].value) /\ StoreOK'
      BY <1>1, <1>2, <1>9, <3>1 DEF Exists, FullAt, Full, Tokens, StoreOK
    <3> QED  BY <1>2, <1>5, <2>1, <2>2, <2>3, <3>1, <3>2
  <2>4. CASE ~(store[0].ends > now + 1)
    <3>1. DOMAIN store' = {}
      <4>1. {k \in DOMAIN store : store[k].ends > now + 1} = {}  BY <2>1, <2>4
      <4> QED  BY <1>2, <4>1 DEF Restrict
    <3>2. ~Exists' /\ StoreOK'  BY <3>1 DEF Exists, StoreOK
    <3>3. /\ store[0].ends - Slack + MaxLead \in Int /\ now + 1 - MaxDelay \in Int
          /\ store[0].ends - Slack + MaxLead <= now + 1 - MaxDelay
      BY <1>1, <1>2, <2>1, <2>4
    <3>4. /\ Rate * (store[0].ends - Slack + MaxLead) <= late
          /\ Rate * (store[0].ends - Slack + MaxLead) \in Int
      BY <3>3, RateTimes, Zenon
    <3>5. FullAt' = late  BY <1>1, <1>2, <3>2 DEF FullAt
    <3> QED  BY <1>6, <2>1, <2>2, <3>2, <3>4, <3>5
  <2> QED  BY <2>3, <2>4
<1> QED  BY <1>8, <1>9

(* The invariant of the buckets holds when nothing was stored yet.            *)
LEMMA BucketInit ==
    Init => BucketInv
<1> SUFFICES ASSUME Init, ~Windowed PROVE BucketInv
  BY DEF BucketInv
<1>1. /\ Times \subseteq Int /\ Capacity \in Nat /\ MaxTime \in Nat /\ MaxLead \in Nat
  BY RateAssumption DEF Times
<1>2. TypeOK  BY <1>1 DEF Init, TypeOK, NoCall, Request
<1>3. DOMAIN store = {}  BY DEF Init
<1>4. StoreOK /\ ~Exists  BY <1>3 DEF StoreOK, Exists
<1>5. Prompt  BY DEF Init, Prompt, NoCall, Request
<1>6. ASSUME NEW a \in Times, NEW b \in Times, a <= b
      PROVE  spent[a][b] = 0 /\ 0 <= Capacity + Rate * (b - a)
  <2>1. spent[a][b] = 0  BY DEF Init
  <2>2. /\ Rate * a \in Int /\ Rate * b \in Int /\ Rate * a <= Rate * b
        /\ Rate * (b - a) = Rate * b - Rate * a
    BY <1>1, <1>6, RateTimes
  <2> QED  BY <1>1, <2>1, <2>2
<1> QED  BY <1>2, <1>4, <1>5, <1>6 DEF BucketInv

(* Reset empties the history together with the key.                           *)
LEMMA ResetKeeps ==
    ASSUME BucketInv, ~Windowed, NEW c \in Clients, Reset(c)
    PROVE  BucketInv'
<1>1. TypeOK /\ StoreOK /\ Times \subseteq Int /\ Capacity \in Nat
  BY RateAssumption DEF BucketInv, Times
<1>2. /\ UNCHANGED <<now, algorithm, lead, pc, wake>>
      /\ call' = [q \in Clients |-> [call[q] EXCEPT !.placed = FALSE]]
      /\ spent' = [a \in Times |-> [b \in Times |-> 0]]
      /\ store' = Restrict(store, DOMAIN store \ {KeyOf(now + lead[c])})
  BY DEF Reset
<1>3. KeyOf(now + lead[c]) = 0
  BY <1>1, RateAssumption DEF KeyOf, Windowed, TypeOK
<1>4. DOMAIN store' = {}
  <2>1. DOMAIN store \ {0} = {}  BY <1>1 DEF StoreOK
  <2> QED  BY <1>2, <1>3, <2>1 DEF Restrict
<1>5. StoreOK' /\ ~Exists'  BY <1>4 DEF StoreOK, Exists
<1>6. TypeOK'
  <2>1. call' \in [Clients -> [n : Nat, sent : 0 .. MaxTime, placed : BOOLEAN,
                               ok : BOOLEAN, retry : Int]]
    BY <1>1, <1>2, Zenon DEF TypeOK
  <2> QED  BY <1>1, <1>2, <2>1 DEF TypeOK
<1>7. Prompt'
  <2>1. ASSUME NEW q \in Clients PROVE call'[q].sent = call[q].sent
    BY <1>1, <1>2 DEF TypeOK
  <2> QED  BY <1>2, <2>1, Zenon DEF Prompt, BucketInv
<1>8. ASSUME NEW a \in Times, NEW b \in Times, a <= b
      PROVE  spent'[a][b] = 0 /\ 0 <= Capacity + Rate * (b - a)
  <2>1. spent'[a][b] = 0  BY <1>2
  <2>2. /\ Rate * a \in Int /\ Rate * b \in Int /\ Rate * a <= Rate * b
        /\ Rate * (b - a) = Rate * b - Rate * a
    BY <1>1, <1>8, RateTimes
  <2> QED  BY <1>1, <2>1, <2>2
<1> QED  BY <1>5, <1>6, <1>7, <1>8 DEF BucketInv

(* Every step preserves the invariant.                                        *)
LEMMA BucketStep ==
    BucketInv /\ [Next]_vars => BucketInv'
<1> SUFFICES ASSUME BucketInv, [Next]_vars PROVE BucketInv'
  OBVIOUS
<1>1. CASE Windowed
  <2>1. algorithm' = algorithm  BY SameAlgorithm
  <2> QED  BY <1>1, <2>1 DEF Windowed, BucketInv
<1> SUFFICES ASSUME ~Windowed PROVE BucketInv'
  BY <1>1
<1>2. CASE CallStep
  <2>1. CallOK  BY DEF BucketInv, CallOK, Whole
  <2>2. TypeOK' /\ Prompt' /\ UNCHANGED <<now, algorithm, store, spent>>
    BY <1>2, <2>1, CallStepKeeps DEF CallOK
  <2> QED  BY <2>2, QuietStep
<1>3. ASSUME NEW c \in Clients, Serve(c) PROVE BucketInv'
  BY <1>3, ServeKeeps
<1>4. ASSUME NEW c \in Clients, Reset(c) PROVE BucketInv'
  BY <1>4, ResetKeeps
<1>5. CASE Tick
  BY <1>5, TickKeeps
<1> QED  BY <1>2, <1>3, <1>4, <1>5, StepKinds

(* The token bucket and the leaky bucket admit, in every interval, no more     *)
(* than the capacity and what the rate adds in it: with any number of callers, *)
(* clocks apart, requests late, reordered or executed twice, and buckets that  *)
(* expire, as long as no request is later than the slack of their lifetime.    *)
THEOREM BucketsKeepBudget ==
    Spec => [](~Windowed => BudgetKept)
<1>1. BucketInv => (~Windowed => BudgetKept)
  <2>1. SUFFICES ASSUME BucketInv, ~Windowed, NEW a \in Times, NEW b \in Times, a <= b
                 PROVE  spent[a][b] <= Budget(a, b)
    BY DEF BudgetKept
  <2>2. Budget(a, b) = Capacity + Rate * (b - a)  BY <2>1 DEF Budget, Windowed
  <2> QED  BY <2>1, <2>2 DEF BucketInv
<1> QED  BY <1>1, BucketInit, BucketStep, PTL DEF Spec

(* What the next request to a bucket is told, in terms of the instant at which *)
(* the bucket is full.                                                        *)
LEMMA BucketDecision ==
    ASSUME BucketInv, ~Windowed, NEW n \in Nat
    PROVE  LET full == Later(Full(Value(now)), Rate * now)
               d == Decision(n, now)
           IN  /\ now \in Int /\ full \in Int /\ Rate * now \in Int
               /\ d.value \in Bucket
               /\ d.ok <=> full + n <= Capacity + Rate * now
               /\ ~d.ok => /\ Full(d.value) = full
                           /\ d.retry = Ceiling(full + n - Capacity - Rate * now, Rate)
<1> DEFINE v == Value(now)
<1>1. now \in Int /\ Capacity \in Int  BY RateAssumption DEF BucketInv, TypeOK
<1>2. algorithm \in {"token", "leaky"} /\ v \in Bucket  BY <1>1, BucketValue
<1>3. Rate * now \in Int /\ v.level \in Int /\ v.ts \in Int  BY <1>1, <1>2, RateTimes DEF Bucket
<1>4. Full(v) \in Int
  <2>1. Rate * v.ts \in Int  BY <1>3, RateTimes, Zenon
  <2> QED  BY <1>1, <1>3, <2>1 DEF Full, Tokens
<1>5. Later(Full(v), Rate * now) \in Int  BY <1>3, <1>4 DEF Later
<1>6. Charged(v, n, now, Script(v, n, now, FALSE))
  <2> HIDE DEF v
  <2> QED  BY <1>1, <1>2, FirstScriptCharges, Zenon
<1>7. Decision(n, now) = Script(v, n, now, FALSE)  BY DEF Decision
<1> DEFINE full == Later(Full(v), Rate * now)
           d == Decision(n, now)
<1>8. /\ d.value \in Bucket
      /\ d.ok <=> full + n <= Capacity + Rate * now
      /\ ~d.ok => /\ Full(d.value) = full
                  /\ d.retry = Ceiling(full + n - Capacity - Rate * now, Rate)
  <2>1. /\ d.value \in Bucket
        /\ d.ok <=> full + n <= Capacity + Rate * now
        /\ Full(d.value) = full + (IF d.ok THEN n ELSE 0)
        /\ ~d.ok => d.retry = Ceiling(full + n - Capacity - Rate * now, Rate)
    BY <1>6, <1>7, Zenon DEF Charged
  <2>2. full \in Int  BY <1>5
  <2> HIDE DEF full, d
  <2> QED  BY <2>1, <2>2
<1> HIDE DEF full, d
<1> QED  BY <1>1, <1>3, <1>5, <1>8 DEF full, d

(* A bucket that denied a request admits it when what was missing has come in, *)
(* and not before.                                                             *)
LEMMA BucketRetries ==
    ASSUME BucketInv, ~Windowed, NEW n \in 1 .. Capacity, ~Decision(n, now).ok
    PROVE  LET r == Decision(n, now).retry
           IN  r \in Int /\ r > 0 /\ \A k \in Nat : Retried(n, k).ok <=> r <= k
<1> DEFINE full == Later(Full(Value(now)), Rate * now)
           d == Decision(n, now)
           missing == full + n - Capacity - Rate * now
<1>1. n \in Nat /\ n <= Capacity /\ Capacity \in Int  BY RateAssumption
<1>2. /\ now \in Int /\ full \in Int /\ Rate * now \in Int
      /\ d.value \in Bucket /\ Full(d.value) = full
      /\ ~(full + n <= Capacity + Rate * now) /\ d.retry = Ceiling(missing, Rate)
  BY <1>1, BucketDecision
<1>3. algorithm \in {"token", "leaky"} /\ \A t \in Int : KeyOf(t) = 0
  BY BucketValue
<1> HIDE DEF full, d
<1>4. missing \in Int /\ missing > 0  BY <1>1, <1>2
<1> HIDE DEF missing
<1>5. \A k \in Int : missing <= Rate * k <=> d.retry <= k  BY <1>2, <1>4, CeilingIsLeast
<1>6. d.retry \in Int  BY <1>2, <1>4, CeilingCovers
<1>7. d.retry > 0
  <2>1. Rate * 0 = 0  BY RateAssumption
  <2> QED  BY <1>4, <1>5, <1>6, <2>1
<1>8. ASSUME NEW k \in Nat PROVE Retried(n, k).ok <=> d.retry <= k
  <2>1. k \in Int /\ now + k \in Int  BY <1>2
  <2>2. Rate * k \in Int /\ Rate * (now + k) = Rate * now + Rate * k
    BY <1>2, <2>1, RateTimes, Zenon
  <2>3. Retried(n, k) = Script(d.value, n, now + k, FALSE)
    BY <1>2, <1>3, <2>1, Zenon DEF Retried, d
  <2>4. Charged(d.value, n, now + k, Script(d.value, n, now + k, FALSE))
    BY <1>1, <1>2, <1>3, <2>1, FirstScriptCharges, Zenon
  <2>5. Retried(n, k).ok <=> Later(full, Rate * (now + k)) + n <= Capacity + Rate * (now + k)
    BY <1>2, <2>3, <2>4, Zenon DEF Charged
  <2>6. Retried(n, k).ok <=> full + n <= Capacity + Rate * (now + k)
    BY <1>1, <1>2, <2>2, <2>5 DEF Later
  <2>7. Retried(n, k).ok <=> missing <= Rate * k
    BY <1>1, <1>2, <2>2, <2>6 DEF missing
  <2> QED  BY <1>5, <2>1, <2>7
<1> QED  BY <1>6, <1>7, <1>8 DEF d

(* The delay that a bucket reports to a denied caller is the least after which *)
(* it is admitted, in every reachable state: also for a bucket whose last      *)
(* request came from a clock that is ahead, or was executed late.              *)
THEOREM BucketsReportLeastDelay ==
    Spec => [](~Windowed => RetryIsLeast)
<1>1. BucketInv => (~Windowed => RetryIsLeast)
  <2>1. SUFFICES ASSUME BucketInv, ~Windowed, NEW n \in Amounts, Count(n) \in 1 .. Capacity,
                        ~Decision(Count(n), now).ok
                 PROVE  LET r == Decision(Count(n), now).retry
                        IN  /\ r > 0
                            /\ \A k \in 1 .. r - 1 : ~Retried(Count(n), k).ok
                            /\ Retried(Count(n), r).ok
    BY DEF RetryIsLeast
  <2> DEFINE m == Count(n)
             r == Decision(m, now).retry
  <2>2. r \in Int /\ r > 0 /\ \A k \in Nat : Retried(m, k).ok <=> r <= k
    BY <2>1, BucketRetries, Zenon
  <2> QED  BY <2>2
<1> QED  BY <1>1, BucketInit, BucketStep, PTL DEF Spec

Mirror(v) == [level |-> Capacity - v.level, ts |-> v.ts]

(* The leaky bucket is the token bucket seen from the other side: on mirrored  *)
(* contents both scripts decide alike, report the same delay, and leave        *)
(* mirrored contents behind.                                                   *)
THEOREM LeakyMirrorsToken ==
    ASSUME NEW v \in Bucket, NEW n \in Nat, NEW t \in Int
    PROVE  /\ Leaky(Mirror(v), n, t).ok = Token(v, n, t).ok
           /\ Leaky(Mirror(v), n, t).value = Mirror(Token(v, n, t).value)
           /\ Leaky(Mirror(v), n, t).retry = Token(v, n, t).retry
<1> DEFINE gain == (t - v.ts) * Rate
           refilled == Smaller(Capacity, v.level + gain)
           leaked == Mirror(v).level - (t - Mirror(v).ts) * Rate
           drained == IF leaked < 0 THEN 0 ELSE leaked
<1>1. Capacity \in Int /\ v.level \in Int /\ v.ts \in Int /\ t - v.ts \in Int
  BY RateAssumption DEF Bucket
<1>2. gain \in Int  BY <1>1, RateTimes
<1>3. leaked = Capacity - v.level - gain  BY DEF Mirror
<1>4. refilled \in Int /\ drained = Capacity - refilled
  BY <1>1, <1>2, <1>3 DEF Smaller
<1>5. CASE refilled >= n
  <2>1. Token(v, n, t) = [ok |-> TRUE, value |-> [level |-> refilled - n, ts |-> t], retry |-> 0]
    BY <1>5 DEF Token
  <2>2. drained + n <= Capacity /\ drained + n = Capacity - (refilled - n)
    BY <1>1, <1>4, <1>5
  <2>3. Leaky(Mirror(v), n, t) = [ok |-> TRUE, value |-> [level |-> drained + n, ts |-> t], retry |-> 0]
    BY <2>2 DEF Leaky
  <2>4. Mirror(Token(v, n, t).value) = [level |-> Capacity - (refilled - n), ts |-> t]
    BY <2>1 DEF Mirror
  <2> QED  BY <2>1, <2>2, <2>3, <2>4
<1>6. CASE ~(refilled >= n)
  <2>1. Token(v, n, t) = [ok |-> FALSE, value |-> [level |-> refilled, ts |-> t],
                          retry |-> Ceiling(n - refilled, Rate)]
    BY <1>6 DEF Token
  <2>2. ~(drained + n <= Capacity) /\ drained + n - Capacity = n - refilled
    BY <1>1, <1>4, <1>6
  <2>3. Leaky(Mirror(v), n, t) = [ok |-> FALSE, value |-> [level |-> drained, ts |-> t],
                                  retry |-> Ceiling(drained + n - Capacity, Rate)]
    BY <2>2 DEF Leaky
  <2>4. Mirror(Token(v, n, t).value) = [level |-> Capacity - refilled, ts |-> t]
    BY <2>1 DEF Mirror
  <2> QED  BY <1>4, <2>1, <2>2, <2>3, <2>4
<1> QED  BY <1>5, <1>6

---------------------------------------------------------------------------
(* What is common to the four algorithms: a script is executed, the limiter  *)
(* is reset, time passes.                                                    *)

\* What Serve(c) has the script decide.
Verdict(c) == Script(Value(Stamp(c)), call[c].n, Stamp(c), call[c].placed)

Admits(c) == Verdict(c).ok /\ ~(algorithm = "sliding" /\ call[c].placed)

(* A request carries a stamp that is neither too old nor too far ahead, and    *)
(* what it is admitted for is charged to the intervals with that stamp.        *)
LEMMA ServeFacts ==
    ASSUME CallOK, NEW c \in Clients, Serve(c)
    PROVE  LET t == Stamp(c)
           IN  /\ t \in Times /\ t \in now - MaxDelay .. now + MaxLead /\ call[c].n \in Nat
               /\ store' = Put(store, KeyOf(t), [value |-> Verdict(c).value, ends |-> now + Lifetime])
               /\ \A a, b \in Times :
                     spent'[a][b] =
                         spent[a][b] + (IF Admits(c) /\ a <= t /\ t <= b THEN call[c].n ELSE 0)
               /\ UNCHANGED <<now, algorithm, lead>>
               /\ Verdict(c).ok \in BOOLEAN /\ Verdict(c).retry \in Int => CallOK'
<1> DEFINE t == Stamp(c)
           d == Verdict(c)
           r == call[c]
<1>1. /\ MaxLead \in Nat /\ MaxDelay \in Nat /\ MaxTime \in Nat /\ TypeOK /\ Prompt /\ Whole
      /\ Times \subseteq Int
  BY RateAssumption DEF CallOK, Times
<1>2. /\ r \in CallType /\ call \in [Clients -> CallType] /\ lead[c] \in 0 .. MaxLead
      /\ now \in 0 .. MaxTime /\ pc[c] = "sent" /\ now - MaxDelay <= r.sent /\ r.sent <= now
      /\ spent \in [Times -> [Times -> Nat]]
  BY <1>1 DEF TypeOK, CallType, Prompt, Serve
<1>3. r.n \in Nat /\ r.sent \in 0 .. MaxTime /\ r.placed \in BOOLEAN  BY <1>2 DEF CallType
<1>4. t \in Times /\ t \in now - MaxDelay .. now + MaxLead
  BY <1>1, <1>2, <1>3 DEF Stamp, Times
<1>5. /\ store' = Put(store, KeyOf(t), [value |-> d.value, ends |-> now + Lifetime])
      /\ call' = [call EXCEPT ![c] = [r EXCEPT !.ok = d.ok, !.retry = d.retry,
                                               !.placed = r.placed \/ d.ok]]
      /\ spent' = IF Admits(c) THEN Spend(r.n, t) ELSE spent
      /\ pc' = [pc EXCEPT ![c] = "served"]
      /\ UNCHANGED <<now, algorithm, lead, wake>>
  BY DEF Serve, Verdict, Admits
<1> HIDE DEF t, d, r
<1>6. spent' \in [Times -> [Times -> Nat]]
      /\ \A a, b \in Times :
            spent'[a][b] = spent[a][b] + (IF Admits(c) /\ a <= t /\ t <= b THEN r.n ELSE 0)
  <2>1. CASE Admits(c)  BY <1>2, <1>3, <1>5, <2>1 DEF Spend
  <2>2. CASE ~Admits(c)  BY <1>2, <1>5, <2>2
  <2> QED  BY <2>1, <2>2
<1>7. ASSUME d.ok \in BOOLEAN, d.retry \in Int PROVE CallOK'
  <2> DEFINE q == [r EXCEPT !.ok = d.ok, !.retry = d.retry, !.placed = r.placed \/ d.ok]
  <2>1. q \in CallType /\ q.n = r.n /\ q.sent = r.sent
    <3>1. r.placed \/ d.ok \in BOOLEAN  BY <1>3, <1>7
    <3> QED  BY <1>2, <1>7, <3>1, Zenon DEF CallType
  <2>2. call' = [call EXCEPT ![c] = q]  BY <1>5
  <2> HIDE DEF q
  <2>3. call' \in [Clients -> CallType]  BY <1>2, <2>1, <2>2
  <2>4. \A x \in Clients : call'[x].n = call[x].n /\ call'[x].sent = call[x].sent
    BY <1>2, <2>1, <2>2 DEF r
  <2>5. TypeOK'  BY <1>1, <1>5, <1>6, <2>3 DEF TypeOK, CallType
  <2>6. Prompt'
    BY <1>1, <1>5, <2>4 DEF Prompt, TypeOK
  <2>7. Whole'  BY <1>1, <1>5, <2>4 DEF Whole, Windowed
  <2> QED  BY <2>5, <2>6, <2>7 DEF CallOK
<1> QED  BY <1>3, <1>4, <1>5, <1>6, <1>7 DEF t, d, r

(* Reset forgets what was admitted, and nothing about the calls but what they  *)
(* put into the log.                                                           *)
LEMMA ResetFacts ==
    ASSUME CallOK, NEW c \in Clients, Reset(c)
    PROVE  /\ CallOK' /\ UNCHANGED <<now, algorithm, lead>>
           /\ store' = Restrict(store, DOMAIN store \ {KeyOf(now + lead[c])})
           /\ \A a, b \in Times : spent'[a][b] = 0
<1>1. /\ UNCHANGED <<now, algorithm, lead, pc, wake>>
      /\ call' = [q \in Clients |-> [call[q] EXCEPT !.placed = FALSE]]
      /\ spent' = [a \in Times |-> [b \in Times |-> 0]]
      /\ store' = Restrict(store, DOMAIN store \ {KeyOf(now + lead[c])})
      /\ TypeOK /\ Prompt /\ Whole
  BY DEF Reset, CallOK
<1>2. \A q \in Clients : call[q] \in CallType  BY <1>1 DEF TypeOK, CallType
<1>3. \A q \in Clients :
        call'[q] \in CallType /\ call'[q].n = call[q].n /\ call'[q].sent = call[q].sent
  BY <1>1, <1>2, Zenon DEF CallType
<1>4. call' \in [Clients -> CallType]  BY <1>1, <1>3
<1>5. TypeOK'  BY <1>1, <1>4 DEF TypeOK, CallType
<1>6. Prompt'  BY <1>1, <1>3 DEF Prompt
<1>7. Whole'  BY <1>1, <1>3 DEF Whole, Windowed
<1> QED  BY <1>1, <1>5, <1>6, <1>7 DEF CallOK

(* Time passes by a millisecond, and keys expire.                             *)
LEMMA TickFacts ==
    ASSUME CallOK, Tick
    PROVE  /\ CallOK' /\ now' = now + 1 /\ now + 1 \in 0 .. MaxTime /\ now \in 0 .. MaxTime
           /\ store' = Restrict(store, {k \in DOMAIN store : store[k].ends > now + 1})
           /\ UNCHANGED <<algorithm, lead, spent>>
<1>1. /\ TypeOK /\ Prompt /\ Whole /\ now \in 0 .. MaxTime /\ now < MaxTime /\ now' = now + 1
      /\ store' = Restrict(store, {k \in DOMAIN store : store[k].ends > now + 1})
      /\ UNCHANGED <<algorithm, lead, pc, call, wake, spent>>
      /\ MaxTime \in Nat /\ MaxDelay \in Nat
  BY RateAssumption DEF Tick, CallOK, TypeOK
<1>2. TypeOK'  BY <1>1 DEF TypeOK
<1>3. Prompt'  BY <1>1 DEF Prompt, TypeOK, Tick
<1>4. Whole'  BY <1>1 DEF Whole, Windowed
<1> QED  BY <1>1, <1>2, <1>3, <1>4 DEF CallOK

(* Nobody has called yet.                                                     *)
LEMMA CallInit == Init => CallOK
<1> SUFFICES ASSUME Init PROVE CallOK
  OBVIOUS
<1>1. /\ MaxTime \in Nat /\ Unit \in Nat  BY RateAssumption
<1>2. TypeOK  BY <1>1 DEF Init, TypeOK, NoCall, Request
<1>3. Prompt  BY DEF Init, Prompt, NoCall, Request
<1>4. 0 = Unit * 0  BY <1>1
<1>5. Whole  BY <1>4 DEF Init, Whole, NoCall, Request
<1> QED  BY <1>2, <1>3, <1>5 DEF CallOK

\* Nothing was admitted for a time to come.
Past ==
    \A a, b \in Times :
        (b >= now => spent[a][b] = spent[a][now]) /\ (a > now => spent[a][b] = 0)

(* With no clock ahead, nothing ever is.                                      *)
LEMMA PastStep ==
    ASSUME MaxLead = 0, CallOK, Past, [Next]_vars
    PROVE  Past'
<1>1. now \in Times /\ now \in Int /\ Times \subseteq Int
  BY RateAssumption DEF CallOK, TypeOK, Times
<1>2. CASE CallStep
  <2>1. UNCHANGED <<now, spent>>  BY <1>2, CallStepKeeps
  <2> QED  BY <2>1 DEF Past
<1>3. ASSUME NEW c \in Clients, Serve(c) PROVE Past'
  <2> DEFINE t == Stamp(c)
  <2>1. /\ t \in Times /\ t \in now - MaxDelay .. now + MaxLead
        /\ now' = now /\ call[c].n \in Nat
        /\ \A a, b \in Times :
              spent'[a][b] =
                  spent[a][b] + (IF Admits(c) /\ a <= t /\ t <= b THEN call[c].n ELSE 0)
    BY <1>3, ServeFacts, Zenon
  <2> HIDE DEF t
  <2>2. t <= now /\ t \in Int  BY <1>1, <2>1
  <2>3. spent \in [Times -> [Times -> Nat]]  BY DEF CallOK, TypeOK
  <2> QED  BY <1>1, <2>1, <2>2, <2>3 DEF Past
<1>4. ASSUME NEW c \in Clients, Reset(c) PROVE Past'
  <2>1. now' = now /\ \A a, b \in Times : spent'[a][b] = 0  BY <1>4, ResetFacts, Zenon
  <2> QED  BY <1>1, <2>1 DEF Past
<1>5. CASE Tick
  <2>1. now' = now + 1 /\ spent' = spent /\ now + 1 \in Times
    <3>1. now' = now + 1 /\ spent' = spent /\ now + 1 \in 0 .. MaxTime  BY <1>5, TickFacts
    <3> QED  BY <3>1, RateAssumption DEF Times
  <2>2. ASSUME NEW a \in Times, NEW b \in Times
        PROVE  /\ b >= now + 1 => spent[a][b] = spent[a][now + 1]
               /\ a > now + 1 => spent[a][b] = 0
    <3>1. /\ b >= now + 1 => b >= now
          /\ a > now + 1 => a > now
          /\ now + 1 >= now
      BY <1>1
    <3> QED  BY <2>1, <3>1 DEF Past
  <2> QED  BY <2>1, <2>2 DEF Past
<1> QED  BY <1>2, <1>3, <1>4, <1>5, StepKinds

(* Nothing was admitted yet.                                                  *)
LEMMA PastInit == Init => Past
<1>1. 0 \in Times  BY RateAssumption DEF Times
<1> QED  BY <1>1 DEF Init, Past

---------------------------------------------------------------------------
(* When requests are executed in the order of their stamps, the buckets are   *)
(* exact: nothing is charged that was not admitted.                           *)

\* The converse of BucketInv: since some instant a, as much was admitted as it
\* takes to fill the bucket.
Owed == \E a \in 0 .. now : FullAt <= spent[a][now] + Rate * a

(* The instant at which a bucket is full is an integer.                       *)
LEMMA FullAtType ==
    ASSUME BucketInv, ~Windowed
    PROVE  now \in Int /\ Rate * now \in Int /\ FullAt \in Int
<1>1. TypeOK /\ StoreOK /\ Capacity \in Int /\ MaxDelay \in Int /\ now \in Int
  BY RateAssumption DEF BucketInv, TypeOK
<1>2. Rate * now \in Int  BY <1>1, RateTimes
<1>3. CASE Exists
  <2>1. store[0].value.level \in Int /\ store[0].value.ts \in Int
    BY <1>1, <1>3 DEF StoreOK, Exists
  <2>2. Rate * store[0].value.ts \in Int  BY <2>1, RateTimes, Zenon
  <2>3. Full(store[0].value) \in Int  BY <1>1, <2>1, <2>2 DEF Full, Tokens
  <2> QED  BY <1>1, <1>2, <1>3, <2>3 DEF FullAt
<1>4. CASE ~Exists
  <2>1. now - MaxDelay \in Int  BY <1>1
  <2>2. Rate * (now - MaxDelay) \in Int  BY <2>1, RateTimes
  <2> QED  BY <1>1, <1>2, <1>4, <2>2 DEF FullAt
<1> QED  BY <1>3, <1>4

(* A request that is executed in time leaves the bucket exact.                *)
LEMMA ServeOwed ==
    ASSUME MaxDelay = 0, MaxLead = 0, BucketInv, ~Windowed, Owed, NEW c \in Clients, Serve(c)
    PROVE  Owed'
<1> DEFINE n == call[c].n
           d == Verdict(c)
<1>1. CallOK /\ now \in 0 .. MaxTime /\ now \in Int /\ MaxTime \in Nat
  BY RateAssumption DEF BucketInv, CallOK, Whole, TypeOK
<1>2. /\ Stamp(c) \in now - MaxDelay .. now + MaxLead /\ n \in Nat
      /\ store' = Put(store, KeyOf(Stamp(c)), [value |-> d.value, ends |-> now + Lifetime])
      /\ \A a, b \in Times :
            spent'[a][b] =
                spent[a][b] + (IF Admits(c) /\ a <= Stamp(c) /\ Stamp(c) <= b THEN n ELSE 0)
      /\ UNCHANGED <<now, algorithm>>
  BY <1>1, ServeFacts
<1>3. Stamp(c) = now
  <2>1. Stamp(c) \in now - MaxDelay .. now + MaxLead /\ now \in Int  BY <1>1, <1>2, Zenon
  <2> QED  BY <2>1
<1>4. /\ algorithm \in {"token", "leaky"} /\ KeyOf(now) = 0 /\ Value(now) \in Bucket
      /\ Full(Value(now)) = IF Exists THEN Full(store[0].value) ELSE Rate * now
  BY <1>1, BucketValue, Zenon
<1>5. Charged(Value(now), n, now, d)
  BY <1>1, <1>2, <1>3, <1>4, ScriptCharges DEF Verdict
<1>6. Admits(c) <=> d.ok  BY <1>4 DEF Admits
<1>7. now - MaxDelay = now  BY <1>1
<1>8. FullAt = Full(Value(now))
  BY <1>4, <1>7, Zenon DEF FullAt
<1> HIDE DEF n, d
<1>9. Exists' /\ store'[0].value = d.value
  BY <1>2, <1>3, <1>4, Zenon DEF Exists, Put
<1>10. FullAt' = Full(d.value)  BY <1>2, <1>9 DEF FullAt, Full, Tokens
<1>11. FullAt' = Later(FullAt, Rate * now) + (IF d.ok THEN n ELSE 0)
  BY <1>5, <1>8, <1>10 DEF Charged
<1>12. Rate * now \in Int /\ FullAt \in Int  BY FullAtType
<1>13. now \in Times /\ 0 .. now \subseteq Times
  BY <1>1, RateAssumption DEF Times
<1>14. spent \in [Times -> [Times -> Nat]]  BY <1>1, Zenon DEF CallOK, TypeOK
<1>15. \A a \in 0 .. now : spent'[a][now] = spent[a][now] + (IF d.ok THEN n ELSE 0)
  BY <1>1, <1>2, <1>3, <1>6, <1>13
<1>16. PICK a \in 0 .. now : FullAt <= spent[a][now] + Rate * a
  BY DEF Owed
<1>17. Rate * a \in Int /\ spent[a][now] \in Nat /\ spent[now][now] \in Nat
  <2>1. a \in Int /\ a \in Times  BY <1>1, <1>13
  <2> QED  BY <1>13, <1>14, <2>1, RateTimes
<1>18. CASE Rate * now <= FullAt
  <2>1. FullAt' <= spent'[a][now] + Rate * a
    BY <1>2, <1>11, <1>12, <1>15, <1>16, <1>17, <1>18 DEF Later
  <2> QED  BY <1>2, <2>1, Zenon DEF Owed
<1>19. CASE ~(Rate * now <= FullAt)
  <2>1. now \in 0 .. now  BY <1>1
  <2>2. FullAt' <= spent'[now][now] + Rate * now
    BY <1>2, <1>11, <1>12, <1>15, <1>17, <1>19, <2>1 DEF Later
  <2> QED  BY <1>2, <2>1, <2>2 DEF Owed
<1> QED  BY <1>18, <1>19, Zenon

(* Every step does.                                                           *)
LEMMA OwedStep ==
    ASSUME MaxDelay = 0, MaxLead = 0, BucketInv, ~Windowed, Past, Owed, [Next]_vars
    PROVE  Owed'
<1>1. CallOK /\ now \in 0 .. MaxTime /\ now \in Int /\ MaxTime \in Nat
  BY RateAssumption DEF BucketInv, CallOK, Whole, TypeOK
<1>2. CASE CallStep
  <2>1. UNCHANGED <<now, algorithm, store, spent>>  BY <1>1, <1>2, CallStepKeeps
  <2> QED  BY <2>1 DEF Owed, FullAt, Exists, Full, Tokens
<1>3. ASSUME NEW c \in Clients, Serve(c) PROVE Owed'
  BY <1>3, ServeOwed
<1>4. ASSUME ~Exists', now' \in {now, now + 1}, now' \in 0 .. MaxTime,
             spent'[now'][now'] \in Nat
      PROVE  Owed'
  <2>1. now' \in Int /\ now' - MaxDelay = now'  BY <1>1, <1>4
  <2>2. FullAt' = Rate * now'  BY <1>4, <2>1 DEF FullAt
  <2>3. Rate * now' \in Int  BY <2>1, RateTimes
  <2>4. FullAt' <= spent'[now'][now'] + Rate * now'  BY <1>4, <2>2, <2>3
  <2>5. now' \in 0 .. now'  BY <1>4, <2>1
  <2> QED  BY <2>4, <2>5 DEF Owed
<1>5. ASSUME NEW c \in Clients, Reset(c) PROVE Owed'
  <2>1. /\ now' = now /\ algorithm' = algorithm /\ \A a, b \in Times : spent'[a][b] = 0
        /\ store' = Restrict(store, DOMAIN store \ {KeyOf(now + lead[c])})
    BY <1>1, <1>5, ResetFacts, Zenon
  <2>2. KeyOf(now + lead[c]) = 0
    BY RateAssumption DEF KeyOf, Windowed, BucketInv, TypeOK
  <2>3. ~Exists'  BY <2>1, <2>2 DEF Exists, Restrict
  <2>4. now \in Times  BY <1>1, RateAssumption DEF Times
  <2> QED  BY <1>1, <1>4, <2>1, <2>3, <2>4
<1>6. CASE Tick
  <2>1. /\ now' = now + 1 /\ now + 1 \in 0 .. MaxTime /\ spent' = spent /\ algorithm' = algorithm
        /\ store' = Restrict(store, {k \in DOMAIN store : store[k].ends > now + 1})
    BY <1>1, <1>6, TickFacts
  <2>2. now + 1 \in Times /\ 0 .. now \subseteq Times
    BY <1>1, <2>1, RateAssumption DEF Times
  <2>3. spent \in [Times -> [Times -> Nat]]  BY <1>1 DEF CallOK, TypeOK
  <2>4. CASE Exists'
    <3>1. Exists /\ store'[0] = store[0]  BY <2>1, <2>4, Zenon DEF Exists, Restrict
    <3>2. FullAt' = FullAt  BY <2>1, <2>4, <3>1, Zenon DEF FullAt, Full, Tokens
    <3>3. PICK a \in 0 .. now : FullAt <= spent[a][now] + Rate * a
      BY Zenon DEF Owed
    <3>4. spent[a][now + 1] = spent[a][now]  BY <1>1, <2>2 DEF Past
    <3>5. a \in 0 .. now'  BY <1>1, <2>1
    <3> QED  BY <2>1, <3>2, <3>3, <3>4, <3>5 DEF Owed
  <2>5. CASE ~Exists'
    BY <1>4, <2>1, <2>2, <2>3, <2>5
  <2> QED  BY <2>4, <2>5, Zenon
<1> QED  BY <1>2, <1>3, <1>5, <1>6, StepKinds

(* A bucket admits a request exactly when what was admitted before leaves room *)
(* for it in every interval that ends now.                                     *)
LEMMA BucketIsExact ==
    ASSUME MaxDelay = 0, BucketInv, ~Windowed, Owed, NEW n \in Nat
    PROVE  Decision(n, now).ok <=> Fair(n)
<1>1. /\ now \in 0 .. MaxTime /\ now \in Int /\ Capacity \in Int /\ MaxTime \in Nat
      /\ spent \in [Times -> [Times -> Nat]]
  BY RateAssumption DEF BucketInv, TypeOK
<1>2. now \in Times /\ 0 .. now \subseteq Times
  BY <1>1, RateAssumption DEF Times
<1>3. Rate * now \in Int /\ FullAt \in Int  BY FullAtType
<1>4. now - MaxDelay = now  BY <1>1
<1>5. FullAt = Full(Value(now))
  BY <1>1, <1>4, BucketValue, Zenon DEF FullAt
<1>6. Decision(n, now).ok <=> Later(FullAt, Rate * now) + n <= Capacity + Rate * now
  BY <1>5, BucketDecision
<1>7. Fair(n) <=> \A a \in 0 .. now : spent[a][now] + n <= Capacity + Rate * (now - a)
  BY Zenon DEF Fair, Windowed
<1>8. ASSUME NEW a \in 0 .. now
      PROVE  /\ spent[a][now] \in Nat /\ Rate * a \in Int /\ Rate * a <= Rate * now
             /\ Rate * (now - a) = Rate * now - Rate * a
             /\ spent[a][now] = 0 \/ spent[a][now] + Rate * a <= FullAt
  <2>1. a \in Int /\ a <= now /\ a \in Times  BY <1>1, <1>2
  <2>2. Rate * a \in Int /\ Rate * a <= Rate * now /\ Rate * (now - a) = Rate * now - Rate * a
    BY <1>1, <2>1, RateTimes, Zenon
  <2>3. spent[a][now] = 0 \/ spent[a][now] + Rate * a <= FullAt
    BY <1>2, <2>1, Zenon DEF BucketInv
  <2> QED  BY <1>1, <1>2, <2>1, <2>2, <2>3
<1>9. ASSUME Decision(n, now).ok PROVE Fair(n)
  <2>1. ASSUME NEW a \in 0 .. now PROVE spent[a][now] + n <= Capacity + Rate * (now - a)
    BY <1>1, <1>3, <1>6, <1>8, <1>9 DEF Later
  <2> QED  BY <1>7, <2>1
<1>10. ASSUME Fair(n) PROVE Decision(n, now).ok
  <2>1. PICK a \in 0 .. now : FullAt <= spent[a][now] + Rate * a
    BY DEF Owed
  <2>2. FullAt + n <= Capacity + Rate * now
    BY <1>1, <1>3, <1>7, <1>8, <1>10, <2>1
  <2>3. now \in 0 .. now  BY <1>1
  <2>4. Rate * now + n <= Capacity + Rate * now
    BY <1>1, <1>3, <1>7, <1>8, <1>10, <2>3
  <2> QED  BY <1>3, <1>6, <2>2, <2>4 DEF Later
<1> QED  BY <1>9, <1>10, Zenon

(* The token and the leaky bucket admit a request exactly when the budget of   *)
(* every interval that ends now leaves room for it, if requests are executed   *)
(* in the order of their stamps: a denial, a repeated request or an expired    *)
(* bucket costs nobody anything.                                               *)
THEOREM BucketsAreExact ==
    ASSUME MaxDelay = 0, MaxLead = 0
    PROVE  Spec => [](~Windowed => DecisionIsExact)
<1> DEFINE Inv == ~Windowed => CallOK /\ Past /\ Owed
<1>1. Init => Inv
  <2> SUFFICES ASSUME Init PROVE Owed
    BY CallInit, PastInit
  <2>1. ~Exists /\ now = 0 /\ 0 - MaxDelay = 0  BY DEF Init, Exists
  <2>2. FullAt = Rate * 0 /\ Rate * 0 = 0  BY <2>1, RateAssumption DEF FullAt
  <2>3. 0 \in Times  BY RateAssumption DEF Times
  <2>4. spent[0][0] = 0  BY <2>3 DEF Init
  <2> QED  BY <2>1, <2>2, <2>4 DEF Owed
<1>2. BucketInv /\ Inv /\ [Next]_vars => Inv'
  <2> SUFFICES ASSUME BucketInv, Inv, [Next]_vars, ~Windowed' PROVE CallOK' /\ Past' /\ Owed'
    OBVIOUS
  <2>1. BucketInv'  BY BucketStep
  <2>2. ~Windowed
    <3>1. algorithm' = algorithm  BY SameAlgorithm, Zenon
    <3> QED  BY <3>1 DEF Windowed
  <2>3. CallOK'  BY <2>1 DEF BucketInv, CallOK, Whole
  <2> QED  BY <2>2, <2>3, PastStep, OwedStep
<1>3. BucketInv /\ Inv => (~Windowed => DecisionIsExact)
  <2> SUFFICES ASSUME BucketInv, Inv, ~Windowed, NEW n \in Amounts, Count(n) \in 1 .. Capacity
               PROVE  Decision(Count(n), now).ok <=> Fair(Count(n))
    BY DEF DecisionIsExact
  <2>1. Count(n) \in Nat  BY RateAssumption
  <2> QED  BY <2>1, BucketIsExact
<1> QED  BY <1>1, <1>2, <1>3, BucketInit, BucketStep, PTL DEF Spec

---------------------------------------------------------------------------
(* The fixed window.                                                         *)

(* A window is a millisecond at least.                                        *)
LEMMA WindowType ==
    ASSUME CallOK, Windowed
    PROVE  Window \in Nat /\ Window > 0 /\ Unit <= Capacity
<1> DEFINE q == Capacity \div Rate
<1>1. Rate \in Int /\ Rate > 0 /\ Capacity \in Int /\ Rate <= Capacity /\ Unit <= Capacity
  BY RateAssumption, WindowAssumption DEF CallOK, TypeOK, Windowed
<1>2. q \in Int /\ Capacity < Rate * q + Rate  BY <1>1
<1> HIDE DEF q
<1>3. Rate * q \in Int /\ Rate * 0 = 0 /\ (q <= 0 => Rate * q <= Rate * 0)
  BY <1>1, <1>2, RateTimes
<1>4. q > 0  BY <1>1, <1>2, <1>3
<1> QED  BY <1>1, <1>2, <1>4 DEF q, Window

(* Multiples of the window, for provers that do not multiply.                 *)
LEMMA WindowTimes ==
    ASSUME Window \in Nat, NEW x \in Int, NEW y \in Int
    PROVE  /\ Window * x \in Int /\ x * Window = Window * x
           /\ Window * (x + 1) = Window * x + Window
           /\ Window * (x + 2) = Window * x + 2 * Window
           /\ x <= y => Window * x <= Window * y
<1>1. /\ Window * x \in Int /\ x * Window = Window * x
      /\ Window * (x + 1) = Window * x + Window
      /\ Window * (x + 2) = Window * x + 2 * Window
  OBVIOUS
<1>2. ASSUME x <= y PROVE Window * x <= Window * y
  <2>1. Window * (y - x) >= 0  BY <1>2
  <2>2. Window * (y - x) = Window * y - Window * x  OBVIOUS
  <2>3. Window * x \in Int /\ Window * y \in Int  OBVIOUS
  <2> QED  BY <2>1, <2>2, <2>3
<1> QED  BY <1>1, <1>2

(* Time is cut into windows.                                                  *)
LEMMA WindowOf ==
    ASSUME Window \in Nat, Window > 0, NEW t \in Int, NEW w \in Int
    PROVE  /\ t \div Window \in Int
           /\ t \div Window = w <=> Window * w <= t /\ t < Window * w + Window
<1> DEFINE q == t \div Window
<1>1. q \in Int /\ Window * q <= t /\ t < Window * q + Window
  OBVIOUS
<1> HIDE DEF q
<1>2. ASSUME Window * w <= t, t < Window * w + Window, q # w PROVE FALSE
  <2>1. /\ Window * w \in Int /\ Window * q \in Int
        /\ Window * (w + 1) = Window * w + Window /\ Window * (q + 1) = Window * q + Window
    BY <1>1, WindowTimes
  <2>2. CASE q < w
    <3>1. q + 1 \in Int /\ q + 1 <= w  BY <1>1, <2>2
    <3>2. Window * (q + 1) <= Window * w  BY <3>1, WindowTimes
    <3> QED  BY <1>1, <1>2, <2>1, <3>2
  <2>3. CASE w < q
    <3>1. w + 1 \in Int /\ w + 1 <= q  BY <1>1, <2>3
    <3>2. Window * (w + 1) <= Window * q  BY <1>1, <3>1, WindowTimes, Zenon
    <3> QED  BY <1>1, <1>2, <2>1, <3>2
  <2> QED  BY <1>1, <1>2, <2>2, <2>3
<1> QED  BY <1>1, <1>2 DEF q

\* The counters: each within the capacity, and kept for a whole window more.
FixedOK ==
    /\ CallOK
    /\ \A w \in DOMAIN store :
          /\ w \in Int /\ store[w].value \in 0 .. Capacity /\ store[w].ends \in Int
          /\ store[w].ends > now /\ Window * (w + 2) - MaxLead <= store[w].ends

(* What the script does to the counter of a window.                           *)
LEMMA FixedScript ==
    ASSUME FixedOK, algorithm = "fixed", NEW t \in Int, NEW n \in Nat, NEW placed
    PROVE  LET d == Script(Value(t), n, t, placed)
           IN  /\ KeyOf(t) = t \div Window /\ KeyOf(t) \in Int
               /\ Value(t) \in 0 .. Capacity
               /\ Value(t) = IF KeyOf(t) \in DOMAIN store THEN store[KeyOf(t)].value ELSE 0
               /\ d.ok \in BOOLEAN /\ d.retry \in Int /\ d.value \in 0 .. Capacity
               /\ d.ok <=> Value(t) + n <= Capacity
               /\ d.value = Value(t) + (IF d.ok THEN n ELSE 0)
<1> DEFINE v == Value(t)
           d == Script(v, n, t, placed)
<1>1. Window \in Nat /\ Window > 0 /\ Capacity \in Nat
  BY WindowType, RateAssumption DEF FixedOK, Windowed
<1>2. KeyOf(t) = t \div Window /\ KeyOf(t) \in Int
  BY <1>1, WindowOf DEF KeyOf
<1>3. Missing(t) = 0  BY DEF Missing
<1>4. v = IF KeyOf(t) \in DOMAIN store THEN store[KeyOf(t)].value ELSE 0
  BY <1>3 DEF Value
<1>5. v \in 0 .. Capacity  BY <1>1, <1>4 DEF FixedOK
<1> HIDE DEF v
<1> DEFINE left == (t \div Window + 1) * Window - t
<1>6. left \in Int
  <2>1. (t \div Window + 1) * Window \in Int  BY <1>1, <1>2
  <2> QED  BY <2>1
<1> HIDE DEF left
<1>7. /\ d.ok <=> v + n <= Capacity
      /\ d.ok \in BOOLEAN /\ d.retry \in Int
      /\ d.value = v + (IF d.ok THEN n ELSE 0) /\ d.value \in 0 .. Capacity
  <2>1. CASE v + n <= Capacity
    <3>1. d = [ok |-> TRUE, value |-> v + n, retry |-> left]  BY <2>1 DEF Script, Fixed, left
    <3> QED  BY <1>1, <1>5, <1>6, <2>1, <3>1
  <2>2. CASE ~(v + n <= Capacity)
    <3>1. d = [ok |-> FALSE, value |-> v, retry |-> left]  BY <2>2 DEF Script, Fixed, left
    <3> QED  BY <1>1, <1>5, <1>6, <2>2, <3>1
  <2> QED  BY <2>1, <2>2, Zenon
<1> HIDE DEF d
<1> QED  BY <1>2, <1>4, <1>5, <1>7, Zenon DEF v, d

(* Executing a request, for a fixed window.                                   *)
LEMMA FixedServe ==
    ASSUME FixedOK, algorithm = "fixed", NEW c \in Clients, Serve(c)
    PROVE  LET t == Stamp(c)
               w == t \div Window
               d == Verdict(c)
           IN  /\ w \in Int /\ Window * w <= t /\ t < Window * w + Window
               /\ Value(t) = IF w \in DOMAIN store THEN store[w].value ELSE 0
               /\ d.value = Value(t) + (IF d.ok THEN call[c].n ELSE 0)
               /\ d.value \in 0 .. Capacity /\ Value(t) \in 0 .. Capacity
               /\ Admits(c) <=> d.ok
               /\ DOMAIN store' = DOMAIN store \cup {w}
               /\ store'[w] = [value |-> d.value, ends |-> now + 2 * Window]
               /\ \A x \in DOMAIN store : x # w => store'[x] = store[x]
               /\ CallOK'
<1> DEFINE t == Stamp(c)
           w == t \div Window
           d == Verdict(c)
<1>1. CallOK /\ Window \in Nat /\ Window > 0  BY WindowType DEF FixedOK, Windowed
<1>2. /\ t \in Times /\ call[c].n \in Nat
      /\ store' = Put(store, KeyOf(t), [value |-> d.value, ends |-> now + Lifetime])
      /\ d.ok \in BOOLEAN /\ d.retry \in Int => CallOK'
  BY <1>1, ServeFacts, Zenon
<1>3. t \in Int  BY <1>2, RateAssumption DEF Times
<1>4. /\ KeyOf(t) = w /\ w \in Int
      /\ Value(t) = IF w \in DOMAIN store THEN store[w].value ELSE 0
      /\ d.value = Value(t) + (IF d.ok THEN call[c].n ELSE 0)
      /\ d.value \in 0 .. Capacity /\ Value(t) \in 0 .. Capacity
      /\ d.ok \in BOOLEAN /\ d.retry \in Int
  BY <1>2, <1>3, FixedScript, Zenon DEF Verdict
<1>5. Window * w <= t /\ t < Window * w + Window
  BY <1>1, <1>3, <1>4, WindowOf
<1>6. Lifetime = 2 * Window  BY DEF Lifetime, Windowed
<1>7. Admits(c) <=> d.ok  BY Zenon DEF Admits
<1> HIDE DEF t, w, d
<1>8. /\ DOMAIN store' = DOMAIN store \cup {w}
      /\ store'[w] = [value |-> d.value, ends |-> now + 2 * Window]
      /\ \A x \in DOMAIN store : x # w => store'[x] = store[x]
  BY <1>2, <1>4, <1>6 DEF Put
<1> QED  BY <1>2, <1>4, <1>5, <1>7, <1>8, Zenon DEF t, w, d

\* What was admitted in a window is counted while a request of that window may
\* still be executed.
Counted(a, b) ==
    LET w == a \div Window
    IN  IF w \in DOMAIN store
        THEN spent[a][b] <= store[w].value
        ELSE spent[a][b] = 0 \/ Window * (w + 1) <= now - MaxDelay

FixedInv ==
    \A a, b \in Times : a <= b /\ a \div Window = b \div Window =>
        spent[a][b] <= Capacity /\ Counted(a, b)

(* Every step keeps the counters in order.                                    *)
LEMMA FixedOKStep ==
    ASSUME FixedOK, algorithm = "fixed", [Next]_vars
    PROVE  FixedOK' /\ algorithm' = "fixed"
<1>1. /\ CallOK /\ Window \in Nat /\ Window > 0 /\ now \in Int
      /\ MaxLead \in Nat /\ MaxDelay \in Nat
  BY WindowType, RateAssumption DEF FixedOK, Windowed, CallOK, TypeOK
<1>2. CASE CallStep
  <2>1. CallOK' /\ UNCHANGED <<now, algorithm, store>>  BY <1>1, <1>2, CallStepKeeps, Zenon
  <2> QED  BY <2>1 DEF FixedOK
<1>3. ASSUME NEW c \in Clients, Serve(c) PROVE FixedOK' /\ algorithm' = "fixed"
  <2> DEFINE t == Stamp(c)
             w == t \div Window
             d == Verdict(c)
  <2>1. /\ t \in Times /\ t \in now - MaxDelay .. now + MaxLead /\ UNCHANGED <<now, algorithm>>
    BY <1>1, <1>3, ServeFacts, Zenon
  <2>2. /\ w \in Int /\ Window * w <= t /\ d.value \in 0 .. Capacity
        /\ DOMAIN store' = DOMAIN store \cup {w}
        /\ store'[w] = [value |-> d.value, ends |-> now + 2 * Window]
        /\ \A x \in DOMAIN store : x # w => store'[x] = store[x]
        /\ CallOK'
    BY <1>3, FixedServe, Zenon
  <2> HIDE DEF t, w, d
  <2>3. Window * w \in Int /\ Window * (w + 2) = Window * w + 2 * Window
    BY <1>1, <2>2, WindowTimes, Zenon
  <2>4. Window * (w + 2) - MaxLead <= now + 2 * Window /\ now + 2 * Window > now
        /\ now + 2 * Window \in Int
    BY <1>1, <2>1, <2>2, <2>3
  <2>5. ASSUME NEW x \in DOMAIN store'
        PROVE  /\ x \in Int /\ store'[x].value \in 0 .. Capacity /\ store'[x].ends \in Int
               /\ store'[x].ends > now /\ Window * (x + 2) - MaxLead <= store'[x].ends
    <3>1. CASE x = w  BY <2>2, <2>4, <3>1
    <3>2. CASE x # w
      <4>1. x \in DOMAIN store /\ store'[x] = store[x]  BY <2>2, <3>2
      <4> QED  BY <4>1, Zenon DEF FixedOK
    <3> QED  BY <3>1, <3>2, Zenon
  <2> QED  BY <2>1, <2>2, <2>5 DEF FixedOK
<1>4. ASSUME NEW c \in Clients, Reset(c) PROVE FixedOK' /\ algorithm' = "fixed"
  <2>1. /\ CallOK' /\ UNCHANGED <<now, algorithm>>
        /\ store' = Restrict(store, DOMAIN store \ {KeyOf(now + lead[c])})
    BY <1>1, <1>4, ResetFacts
  <2>2. \A x \in DOMAIN store' : x \in DOMAIN store /\ store'[x] = store[x]
    BY <2>1, Zenon DEF Restrict
  <2> QED  BY <2>1, <2>2, Zenon DEF FixedOK
<1>5. CASE Tick
  <2>1. /\ CallOK' /\ now' = now + 1 /\ algorithm' = algorithm
        /\ store' = Restrict(store, {k \in DOMAIN store : store[k].ends > now + 1})
    BY <1>1, <1>5, TickFacts
  <2>2. \A x \in DOMAIN store' : x \in DOMAIN store /\ store'[x] = store[x] /\ store[x].ends > now + 1
    BY <2>1 DEF Restrict
  <2> QED  BY <2>1, <2>2 DEF FixedOK
<1> QED  BY <1>2, <1>3, <1>4, <1>5, StepKinds, Zenon

(* What is admitted is counted.                                               *)
LEMMA FixedServeKeeps ==
    ASSUME FixedOK, algorithm = "fixed", FixedInv, NEW c \in Clients, Serve(c)
    PROVE  FixedInv'
<1> DEFINE t == Stamp(c)
           w == t \div Window
           d == Verdict(c)
           n == call[c].n
<1>1. /\ CallOK /\ Window \in Nat /\ Window > 0 /\ now \in Int /\ Capacity \in Nat
      /\ MaxLead \in Nat /\ MaxDelay \in Nat /\ Times \subseteq Int
      /\ spent \in [Times -> [Times -> Nat]]
  <2>1. /\ Capacity \in Nat /\ MaxLead \in Nat /\ MaxDelay \in Nat /\ Times \subseteq Int
    BY RateAssumption DEF Times
  <2>2. CallOK /\ now \in Int /\ spent \in [Times -> [Times -> Nat]] /\ Windowed
    BY DEF FixedOK, CallOK, TypeOK, Windowed
  <2> QED  BY <2>1, <2>2, WindowType
<1>2. /\ t \in Times /\ t \in now - MaxDelay .. now + MaxLead /\ n \in Nat
      /\ \A a, b \in Times :
            spent'[a][b] = spent[a][b] + (IF Admits(c) /\ a <= t /\ t <= b THEN n ELSE 0)
      /\ UNCHANGED <<now, algorithm>>
  BY <1>1, ServeFacts, Zenon
<1>3. /\ w \in Int /\ Window * w <= t /\ t < Window * w + Window
      /\ Value(t) = IF w \in DOMAIN store THEN store[w].value ELSE 0
      /\ d.value = Value(t) + (IF d.ok THEN n ELSE 0)
      /\ d.value \in 0 .. Capacity /\ Value(t) \in 0 .. Capacity
      /\ Admits(c) <=> d.ok
      /\ DOMAIN store' = DOMAIN store \cup {w}
      /\ store'[w] = [value |-> d.value, ends |-> now + 2 * Window]
      /\ \A x \in DOMAIN store : x # w => store'[x] = store[x]
  BY FixedServe, Zenon
<1>4. \A x \in Int : /\ x \div Window \in Int
                     /\ \A y \in Int : x \div Window = y <=> Window * y <= x /\ x < Window * y + Window
  BY <1>1, WindowOf
<1> HIDE DEF t, w, d, n
<1>5. ASSUME NEW a \in Times, NEW b \in Times, a <= b, a \div Window = b \div Window
      PROVE  spent'[a][b] <= Capacity /\ Counted(a, b)'
  <2> DEFINE x == a \div Window
  <2>1. /\ a \in Int /\ b \in Int /\ x \in Int /\ spent[a][b] \in Nat
        /\ spent[a][b] <= Capacity /\ Counted(a, b)
    BY <1>1, <1>4, <1>5 DEF FixedInv
  <2>2. Window * x <= a /\ b < Window * x + Window  BY <1>4, <1>5, <2>1, Zenon
  <2>3. CASE x # w
    <3>1. ~(a <= t /\ t <= b)
      <4> SUFFICES ASSUME a <= t, t <= b PROVE x = w
        BY <2>3, Zenon
      <4>1. Window * x <= t /\ t < Window * x + Window /\ t \in Int /\ Window * x \in Int
        BY <1>1, <1>2, <2>1, <2>2, WindowTimes
      <4> QED  BY <1>4, <2>1, <4>1 DEF w
    <3>2. spent'[a][b] = spent[a][b]  BY <1>2, <2>1, <3>1
    <3>3. x \in DOMAIN store' <=> x \in DOMAIN store  BY <1>3, <2>3, Zenon
    <3>4. x \in DOMAIN store => store'[x] = store[x]  BY <1>3, <2>3
    <3> QED  BY <1>2, <2>1, <3>2, <3>3, <3>4, Zenon DEF Counted
  <2>4. CASE x = w
    <3>1. spent[a][b] <= Value(t)
      <4>1. CASE w \in DOMAIN store  BY <1>3, <2>1, <2>4, <4>1, Zenon DEF Counted
      <4>2. CASE w \notin DOMAIN store
        <5>1. ~(Window * (w + 1) <= now - MaxDelay)
          <6>1. Window * (w + 1) = Window * w + Window /\ Window * w \in Int
            BY <1>1, <1>3, WindowTimes, Zenon
          <6> QED  BY <1>1, <1>2, <1>3, <6>1
        <5>2. spent[a][b] = 0  BY <2>1, <2>4, <4>2, <5>1, Zenon DEF Counted
        <5> QED  BY <1>3, <4>2, <5>2
      <4> QED  BY <4>1, <4>2, Zenon
    <3>2. spent'[a][b] <= d.value
      <4>1. spent'[a][b] = spent[a][b] + (IF d.ok /\ a <= t /\ t <= b THEN n ELSE 0)
        BY <1>2, <1>3, Zenon
      <4>2. Value(t) \in Int /\ n \in Nat  BY <1>2, <1>3
      <4> QED  BY <1>3, <2>1, <3>1, <4>1, <4>2
    <3>3. spent'[a][b] \in Int  BY <1>2, <2>1
    <3>4. spent'[a][b] <= Capacity  BY <1>1, <1>3, <3>2, <3>3
    <3>5. x \in DOMAIN store' /\ store'[x].value = d.value  BY <1>3, <2>4
    <3> QED  BY <3>2, <3>4, <3>5 DEF Counted
  <2> QED  BY <2>3, <2>4
<1> QED  BY <1>5 DEF FixedInv

(* A counter that expires belongs to a window that is over for every request.  *)
LEMMA FixedInvStep ==
    ASSUME MaxDelay + MaxLead <= Window, FixedOK, algorithm = "fixed", FixedInv, [Next]_vars
    PROVE  FixedInv'
<1>1. CallOK /\ MaxLead \in Nat /\ MaxDelay \in Nat /\ now \in Int /\ Times \subseteq Int
  BY RateAssumption DEF FixedOK, CallOK, TypeOK, Times
<1>2. Window \in Nat /\ Window > 0  BY WindowType DEF FixedOK, Windowed
<1>3. \A a \in Times : a \div Window \in Int  BY <1>1, <1>2, WindowOf, Zenon
<1>4. CASE CallStep
  <2>1. UNCHANGED <<now, store, spent>>  BY <1>1, <1>4, CallStepKeeps
  <2> QED  BY <2>1 DEF FixedInv, Counted
<1>5. ASSUME NEW c \in Clients, Serve(c) PROVE FixedInv'
  BY <1>5, FixedServeKeeps
<1>6. ASSUME NEW c \in Clients, Reset(c) PROVE FixedInv'
  <2>1. /\ \A a, b \in Times : spent'[a][b] = 0
        /\ store' = Restrict(store, DOMAIN store \ {KeyOf(now + lead[c])})
    BY <1>1, <1>6, ResetFacts
  <2>2. \A x \in DOMAIN store' : store'[x].value \in 0 .. Capacity
    BY <2>1 DEF Restrict, FixedOK
  <2>3. Capacity \in Nat  BY RateAssumption
  <2>4. ASSUME NEW a \in Times, NEW b \in Times
        PROVE  spent'[a][b] <= Capacity /\ Counted(a, b)'
    <3>1. spent'[a][b] = 0  BY <2>1
    <3>2. a \div Window \in DOMAIN store' => 0 <= store'[a \div Window].value
      BY <2>2, <2>3
    <3> QED  BY <2>3, <3>1, <3>2 DEF Counted
  <2> QED  BY <2>4, Zenon DEF FixedInv
<1>7. CASE Tick
  <2>1. /\ now' = now + 1 /\ spent' = spent
        /\ store' = Restrict(store, {k \in DOMAIN store : store[k].ends > now + 1})
    BY <1>1, <1>7, TickFacts
  <2>2. ASSUME NEW a \in Times, NEW b \in Times, a <= b, a \div Window = b \div Window
        PROVE  spent'[a][b] <= Capacity /\ Counted(a, b)'
    <3> DEFINE w == a \div Window
    <3>1. spent[a][b] <= Capacity /\ Counted(a, b)  BY <2>2 DEF FixedInv
    <3>2. w \in Int  BY <1>3
    <3>3. Window * w \in Int /\ Window * (w + 1) = Window * w + Window
          /\ Window * (w + 2) = Window * w + 2 * Window
      BY <1>2, <3>2, WindowTimes, Zenon
    <3>4. CASE w \in DOMAIN store'
      <4>1. w \in DOMAIN store /\ store'[w] = store[w]  BY <2>1, <3>4, Zenon DEF Restrict
      <4> QED  BY <2>1, <3>1, <3>4, <4>1 DEF Counted
    <3>5. CASE w \notin DOMAIN store' /\ w \in DOMAIN store
      <4>1. ~(store[w].ends > now + 1)  BY <2>1, <3>5 DEF Restrict
      <4>2. store[w].ends \in Int /\ Window * (w + 2) - MaxLead <= store[w].ends
        BY <3>5, Zenon DEF FixedOK
      <4>3. Window * (w + 1) <= now' - MaxDelay
        BY <1>1, <1>2, <2>1, <3>3, <4>1, <4>2
      <4> QED  BY <2>1, <3>1, <3>5, <4>3 DEF Counted
    <3>6. CASE w \notin DOMAIN store' /\ w \notin DOMAIN store
      <4>1. spent[a][b] = 0 \/ Window * (w + 1) <= now - MaxDelay  BY <3>1, <3>6, Zenon DEF Counted
      <4>2. spent[a][b] = 0 \/ Window * (w + 1) <= now' - MaxDelay
        BY <1>1, <1>2, <2>1, <3>3, <4>1
      <4> QED  BY <2>1, <3>1, <3>6, <4>2, Zenon DEF Counted
    <3> QED  BY <3>4, <3>5, <3>6
  <2> QED  BY <2>2 DEF FixedInv
<1> QED  BY <1>4, <1>5, <1>6, <1>7, StepKinds, Zenon

(* There is no counter yet.                                                   *)
LEMMA FixedInit == Init => FixedOK /\ FixedInv
<1> SUFFICES ASSUME Init PROVE FixedOK /\ FixedInv
  OBVIOUS
<1>1. DOMAIN store = {} /\ CallOK  BY CallInit DEF Init
<1>2. Capacity \in Nat  BY RateAssumption
<1>3. \A a, b \in Times : spent[a][b] = 0  BY DEF Init
<1> QED  BY <1>1, <1>2, <1>3 DEF FixedOK, FixedInv, Counted

(* A fixed window admits no more than its capacity, also when requests are      *)
(* executed late or come from clocks that are ahead, as long as both together   *)
(* are no more than a window.                                                   *)
THEOREM FixedKeepsBudget ==
    ASSUME MaxDelay + MaxLead <= Window
    PROVE  Spec => [](algorithm = "fixed" => BudgetKept)
<1> DEFINE Inv == algorithm = "fixed" => FixedOK /\ FixedInv
<1>1. Init => Inv  BY FixedInit
<1>2. Inv /\ [Next]_vars => Inv'
  <2> SUFFICES ASSUME Inv, [Next]_vars, algorithm' = "fixed" PROVE FixedOK' /\ FixedInv'
    OBVIOUS
  <2>1. algorithm = "fixed"  BY SameAlgorithm
  <2> QED  BY <2>1, FixedOKStep, FixedInvStep
<1>3. Inv => (algorithm = "fixed" => BudgetKept)
  <2> SUFFICES ASSUME Inv, algorithm = "fixed", NEW a \in Times, NEW b \in Times, a <= b
               PROVE  spent[a][b] <= Budget(a, b)
    BY DEF BudgetKept
  <2>1. CASE a \div Window = b \div Window
    <3>1. Budget(a, b) = Capacity  BY <2>1 DEF Budget, Windowed
    <3> QED  BY <2>1, <3>1 DEF FixedInv
  <2>2. CASE a \div Window # b \div Window
    <3>1. Budget(a, b) = spent[a][b]  BY <2>2 DEF Budget, Windowed
    <3>2. spent[a][b] \in Nat  BY DEF FixedOK, CallOK, TypeOK
    <3> QED  BY <3>1, <3>2
  <2> QED  BY <2>1, <2>2
<1> QED  BY <1>1, <1>2, <1>3, PTL DEF Spec

\* No window has a counter before it begins.
Begun == \A w \in DOMAIN store : Window * w <= now

(* With no clock ahead, requests are for windows that have begun.             *)
LEMMA BegunStep ==
    ASSUME MaxLead = 0, FixedOK, algorithm = "fixed", Begun, [Next]_vars
    PROVE  Begun'
<1>1. CallOK /\ MaxDelay \in Nat /\ now \in Int /\ Times \subseteq Int
  BY RateAssumption DEF FixedOK, CallOK, TypeOK, Times
<1>2. Window \in Nat /\ Window > 0  BY WindowType DEF FixedOK, Windowed
<1>3. CASE CallStep
  <2>1. UNCHANGED <<now, store>>  BY <1>1, <1>3, CallStepKeeps
  <2> QED  BY <2>1 DEF Begun
<1>4. ASSUME NEW c \in Clients, Serve(c) PROVE Begun'
  <2> DEFINE t == Stamp(c)
             w == t \div Window
  <2>1. t \in now - MaxDelay .. now + MaxLead /\ now' = now  BY <1>1, <1>4, ServeFacts, Zenon
  <2>2. w \in Int /\ Window * w <= t /\ DOMAIN store' = DOMAIN store \cup {w}
    BY <1>4, FixedServe, Zenon
  <2> HIDE DEF t, w
  <2>3. Window * w \in Int  BY <1>2, <2>2, WindowTimes
  <2>4. Window * w <= now  BY <1>1, <2>1, <2>2, <2>3
  <2> QED  BY <2>1, <2>2, <2>4 DEF Begun
<1>5. ASSUME NEW c \in Clients, Reset(c) PROVE Begun'
  <2>1. now' = now /\ store' = Restrict(store, DOMAIN store \ {KeyOf(now + lead[c])})
    BY <1>1, <1>5, ResetFacts, Zenon
  <2> QED  BY <2>1, Zenon DEF Begun, Restrict
<1>6. CASE Tick
  <2>1. /\ now' = now + 1
        /\ store' = Restrict(store, {k \in DOMAIN store : store[k].ends > now + 1})
    BY <1>1, <1>6, TickFacts
  <2>2. ASSUME NEW w \in DOMAIN store' PROVE Window * w <= now + 1
    <3>1. w \in DOMAIN store  BY <2>1 DEF Restrict
    <3>2. w \in Int /\ Window * w <= now  BY <3>1 DEF FixedOK, Begun
    <3>3. Window * w \in Int  BY <1>2, <3>2, WindowTimes, Zenon
    <3> QED  BY <1>1, <3>2, <3>3
  <2> QED  BY <2>1, <2>2, Zenon DEF Begun
<1> QED  BY <1>3, <1>4, <1>5, <1>6, StepKinds, Zenon

(* A denied request is admitted when the next window begins, and not before.   *)
LEMMA FixedRetries ==
    ASSUME FixedOK, algorithm = "fixed", Begun, NEW n \in 1 .. Capacity, ~Decision(n, now).ok
    PROVE  LET r == Decision(n, now).retry
           IN  /\ r \in Int /\ r > 0
               /\ \A k \in 1 .. r - 1 : ~Retried(n, k).ok
               /\ Retried(n, r).ok
<1> DEFINE w == now \div Window
           d == Decision(n, now)
           r == d.retry
<1>1. now \in Int /\ Capacity \in Nat /\ n \in Nat
  BY RateAssumption DEF FixedOK, CallOK, TypeOK
<1>2. Window \in Nat /\ Window > 0  BY WindowType DEF FixedOK, Windowed
<1>3. w \in Int /\ Window * w <= now /\ now < Window * w + Window
  BY <1>1, <1>2, WindowOf
<1>4. Window * w \in Int /\ Window * (w + 1) = Window * w + Window /\ (w + 1) * Window = Window * (w + 1)
      /\ Window * (w + 1) \in Int
  BY <1>2, <1>3, WindowTimes
<1>5. /\ KeyOf(now) = w /\ Value(now) \in 0 .. Capacity
      /\ ~(Value(now) + n <= Capacity)
  BY <1>1, FixedScript, Zenon DEF Decision
<1>6. d = [ok |-> FALSE, value |-> Value(now), retry |-> (w + 1) * Window - now]
  BY <1>5 DEF Decision, Script, Fixed
<1>7. r = (w + 1) * Window - now /\ d.value = Value(now)  BY <1>6
<1> HIDE DEF d, w, r
<1>8. r \in Int /\ r > 0 /\ r = Window * w + Window - now /\ now + r = Window * (w + 1)
  <2>1. r = Window * (w + 1) - now  BY <1>4, <1>7, Zenon
  <2> QED  BY <1>1, <1>2, <1>3, <1>4, <2>1
<1>9. ASSUME NEW k \in 1 .. r - 1 PROVE ~Retried(n, k).ok
  <2>1. now + k \in Int /\ Window * w <= now + k /\ now + k < Window * w + Window
    BY <1>1, <1>2, <1>3, <1>4, <1>8
  <2>2. KeyOf(now + k) = w
    BY <1>2, <1>3, <2>1, WindowOf DEF KeyOf
  <2>3. Retried(n, k) = Fixed(Value(now), n, now + k)
    BY <1>5, <1>7, <2>2, Zenon DEF Retried, Script, d
  <2> QED  BY <1>5, <2>3 DEF Fixed
<1>10. Retried(n, r).ok
  <2>1. now + r = Window * (w + 1) /\ w + 1 \in Int  BY <1>3, <1>8
  <2>2. (now + r) \div Window = w + 1
    <3>1. Window * (w + 1) < Window * (w + 1) + Window  BY <1>2, <1>4
    <3>2. now + r \in Int  BY <1>1, <1>8
    <3> QED  BY <1>2, <1>4, <2>1, <3>1, <3>2, WindowOf
  <2>3. KeyOf(now + r) = w + 1 /\ w + 1 # w  BY <1>3, <2>2 DEF KeyOf
  <2>4. w + 1 \notin DOMAIN store
    BY <1>1, <1>3, <1>4 DEF Begun
  <2>5. Value(now + r) = 0  BY <2>3, <2>4 DEF Value, Missing
  <2>6. Retried(n, r) = Fixed(0, n, now + r)
    BY <1>5, <2>3, <2>5 DEF Retried, Script
  <2>7. 0 + n <= Capacity  BY <1>1
  <2> QED  BY <2>6, <2>7 DEF Fixed
<1> QED  BY <1>8, <1>9, <1>10, Zenon DEF d, r

(* A caller that a fixed window denies is told when the next one begins, which *)
(* admits it: at once, and for any amount, if no clock is ahead.  Requests may *)
(* be executed late.                                                           *)
THEOREM FixedReportsLeastDelay ==
    ASSUME MaxLead = 0
    PROVE  Spec => [](algorithm = "fixed" => RetryIsLeast)
<1> DEFINE Inv == algorithm = "fixed" => FixedOK /\ Begun
<1>1. Init => Inv
  <2>1. Init => Begun  BY DEF Init, Begun
  <2> QED  BY <2>1, FixedInit
<1>2. Inv /\ [Next]_vars => Inv'
  <2> SUFFICES ASSUME Inv, [Next]_vars, algorithm' = "fixed" PROVE FixedOK' /\ Begun'
    OBVIOUS
  <2>1. algorithm = "fixed"  BY SameAlgorithm
  <2> QED  BY <2>1, FixedOKStep, BegunStep
<1>3. Inv => (algorithm = "fixed" => RetryIsLeast)
  <2>1. SUFFICES ASSUME Inv, algorithm = "fixed", NEW n \in Amounts, Count(n) \in 1 .. Capacity,
                        ~Decision(Count(n), now).ok
                 PROVE  LET r == Decision(Count(n), now).retry
                        IN  /\ r > 0
                            /\ \A k \in 1 .. r - 1 : ~Retried(Count(n), k).ok
                            /\ Retried(Count(n), r).ok
    BY DEF RetryIsLeast
  <2> DEFINE m == Count(n)
  <2>2. m \in 1 .. Capacity /\ ~Decision(m, now).ok  BY <2>1
  <2> HIDE DEF m
  <2>3. LET r == Decision(m, now).retry
        IN  /\ r > 0
            /\ \A k \in 1 .. r - 1 : ~Retried(m, k).ok
            /\ Retried(m, r).ok
    BY <2>1, <2>2, FixedRetries
  <2> QED  BY <2>3, Zenon DEF m
<1> QED  BY <1>1, <1>2, <1>3, PTL DEF Spec

\* The counter of the present window holds what was admitted in it.
FixedExact ==
    LET w == now \div Window
    IN  w \in DOMAIN store => store[w].value = spent[Window * w][now]

(* Before a request of the present window is executed, its counter, or zero if *)
(* there is none, is what was admitted since the window began.                 *)
LEMMA PresentCount ==
    ASSUME MaxDelay = 0, FixedOK, algorithm = "fixed", FixedInv, FixedExact
    PROVE  LET w == now \div Window
           IN  /\ w \in Int /\ Window * w \in Times /\ Window * w <= now /\ now < Window * w + Window
               /\ now \in Times /\ now \in Nat
               /\ Value(now) = spent[Window * w][now]
<1> DEFINE w == now \div Window
           a == Window * w
<1>1. /\ now \in 0 .. MaxTime /\ Capacity \in Nat /\ MaxTime \in Nat /\ MaxLead \in Nat
      /\ spent \in [Times -> [Times -> Nat]]
  BY RateAssumption DEF FixedOK, CallOK, TypeOK
<1>2. Window \in Nat /\ Window > 0  BY WindowType DEF FixedOK, Windowed
<1>3. w \in Int /\ a <= now /\ now < a + Window
  BY <1>1, <1>2, WindowOf
<1>4. a \in Int  BY <1>2, <1>3, WindowTimes
<1>5. a >= 0
  <2>1. /\ Window * (w + 1) = a + Window /\ Window * 0 = 0
        /\ w <= -1 => Window * (w + 1) <= Window * 0
    BY <1>2, <1>3, WindowTimes
  <2>2. w >= 0  BY <1>1, <1>2, <1>3, <1>4, <2>1
  <2>3. Window * 0 <= Window * w  BY <1>2, <1>3, <2>2, WindowTimes
  <2> QED  BY <2>1, <2>3
<1>6. a \in Times /\ now \in Times  BY <1>1, <1>3, <1>4, <1>5 DEF Times
<1>7. a \div Window = w
  BY <1>2, <1>3, <1>4, WindowOf
<1>8. Value(now) = IF w \in DOMAIN store THEN store[w].value ELSE 0
  BY <1>1, FixedScript
<1>9. w \notin DOMAIN store => spent[a][now] = 0
  <2>1. Counted(a, now)  BY <1>3, <1>6, <1>7, Zenon DEF FixedInv
  <2>2. ~(Window * (w + 1) <= now - MaxDelay)
    <3>1. Window * (w + 1) = a + Window  BY <1>2, <1>3, WindowTimes, Zenon
    <3> QED  BY <1>1, <1>2, <1>3, <1>4, <3>1
  <2> QED  BY <1>7, <2>1, <2>2 DEF Counted
<1>10. Value(now) = spent[a][now]
  BY <1>8, <1>9 DEF FixedExact
<1> QED  BY <1>1, <1>3, <1>6, <1>10

(* Executing, deleting and letting time pass keep the count exact.             *)
LEMMA FixedExactStep ==
    ASSUME MaxDelay = 0, MaxLead = 0, FixedOK, algorithm = "fixed", FixedInv, Begun, Past,
           FixedExact, [Next]_vars
    PROVE  FixedExact'
<1> DEFINE w == now \div Window
           a == Window * w
<1>1. CallOK /\ lead \in [Clients -> {0}] /\ spent \in [Times -> [Times -> Nat]]
  BY DEF FixedOK, CallOK, TypeOK
<1>2. Window \in Nat /\ Window > 0  BY WindowType, Zenon DEF FixedOK, Windowed
<1>3. /\ w \in Int /\ a \in Times /\ a <= now /\ now < a + Window
      /\ now \in Times /\ now \in Nat
      /\ Value(now) = spent[a][now]
  BY PresentCount
<1>4. w \in DOMAIN store => store[w].value = spent[a][now]  BY DEF FixedExact
<1>5. CASE CallStep
  <2>1. UNCHANGED <<now, store, spent>>  BY <1>1, <1>5, CallStepKeeps, Zenon
  <2> QED  BY <2>1 DEF FixedExact
<1>6. ASSUME NEW c \in Clients, Serve(c) PROVE FixedExact'
  <2> DEFINE d == Verdict(c)
  <2>1. /\ Stamp(c) \in now - MaxDelay .. now + MaxLead /\ call[c].n \in Nat /\ now' = now
        /\ \A x, y \in Times :
              spent'[x][y] = spent[x][y]
                  + (IF Admits(c) /\ x <= Stamp(c) /\ Stamp(c) <= y THEN call[c].n ELSE 0)
    BY <1>1, <1>6, ServeFacts, Zenon
  <2>2. Stamp(c) = now  BY <1>3, <2>1
  <2>3. /\ d.value = Value(now) + (IF d.ok THEN call[c].n ELSE 0)
        /\ Admits(c) <=> d.ok
        /\ store'[w] = [value |-> d.value, ends |-> now + 2 * Window]
    BY <1>6, <2>2, FixedServe, Zenon
  <2> HIDE DEF d, a
  <2>4. spent'[a][now] = spent[a][now] + (IF Admits(c) THEN call[c].n ELSE 0)
    <3>1. now <= now  BY <1>3
    <3> QED  BY <1>3, <2>1, <2>2, <3>1
  <2>5. store'[w].value = spent'[a][now]  BY <1>3, <2>3, <2>4
  <2> QED  BY <2>1, <2>5 DEF FixedExact, a
<1>7. ASSUME NEW c \in Clients, Reset(c) PROVE FixedExact'
  <2>1. now' = now /\ store' = Restrict(store, DOMAIN store \ {KeyOf(now + lead[c])})
    BY <1>1, <1>7, ResetFacts
  <2>2. KeyOf(now + lead[c]) = w
    <3>1. now + lead[c] = now  BY <1>1, <1>3
    <3> QED  BY <3>1 DEF KeyOf
  <2>3. w \notin DOMAIN store'  BY <2>1, <2>2, Zenon DEF Restrict
  <2> QED  BY <2>1, <2>3, Zenon DEF FixedExact
<1>8. CASE Tick
  <2> DEFINE x == (now + 1) \div Window
  <2>1. /\ now' = now + 1 /\ now + 1 \in 0 .. MaxTime
        /\ store' = Restrict(store, {k \in DOMAIN store : store[k].ends > now + 1})
        /\ spent' = spent
    BY <1>1, <1>8, TickFacts, Zenon
  <2>2. now + 1 \in Times /\ now + 1 \in Int  BY <2>1, RateAssumption DEF Times
  <2>3. x \in Int /\ Window * x <= now + 1 /\ now + 1 < Window * x + Window
    BY <1>2, <2>2, WindowOf, Zenon
  <2>4. ASSUME x \in DOMAIN store' PROVE store'[x].value = spent'[Window * x][now + 1]
    <3>1. x \in DOMAIN store /\ store'[x] = store[x]  BY <2>1, <2>4 DEF Restrict
    <3>2. Window * x <= now  BY <3>1 DEF Begun
    <3>3. Window * x \in Int  BY <1>2, <2>3, WindowTimes, Zenon
    <3>4. now < Window * x + Window  BY <1>2, <1>3, <2>3, <3>3
    <3>5. x = w  BY <1>2, <1>3, <2>3, <3>2, <3>4, WindowOf
    <3>6. spent[a][now + 1] = spent[a][now]
      <4>1. now + 1 >= now  BY <1>3
      <4> HIDE DEF a
      <4> QED  BY <1>3, <2>2, <4>1, Zenon DEF Past
    <3> HIDE DEF x, w
    <3> QED  BY <1>4, <2>1, <3>1, <3>5, <3>6, Zenon
  <2> QED  BY <2>1, <2>4, Zenon DEF FixedExact
<1> QED  BY <1>5, <1>6, <1>7, <1>8, StepKinds, Zenon

(* A fixed window that executes requests in the order of their stamps admits a *)
(* request exactly when the capacity was not yet used up in the window.        *)
THEOREM FixedIsExact ==
    ASSUME MaxDelay = 0, MaxLead = 0
    PROVE  Spec => [](algorithm = "fixed" => DecisionIsExact)
<1> DEFINE Inv == algorithm = "fixed" => FixedOK /\ FixedInv /\ Begun /\ Past /\ FixedExact
<1>1. Init => Inv
  <2>1. Init => Begun  BY DEF Init, Begun
  <2>2. Init => FixedExact  BY DEF Init, FixedExact
  <2> QED  BY <2>1, <2>2, FixedInit, PastInit
<1>2. Inv /\ [Next]_vars => Inv'
  <2> SUFFICES ASSUME Inv, [Next]_vars, algorithm' = "fixed"
               PROVE  FixedOK' /\ FixedInv' /\ Begun' /\ Past' /\ FixedExact'
    OBVIOUS
  <2>1. algorithm = "fixed"  BY SameAlgorithm
  <2>2. MaxDelay + MaxLead <= Window
    <3>1. Window \in Nat  BY <2>1, WindowType DEF FixedOK, Windowed
    <3> QED  BY <3>1
  <2>3. CallOK  BY <2>1 DEF FixedOK
  <2> QED  BY <2>1, <2>2, <2>3, FixedOKStep, FixedInvStep, BegunStep, PastStep, FixedExactStep
<1>3. Inv => (algorithm = "fixed" => DecisionIsExact)
  <2>1. SUFFICES ASSUME Inv, algorithm = "fixed", NEW n \in Amounts, Count(n) \in 1 .. Capacity
                 PROVE  Decision(Count(n), now).ok <=> Fair(Count(n))
    BY DEF DecisionIsExact
  <2> DEFINE m == Count(n)
             w == now \div Window
  <2>2. m \in Nat /\ Window \in Nat
    BY <2>1, WindowType, RateAssumption DEF FixedOK, Windowed
  <2>3. w \in Int /\ now \in Int /\ Value(now) = spent[Window * w][now]
    BY <2>1, PresentCount
  <2> HIDE DEF m
  <2>4. Decision(m, now).ok <=> Value(now) + m <= Capacity
    BY <2>1, <2>2, <2>3, FixedScript, Zenon DEF Decision
  <2>5. w * Window = Window * w  BY <2>2, <2>3, WindowTimes
  <2>6. Fair(m) <=> spent[w * Window][now] + m <= Capacity
    BY <2>1, Zenon DEF Fair, Windowed
  <2> HIDE DEF w
  <2>7. Decision(m, now).ok <=> Fair(m)  BY <2>3, <2>4, <2>5, <2>6
  <2> QED  BY <2>7 DEF m
<1> QED  BY <1>1, <1>2, <1>3, PTL DEF Spec

---------------------------------------------------------------------------
(* The sliding window, when requests are executed in the order of their       *)
(* stamps.                                                                    *)

\* What follows counts the entries of the log.
INSTANCE FiniteSetTheorems

(* A set of natural numbers that is not empty has a least one.                *)
LEMMA MinIsLeast ==
    ASSUME NEW T \in SUBSET Nat, T # {}
    PROVE  Min(T) \in T /\ \A n \in T : Min(T) <= n
<1> DEFINE R == {p \in Nat \X Nat : p[1] < p[2]}
<1>1. IsWellFoundedOn(R, Nat)  BY NatLessThanWellFounded DEF OpToRel
<1> HIDE DEF R
<1>2. PICK x \in T : \A y \in T : ~(<<y, x>> \in R)  BY <1>1, WFMin, Zenon
<1>3. \A n \in T : ~(n < x)  BY <1>2, Zenon DEF R
<1>4. x \in Nat /\ \A n \in T : n \in Nat  OBVIOUS
<1>5. \A n \in T : x <= n  BY <1>3, <1>4
<1> QED  BY <1>5, Zenon DEF Min

(* A request for q enters q entries.                                          *)
LEMMA EntriesCount ==
    ASSUME NEW t \in Int, NEW h \in Nat, NEW q \in Nat
    PROVE  LET E == {<<t, h + i>> : i \in 1 .. q}
           IN  IsFiniteSet(E) /\ Cardinality(E) = q
<1> DEFINE E == {<<t, h + i>> : i \in 1 .. q}
           f == [i \in 1 .. q |-> <<t, h + i>>]
<1>1. f \in Bijection(1 .. q, E)
  <2>1. f \in [1 .. q -> E]  OBVIOUS
  <2>2. \A i, j \in 1 .. q : f[i] = f[j] => i = j  OBVIOUS
  <2>3. \A e \in E : \E i \in 1 .. q : f[i] = e  OBVIOUS
  <2> QED  BY <2>1, <2>2, <2>3, Zenon DEF Bijection, Injection, Surjection, IsInjective
<1>2. ExistsBijection(1 .. q, E)  BY <1>1, Zenon DEF ExistsBijection
<1>3. IsFiniteSet(1 .. q) /\ Cardinality(1 .. q) = q  BY FS_Interval
<1> HIDE DEF E
<1>4. IsFiniteSet(E) /\ Cardinality(E) = q  BY <1>2, <1>3, FS_Bijection
<1> QED  BY <1>4 DEF E

Log == IF 0 \in DOMAIN store THEN store[0].value ELSE {}

\* What the script is left with at t.
Purged(t) == {e \in Log : e[1] > t - Window}

With(S, a, b) == {e \in S : a <= e[1] /\ e[1] <= b}

\* The log: the entries of a stamp are numbered, none is of a time to come, and
\* all are kept for longer than a window.
SlidingOK ==
    /\ CallOK /\ DOMAIN store \subseteq {0}
    /\ IsFiniteSet(Log)
    /\ \A e \in Log : /\ e \in Nat \X Nat /\ e[1] <= now
                      /\ e[2] <= Cardinality({f \in Log : f[1] = e[1]})
    /\ 0 \in DOMAIN store =>
          store[0].ends \in Int /\ \A e \in Log : e[1] + 2 * Window <= store[0].ends

\* The log has what was admitted within a window, and that is no more than the
\* capacity.
SlidingInv ==
    \A a, b \in Times : a <= b =>
        /\ a > now - Window => spent[a][b] = Unit * Cardinality(With(Log, a, b))
        /\ b - a < Window => spent[a][b] <= Capacity

(* What the script does to the log.                                           *)
LEMMA SlidingScript ==
    ASSUME SlidingOK, algorithm = "sliding", NEW t \in Int, NEW n \in Nat, NEW placed \in BOOLEAN
    PROVE  LET d == Script(Value(t), n, t, placed)
               L == Purged(t)
           IN  /\ KeyOf(t) = 0 /\ Value(t) = Log
               /\ IsFiniteSet(L) /\ Cardinality(L) \in Nat
               /\ d.ok \in BOOLEAN /\ d.retry \in Int
               /\ d.ok <=> Unit * Cardinality(L) + n <= Capacity
               /\ d.value = IF d.ok /\ ~placed
                            THEN L \cup {<<t, Cardinality({e \in L : e[1] = t}) + i>> :
                                             i \in 1 .. n \div Unit}
                            ELSE L
               /\ ~d.ok /\ L # {} => d.retry = Window - (t - Min({e[1] : e \in L}))
<1> DEFINE L == Purged(t)
           d == Script(Value(t), n, t, placed)
           entries == {<<t, Cardinality({e \in L : e[1] = t}) + i>> : i \in 1 .. n \div Unit}
           stamps == {e[1] : e \in L}
           room == Unit * Cardinality(L) + n <= Capacity
           wait == IF L = {} THEN Window ELSE Window - (t - Min(stamps))
<1>1. KeyOf(t) = 0 /\ Value(t) = Log  BY DEF KeyOf, Value, Missing, Log
<1>2. L \in SUBSET Log /\ IsFiniteSet(Log) /\ \A e \in Log : e[1] \in Nat
  BY Zenon DEF Purged, SlidingOK
<1>3. IsFiniteSet(L) /\ Cardinality(L) \in Nat
  <2>1. IsFiniteSet(L)  BY <1>2, FS_Subset, Zenon
  <2> QED  BY <2>1, FS_CardinalityType, Zenon
<1>4. Window \in Nat /\ Unit \in Nat /\ Capacity \in Nat
  BY WindowType, RateAssumption, Zenon DEF SlidingOK, Windowed
<1>5. L # {} => Min(stamps) \in Nat
  <2>1. ASSUME L # {} PROVE Min(stamps) \in Nat
    <3>1. stamps \in SUBSET Nat  BY <1>2
    <3>2. stamps # {}  BY <2>1, Zenon
    <3> HIDE DEF stamps
    <3> QED  BY <3>1, <3>2, MinIsLeast, Zenon
  <2> QED  BY <2>1
<1>6. wait \in Int
  <2> HIDE DEF stamps, L
  <2> QED  BY <1>4, <1>5
<1>7. d = IF room
          THEN [ok |-> TRUE, value |-> IF placed THEN L ELSE L \cup entries, retry |-> 0]
          ELSE [ok |-> FALSE, value |-> L, retry |-> wait]
  BY <1>1, Zenon DEF Script, Sliding, Purged
<1> HIDE DEF L, entries, wait, d, room
<1>8. /\ d.ok \in BOOLEAN /\ d.retry \in Int /\ (d.ok <=> room)
      /\ d.value = (IF d.ok /\ ~placed THEN L \cup entries ELSE L)
      /\ ~d.ok => d.retry = wait
  <2>1. CASE room
    <3>1. d = [ok |-> TRUE, value |-> IF placed THEN L ELSE L \cup entries, retry |-> 0]
      BY <1>7, <2>1, Zenon
    <3>2. CASE placed
      <4>1. d = [ok |-> TRUE, value |-> L, retry |-> 0]  BY <3>1, <3>2, Zenon
      <4> QED  BY <2>1, <3>2, <4>1
    <3>3. CASE ~placed
      <4>1. d = [ok |-> TRUE, value |-> L \cup entries, retry |-> 0]  BY <3>1, <3>3, Zenon
      <4> QED  BY <2>1, <3>3, <4>1
    <3> QED  BY <3>2, <3>3, Zenon
  <2>2. CASE ~room
    <3>1. d = [ok |-> FALSE, value |-> L, retry |-> wait]  BY <1>7, <2>2, Zenon
    <3> QED  BY <1>6, <2>2, <3>1, Zenon
  <2> QED  BY <2>1, <2>2, Zenon
<1>9. ~d.ok /\ L # {} => d.retry = Window - (t - Min(stamps))
  BY <1>8, Zenon DEF wait
<1> QED  BY <1>1, <1>3, <1>8, <1>9, Zenon DEF L, entries, room, d

(* Cardinalities of disjoint sets add up.                                     *)
LEMMA CountBoth ==
    ASSUME NEW S, NEW E, IsFiniteSet(S), IsFiniteSet(E), S \cap E = {}
    PROVE  /\ Cardinality(S) \in Nat /\ Cardinality(E) \in Nat /\ IsFiniteSet(S \cup E)
           /\ Cardinality(S \cup E) = Cardinality(S) + Cardinality(E)
<1>1. Cardinality(S) \in Nat /\ Cardinality(E) \in Nat  BY FS_CardinalityType
<1>2. Cardinality(S \cap E) = 0  BY FS_EmptySet, Zenon
<1>3. /\ IsFiniteSet(S \cup E)
      /\ Cardinality(S \cup E) = Cardinality(S) + Cardinality(E) - Cardinality(S \cap E)
  BY FS_Union, Zenon
<1> QED  BY <1>1, <1>2, <1>3

(* The parts of the log that are counted are finite.                          *)
LEMMA WithType ==
    ASSUME NEW S, IsFiniteSet(S), NEW a, NEW b
    PROVE  /\ IsFiniteSet(With(S, a, b)) /\ Cardinality(With(S, a, b)) \in Nat
           /\ Cardinality(With(S, a, b)) <= Cardinality(S)
<1>1. With(S, a, b) \in SUBSET S  BY DEF With
<1>2. IsFiniteSet(With(S, a, b)) /\ Cardinality(With(S, a, b)) <= Cardinality(S)
  BY <1>1, FS_Subset, Zenon
<1> QED  BY <1>2, FS_CardinalityType

\* What a request that is executed now adds to what the purge leaves.
Added(c, E) ==
    LET L == Purged(now)
    IN  /\ IsFiniteSet(E) /\ L \cap E = {}
        /\ Unit * Cardinality(E) = (IF Admits(c) THEN call[c].n ELSE 0)
        /\ Admits(c) => Unit * Cardinality(L) + call[c].n <= Capacity
        /\ \A e \in E : /\ e \in Nat \X Nat /\ e[1] = now
                        /\ e[2] <= Cardinality({f \in Log : f[1] = now}) + Cardinality(E)
        /\ Log' = L \cup E

(* Executing a request, for the sliding window.                               *)
LEMMA SlidingServe ==
    ASSUME MaxDelay = 0, MaxLead = 0, SlidingOK, algorithm = "sliding", NEW c \in Clients, Serve(c)
    PROVE  /\ Stamp(c) = now /\ CallOK'
           /\ DOMAIN store' = {0} /\ store'[0].ends = now + 2 * Window
           /\ \E E : Added(c, E)
<1> DEFINE d == Verdict(c)
           n == call[c].n
           placed == call[c].placed
           L == Purged(now)
           here == Cardinality({e \in L : e[1] = now})
<1>1. /\ CallOK /\ Window \in Nat /\ Window > 0 /\ now \in Nat /\ Unit \in Nat \ {0}
      /\ Capacity \in Nat /\ call[c].placed \in BOOLEAN
  BY WindowType, RateAssumption DEF SlidingOK, CallOK, TypeOK, Windowed
<1>2. /\ Stamp(c) \in now - MaxDelay .. now + MaxLead /\ n \in Nat
      /\ store' = Put(store, KeyOf(Stamp(c)), [value |-> d.value, ends |-> now + Lifetime])
      /\ d.ok \in BOOLEAN /\ d.retry \in Int => CallOK'
  BY <1>1, ServeFacts, Zenon
<1>3. Stamp(c) = now
  <2>1. Stamp(c) \in now - MaxDelay .. now + MaxLead /\ now \in Nat  BY <1>1, <1>2, Zenon
  <2> QED  BY <2>1
<1>4. d = Script(Value(now), n, now, placed) /\ placed \in BOOLEAN /\ now \in Int
  BY <1>1, <1>3 DEF Verdict
<1> HIDE DEF d, n, placed
<1>5. /\ KeyOf(now) = 0 /\ IsFiniteSet(L) /\ Cardinality(L) \in Nat
      /\ d.ok \in BOOLEAN /\ d.retry \in Int
      /\ d.ok <=> Unit * Cardinality(L) + n <= Capacity
      /\ d.value = IF d.ok /\ ~placed
                   THEN L \cup {<<now, here + i>> : i \in 1 .. n \div Unit}
                   ELSE L
  BY <1>1, <1>2, <1>4, SlidingScript, Zenon
<1>6. Admits(c) <=> d.ok /\ ~placed  BY DEF Admits, d, placed
<1>7. Lifetime = 2 * Window  BY DEF Lifetime, Windowed
<1>8. DOMAIN store' = {0} /\ store'[0] = [value |-> d.value, ends |-> now + 2 * Window]
  BY <1>2, <1>3, <1>5, <1>7, Zenon DEF Put, SlidingOK
<1>9. Log' = d.value  BY <1>8 DEF Log
<1>10. {e \in L : e[1] = now} = {f \in Log : f[1] = now}
  BY <1>1 DEF Purged
<1>11. here \in Nat
  <2>1. {e \in L : e[1] = now} \in SUBSET L  BY Zenon
  <2>2. IsFiniteSet({e \in L : e[1] = now})  BY <1>5, <2>1, FS_Subset, Zenon
  <2> QED  BY <2>2, FS_CardinalityType
<1>12. \E E : Added(c, E)
  <2>1. CASE Admits(c)
    <3>1. PICK q \in Nat : n = Unit * q
      BY <1>1, Zenon DEF CallOK, Whole, Windowed, n
    <3>2. n \div Unit = q  BY <1>1, <3>1
    <3> DEFINE E == {<<now, here + i>> : i \in 1 .. q}
    <3> HIDE DEF here
    <3>3. IsFiniteSet(E) /\ Cardinality(E) = q  BY <1>4, <1>11, EntriesCount, Zenon
    <3>4. \A e \in E : e \in Nat \X Nat /\ e[1] = now /\ e[2] > here /\ e[2] <= here + q
      BY <1>1, <1>11
    <3>5. L \cap E = {}
      <4>1. \A e \in L : e \in Nat \X Nat /\ e[2] <= Cardinality({f \in Log : f[1] = e[1]})
        BY Zenon DEF Purged, SlidingOK
      <4>2. \A e \in L : e[1] = now => e[2] <= here  BY <1>10, <4>1, Zenon DEF here
      <4>3. ASSUME NEW e \in L, e \in E PROVE FALSE
        <5>1. e \in Nat \X Nat /\ e[2] > here /\ e[2] <= here  BY <3>4, <4>2, <4>3, Zenon
        <5>2. e[2] \in Nat  BY <5>1, Zenon
        <5> QED  BY <1>11, <5>1, <5>2
      <4> QED  BY <4>3
    <3>6. Log' = L \cup E  BY <1>5, <1>6, <1>9, <2>1, <3>2, Zenon
    <3>7. here = Cardinality({f \in Log : f[1] = now})  BY <1>10, Zenon DEF here
    <3>8. Unit * Cardinality(L) + n <= Capacity  BY <1>5, <1>6, <2>1, Zenon
    <3> HIDE DEF E, L
    <3>9. Added(c, E)
      BY <2>1, <3>1, <3>3, <3>4, <3>5, <3>6, <3>7, <3>8, Zenon DEF Added, L, n
    <3> QED  BY <3>9, Zenon
  <2>2. CASE ~Admits(c)
    <3>1. Log' = L \cup {}  BY <1>5, <1>6, <1>9, <2>2, Zenon
    <3>2. IsFiniteSet({}) /\ Cardinality({}) = 0  BY FS_EmptySet, Zenon
    <3>3. Unit * Cardinality({}) = 0  BY <1>1, <3>2
    <3>4. Added(c, {})  BY <2>2, <3>1, <3>2, <3>3, Zenon DEF Added
    <3> QED  BY <3>4, Zenon
  <2> QED  BY <2>1, <2>2, Zenon
<1>13. CallOK'  BY <1>2, <1>5, Zenon
<1> QED  BY <1>3, <1>8, <1>12, <1>13

(* The log stays in order when a request is executed.                         *)
LEMMA SlidingServeOK ==
    ASSUME MaxDelay = 0, MaxLead = 0, SlidingOK, algorithm = "sliding", NEW c \in Clients, Serve(c)
    PROVE  SlidingOK'
<1> DEFINE L == Purged(now)
<1>1. /\ CallOK /\ Window \in Nat /\ Window > 0 /\ now \in Nat /\ IsFiniteSet(Log)
      /\ now' = now
  BY WindowType, RateAssumption DEF SlidingOK, CallOK, TypeOK, Windowed, Serve
<1>2. CallOK' /\ DOMAIN store' = {0} /\ store'[0].ends = now + 2 * Window
  BY SlidingServe, Zenon
<1>3. PICK E : Added(c, E)  BY SlidingServe, Zenon
<1>4. /\ IsFiniteSet(E) /\ L \cap E = {} /\ Log' = L \cup E
      /\ \A e \in E : /\ e \in Nat \X Nat /\ e[1] = now
                      /\ e[2] <= Cardinality({f \in Log : f[1] = now}) + Cardinality(E)
  BY <1>3, Zenon DEF Added
<1>5. /\ L \in SUBSET Log
      /\ \A e \in L : /\ e \in Nat \X Nat /\ e[1] <= now /\ e[1] > now - Window
                      /\ e[2] <= Cardinality({f \in Log : f[1] = e[1]})
  BY Zenon DEF Purged, SlidingOK
<1>6. IsFiniteSet(L)  BY <1>1, <1>5, FS_Subset, Zenon
<1>7. IsFiniteSet(L \cup E)  BY <1>4, <1>6, CountBoth, Zenon
<1>8. ASSUME NEW e \in L \cup E PROVE e[2] <= Cardinality({f \in L \cup E : f[1] = e[1]})
  <2> DEFINE T == {f \in L \cup E : f[1] = e[1]}
             S == {f \in Log : f[1] = e[1]}
  <2>1. T \in SUBSET (L \cup E) /\ S \in SUBSET Log  BY Zenon
  <2>2. IsFiniteSet(T) /\ IsFiniteSet(S)  BY <1>1, <1>7, <2>1, FS_Subset, Zenon
  <2>3. Cardinality(T) \in Nat /\ Cardinality(S) \in Nat  BY <2>2, FS_CardinalityType, Zenon
  <2>4. S \in SUBSET T /\ S \in SUBSET L
    <3>1. e \in E => e[1] > now - Window
      <4>1. now > now - Window  BY <1>1
      <4> QED  BY <1>4, <4>1, Zenon
    <3>2. e[1] > now - Window  BY <1>5, <3>1, Zenon
    <3> QED  BY <3>2 DEF Purged
  <2>5. e[2] \in Nat  BY <1>4, <1>5, Zenon
  <2>6. CASE e \in L
    <3>1. e[2] <= Cardinality(S)  BY <1>5, <2>6, Zenon
    <3>2. Cardinality(S) <= Cardinality(T)  BY <2>2, <2>4, FS_Subset, Zenon
    <3> HIDE DEF S, T
    <3>3. e[2] <= Cardinality(T)  BY <2>3, <2>5, <3>1, <3>2
    <3> QED  BY <3>3, Zenon DEF T
  <2>7. CASE e \in E
    <3>1. e[1] = now  BY <1>4, <2>7, Zenon
    <3>2. e[2] <= Cardinality(S) + Cardinality(E)  BY <1>4, <2>7, <3>1, Zenon
    <3>3. T = S \cup E /\ S \cap E = {}
      <4>1. \A f \in E : f[1] = now  BY <1>4, Zenon
      <4>2. \A f \in L : f \in Log  BY <1>5, Zenon
      <4> QED  BY <1>4, <2>4, <3>1, <4>1, <4>2, Zenon
    <3> HIDE DEF S, T
    <3>4. Cardinality(T) = Cardinality(S) + Cardinality(E)  BY <1>4, <2>2, <3>3, CountBoth, Zenon
    <3>5. e[2] <= Cardinality(T)  BY <3>2, <3>4
    <3> QED  BY <3>5 DEF T
  <2> QED  BY <2>6, <2>7, Zenon
<1>9. \A e \in L \cup E : e \in Nat \X Nat /\ e[1] <= now
  <2>1. now <= now  BY <1>1
  <2> QED  BY <1>4, <1>5, <2>1, Zenon
<1>10. \A e \in L \cup E : e[1] + 2 * Window <= now + 2 * Window
  <2>1. \A e \in L \cup E : e[1] \in Nat /\ e[1] <= now  BY <1>9
  <2> QED  BY <1>1, <2>1
<1>11. now + 2 * Window \in Int  BY <1>1
<1> HIDE DEF L
<1>12. /\ IsFiniteSet(Log')
       /\ \A e \in Log' : /\ e \in Nat \X Nat /\ e[1] <= now'
                          /\ e[2] <= Cardinality({f \in Log' : f[1] = e[1]})
  BY <1>1, <1>4, <1>7, <1>8, <1>9, Zenon
<1>13. store'[0].ends \in Int /\ \A e \in Log' : e[1] + 2 * Window <= store'[0].ends
  BY <1>2, <1>4, <1>10, <1>11, Zenon
<1> QED  BY <1>2, <1>12, <1>13, Zenon DEF SlidingOK

(* The log is exact after a request is executed.                              *)
LEMMA SlidingServeKeeps ==
    ASSUME MaxDelay = 0, MaxLead = 0, SlidingOK, algorithm = "sliding", SlidingInv,
           NEW c \in Clients, Serve(c)
    PROVE  SlidingInv'
<1> DEFINE L == Purged(now)
           n == call[c].n
<1>1. /\ CallOK /\ Window \in Nat /\ Window > 0 /\ now \in Nat /\ IsFiniteSet(Log)
      /\ Unit \in Nat /\ Capacity \in Nat /\ Times \subseteq Int
      /\ spent \in [Times -> [Times -> Nat]]
  <2>1. Window \in Nat /\ Window > 0  BY WindowType, Zenon DEF SlidingOK, Windowed
  <2>2. Times \subseteq Int  BY RateAssumption DEF Times
  <2> QED  BY <2>1, <2>2, RateAssumption DEF SlidingOK, CallOK, TypeOK
<1>2. Stamp(c) = now  BY SlidingServe
<1>3. /\ now' = now /\ n \in Nat
      /\ \A a, b \in Times :
            spent'[a][b] = spent[a][b] + (IF Admits(c) /\ a <= now /\ now <= b THEN n ELSE 0)
  BY <1>1, <1>2, ServeFacts, Zenon
<1>4. PICK E : Added(c, E)  BY SlidingServe
<1>5. /\ IsFiniteSet(E) /\ L \cap E = {} /\ Log' = L \cup E
      /\ Unit * Cardinality(E) = (IF Admits(c) THEN n ELSE 0)
      /\ Admits(c) => Unit * Cardinality(L) + n <= Capacity
      /\ \A e \in E : e[1] = now
  BY <1>4, Zenon DEF Added
<1>6. L \in SUBSET Log /\ \A e \in Log : e[1] \in Nat /\ e[1] <= now
  BY Zenon DEF Purged, SlidingOK
<1>7. IsFiniteSet(L)  BY <1>1, <1>6, FS_Subset, Zenon
<1> HIDE DEF n
<1>8. ASSUME NEW a \in Times, NEW b \in Times, a <= b, a > now - Window
      PROVE  spent'[a][b] = Unit * Cardinality(With(Log', a, b))
  <2> DEFINE S == With(Log, a, b)
  <2>1. IsFiniteSet(S) /\ Cardinality(S) \in Nat  BY <1>1, WithType, Zenon
  <2>2. spent[a][b] = Unit * Cardinality(S)  BY <1>8, Zenon DEF SlidingInv
  <2>3. S = With(L, a, b)  BY <1>1, <1>6, <1>8 DEF With, Purged
  <2>4. CASE a <= now /\ now <= b
    <3>1. With(L \cup E, a, b) = S \cup E  BY <1>5, <2>3, <2>4, Zenon DEF With
    <3>2. S \cap E = {}  BY <1>5, <2>3 DEF With
    <3> HIDE DEF S
    <3>3. Cardinality(S \cup E) = Cardinality(S) + Cardinality(E) /\ Cardinality(E) \in Nat
      BY <1>5, <2>1, <3>2, CountBoth, Zenon
    <3>4. Unit * (Cardinality(S) + Cardinality(E)) = Unit * Cardinality(S) + Unit * Cardinality(E)
      BY <1>1, <2>1, <3>3
    <3>5. spent'[a][b] = spent[a][b] + (IF Admits(c) THEN n ELSE 0)  BY <1>3, <2>4, Zenon
    <3>6. spent'[a][b] = Unit * Cardinality(S) + Unit * Cardinality(E)  BY <1>5, <2>2, <3>5, Zenon
    <3> QED  BY <1>5, <3>1, <3>3, <3>4, <3>6, Zenon
  <2>5. CASE ~(a <= now /\ now <= b)
    <3>1. With(L \cup E, a, b) = S  BY <1>5, <2>3, <2>5, Zenon DEF With
    <3>2. spent'[a][b] = spent[a][b]  BY <1>1, <1>3, <2>5
    <3> QED  BY <1>5, <2>2, <3>1, <3>2, Zenon
  <2> QED  BY <2>4, <2>5, Zenon
<1>9. ASSUME NEW a \in Times, NEW b \in Times, a <= b, b - a < Window
      PROVE  spent'[a][b] <= Capacity
  <2>1. spent[a][b] <= Capacity /\ spent[a][b] \in Nat  BY <1>1, <1>9, Zenon DEF SlidingInv
  <2>2. CASE Admits(c) /\ a <= now /\ now <= b
    <3> DEFINE S == With(Log, a, b)
    <3>1. a > now - Window  BY <1>1, <1>9, <2>2
    <3>2. S = With(L, a, b)  BY <1>1, <1>6, <3>1 DEF With, Purged
    <3>3. /\ Cardinality(S) \in Nat /\ Cardinality(S) <= Cardinality(L)
      BY <1>7, <3>2, WithType, Zenon
    <3>4. Cardinality(L) \in Nat  BY <1>7, FS_CardinalityType, Zenon
    <3>5. spent[a][b] = Unit * Cardinality(S)  BY <1>9, <3>1, Zenon DEF SlidingInv
    <3> HIDE DEF S, L
    <3>6. Unit * Cardinality(S) <= Unit * Cardinality(L)
      <4>1. Unit * (Cardinality(L) - Cardinality(S)) >= 0  BY <1>1, <3>3, <3>4
      <4>2. Unit * (Cardinality(L) - Cardinality(S)) = Unit * Cardinality(L) - Unit * Cardinality(S)
        BY <1>1, <3>3, <3>4
      <4>3. Unit * Cardinality(L) \in Int /\ Unit * Cardinality(S) \in Int  BY <1>1, <3>3, <3>4
      <4> QED  BY <4>1, <4>2, <4>3
    <3>7. Unit * Cardinality(L) \in Int  BY <1>1, <3>4
    <3>8. spent'[a][b] = spent[a][b] + n  BY <1>3, <2>2, Zenon
    <3>9. Unit * Cardinality(L) + n <= Capacity  BY <1>5, <2>2, Zenon
    <3> QED  BY <1>1, <1>3, <2>1, <3>5, <3>6, <3>7, <3>8, <3>9
  <2>3. CASE ~(Admits(c) /\ a <= now /\ now <= b)
    <3>1. spent'[a][b] = spent[a][b]  BY <1>3, <2>1, <2>3
    <3> QED  BY <2>1, <3>1, Zenon
  <2> QED  BY <2>2, <2>3, Zenon
<1> QED  BY <1>3, <1>8, <1>9, Zenon DEF SlidingInv, With

(* Both hold of an empty log when nothing was admitted.                       *)
LEMMA EmptyLog ==
    ASSUME CallOK, DOMAIN store = {}, \A a, b \in Times : spent[a][b] = 0
    PROVE  SlidingOK /\ SlidingInv
<1>1. IsFiniteSet({}) /\ Cardinality({}) = 0 /\ Unit \in Nat /\ Capacity \in Nat
  BY FS_EmptySet, RateAssumption, Zenon
<1>2. Log = {}  BY DEF Log
<1>3. \A a, b : With(Log, a, b) = {}  BY <1>2, Zenon DEF With
<1>4. Unit * Cardinality({}) = 0  BY <1>1
<1>5. SlidingOK  BY <1>1, <1>2, Zenon DEF SlidingOK
<1>6. SlidingInv
  <2>1. \A a, b \in Times : spent[a][b] = Unit * Cardinality(With(Log, a, b))  BY <1>3, <1>4, Zenon
  <2>2. \A a, b \in Times : spent[a][b] <= Capacity  BY <1>1
  <2> QED  BY <2>1, <2>2 DEF SlidingInv
<1> QED  BY <1>5, <1>6, Zenon

(* A log that expires has no entry of the last window.                        *)
LEMMA SlidingTick ==
    ASSUME SlidingOK, algorithm = "sliding", SlidingInv, Tick
    PROVE  SlidingOK' /\ SlidingInv'
<1>1. /\ CallOK /\ now \in Nat /\ IsFiniteSet(Log) /\ Unit \in Nat /\ DOMAIN store \subseteq {0}
      /\ 0 \in DOMAIN store => store[0].ends \in Int /\ \A e \in Log : e[1] + 2 * Window <= store[0].ends
  BY RateAssumption DEF SlidingOK, CallOK, TypeOK
<1>2. Window \in Nat /\ Window > 0 /\ Times \subseteq Int
  BY <1>1, WindowType, RateAssumption DEF Windowed, Times
<1>3. /\ CallOK' /\ now' = now + 1 /\ spent' = spent
      /\ store' = Restrict(store, {k \in DOMAIN store : store[k].ends > now + 1})
  BY <1>1, TickFacts
<1>4. \A e \in Log : /\ e \in Nat \X Nat /\ e[1] <= now
                     /\ e[2] <= Cardinality({f \in Log : f[1] = e[1]})
  BY Zenon DEF SlidingOK
<1>5. \A e \in Log : e[1] \in Nat /\ e[1] <= now /\ e[1] <= now'
  <2>1. \A e \in Log : e[1] \in Nat /\ e[1] <= now  BY <1>4, Zenon
  <2> QED  BY <1>1, <1>3, <2>1
<1>6. CASE 0 \in DOMAIN store'
  <2>1. 0 \in DOMAIN store /\ store'[0] = store[0] /\ DOMAIN store' = {0}
    BY <1>1, <1>3, <1>6, Zenon DEF Restrict
  <2>2. Log' = Log  BY <1>6, <2>1 DEF Log
  <2>3. SlidingOK'  BY <1>1, <1>3, <1>4, <1>5, <2>1, <2>2, Zenon DEF SlidingOK
  <2>4. ASSUME NEW a \in Times, NEW b \in Times, a <= b
        PROVE  /\ a > now' - Window => spent'[a][b] = Unit * Cardinality(With(Log', a, b))
               /\ b - a < Window => spent'[a][b] <= Capacity
    <3>1. a > now' - Window => a > now - Window  BY <1>1, <1>2, <1>3
    <3> QED  BY <1>3, <2>2, <2>4, <3>1, Zenon DEF SlidingInv
  <2>5. SlidingInv'  BY <2>4, Zenon DEF SlidingInv, With
  <2> QED  BY <2>3, <2>5, Zenon
<1>7. CASE 0 \notin DOMAIN store'
  <2>1. DOMAIN store' = {}  BY <1>1, <1>3, <1>7, Zenon DEF Restrict
  <2>2. IsFiniteSet({}) /\ Cardinality({}) = 0  BY FS_EmptySet, Zenon
  <2>3. Log' = {}  BY <1>7 DEF Log
  <2>4. SlidingOK'  BY <1>3, <2>1, <2>2, <2>3, Zenon DEF SlidingOK
  <2>5. \A e \in Log : e[1] + 2 * Window <= now + 1
    <3>1. CASE 0 \in DOMAIN store
      <4>1. store[0].ends \in Int /\ ~(store[0].ends > now + 1)
        BY <1>1, <1>3, <1>7, <3>1, Zenon DEF Restrict
      <4> QED  BY <1>1, <1>2, <1>5, <3>1, <4>1
    <3>2. CASE 0 \notin DOMAIN store
      BY <3>2, Zenon DEF Log
    <3> QED  BY <3>1, <3>2, Zenon
  <2>6. ASSUME NEW a \in Times, NEW b \in Times, a <= b
        PROVE  /\ a > now' - Window => spent'[a][b] = Unit * Cardinality(With(Log', a, b))
               /\ b - a < Window => spent'[a][b] <= Capacity
    <3>1. ASSUME a > now' - Window PROVE spent'[a][b] = Unit * Cardinality(With(Log', a, b))
      <4>1. a > now - Window  BY <1>1, <1>2, <1>3, <3>1
      <4>2. With(Log, a, b) = {}
        <5>1. ASSUME NEW e \in Log PROVE ~(a <= e[1])
          <6>1. e[1] \in Nat /\ e[1] + 2 * Window <= now + 1  BY <1>5, <2>5, Zenon
          <6>2. now' = now + 1  BY <1>3, Zenon
          <6>3. a > now + 1 - Window  BY <1>1, <1>2, <3>1, <6>2
          <6> QED  BY <1>1, <1>2, <6>1, <6>3
        <5> QED  BY <5>1, Zenon DEF With
      <4>3. With(Log', a, b) = {}  BY <2>3, Zenon DEF With
      <4> QED  BY <1>3, <2>6, <4>1, <4>2, <4>3, Zenon DEF SlidingInv
    <3> QED  BY <1>3, <2>6, <3>1, Zenon DEF SlidingInv
  <2>7. SlidingInv'  BY <2>6 DEF SlidingInv, With
  <2> QED  BY <2>4, <2>7
<1> QED  BY <1>6, <1>7, Zenon

(* Every step keeps the log exact.                                            *)
LEMMA SlidingStep ==
    ASSUME MaxDelay = 0, MaxLead = 0, SlidingOK, algorithm = "sliding", SlidingInv, [Next]_vars
    PROVE  SlidingOK' /\ SlidingInv'
<1>1. CallOK  BY DEF SlidingOK
<1>2. CASE CallStep
  <2>1. CallOK' /\ UNCHANGED <<now, store, spent>>  BY <1>1, <1>2, CallStepKeeps, Zenon
  <2>2. Log' = Log  BY <2>1 DEF Log
  <2>3. SlidingOK'  BY <2>1, <2>2, Zenon DEF SlidingOK
  <2>4. SlidingInv'  BY <2>1, <2>2, Zenon DEF SlidingInv, With
  <2> QED  BY <2>3, <2>4, Zenon
<1>3. ASSUME NEW c \in Clients, Serve(c) PROVE SlidingOK' /\ SlidingInv'
  BY <1>3, SlidingServeOK, SlidingServeKeeps, Zenon
<1>4. ASSUME NEW c \in Clients, Reset(c) PROVE SlidingOK' /\ SlidingInv'
  <2>1. /\ CallOK' /\ \A a, b \in Times : spent'[a][b] = 0
        /\ store' = Restrict(store, DOMAIN store \ {KeyOf(now + lead[c])})
    BY <1>1, <1>4, ResetFacts, Zenon
  <2>2. KeyOf(now + lead[c]) = 0 /\ DOMAIN store \subseteq {0}  BY Zenon DEF KeyOf, SlidingOK
  <2>3. DOMAIN store' = {}  BY <2>1, <2>2, Zenon DEF Restrict
  <2>4. IsFiniteSet({}) /\ Cardinality({}) = 0 /\ Unit \in Nat /\ Capacity \in Nat
    BY FS_EmptySet, RateAssumption, Zenon
  <2>5. Log' = {}  BY <2>3, Zenon DEF Log
  <2>6. Unit * Cardinality({}) = 0  BY <2>4
  <2>7. SlidingOK'  BY <2>1, <2>3, <2>4, <2>5, Zenon DEF SlidingOK
  <2>8. \A a, b \in Times :
           spent'[a][b] = Unit * Cardinality(With(Log', a, b)) /\ spent'[a][b] <= Capacity
    <3>1. \A a, b : With(Log', a, b) = {}  BY <2>5 DEF With
    <3>2. \A a, b \in Times : spent'[a][b] = Unit * Cardinality(With(Log', a, b))
      BY <2>1, <2>6, <3>1, Zenon
    <3> QED  BY <2>1, <2>4, <3>2
  <2>9. SlidingInv'  BY <2>8, Zenon DEF SlidingInv, With
  <2> QED  BY <2>7, <2>9, Zenon
<1>5. CASE Tick
  BY <1>5, SlidingTick
<1> QED  BY <1>2, <1>3, <1>4, <1>5, StepKinds, Zenon

(* What the sliding window keeps, and in which states it does.                 *)
LEMMA SlidingKept ==
    ASSUME MaxDelay = 0, MaxLead = 0
    PROVE  Spec => [](algorithm = "sliding" => SlidingOK /\ SlidingInv)
<1> DEFINE Inv == algorithm = "sliding" => SlidingOK /\ SlidingInv
<1>1. Init => Inv
  <2> SUFFICES ASSUME Init PROVE SlidingOK /\ SlidingInv
    BY Zenon
  <2>1. CallOK /\ DOMAIN store = {} /\ \A a, b \in Times : spent[a][b] = 0
    BY CallInit DEF Init
  <2> QED  BY <2>1, EmptyLog
<1>2. Inv /\ [Next]_vars => Inv'
  <2> SUFFICES ASSUME Inv, [Next]_vars, algorithm' = "sliding" PROVE SlidingOK' /\ SlidingInv'
    OBVIOUS
  <2>1. algorithm = "sliding"  BY SameAlgorithm, Zenon
  <2> QED  BY <2>1, SlidingStep, Zenon
<1> QED  BY <1>1, <1>2, PTL DEF Spec

(* What the purge leaves is what was admitted within the last window.         *)
LEMMA PurgedCount ==
    ASSUME SlidingOK, algorithm = "sliding", SlidingInv
    PROVE  LET a == Max({0, now - Window + 1})
           IN  /\ spent[a][now] = Unit * Cardinality(Purged(now))
               /\ Unit * Cardinality(Purged(now)) <= Capacity
<1> DEFINE a == Max({0, now - Window + 1})
<1>1. now \in 0 .. MaxTime /\ MaxTime \in Nat /\ MaxLead \in Nat
  BY RateAssumption, Zenon DEF SlidingOK, CallOK, TypeOK
<1>2. Window \in Nat /\ Window > 0  BY WindowType DEF SlidingOK, Windowed
<1>3. \A e \in Log : e[1] \in Nat /\ e[1] <= now  BY Zenon DEF SlidingOK
<1>4. a \in Int /\ a >= 0 /\ a >= now - Window + 1 /\ (a = 0 \/ a = now - Window + 1)
  <2> DEFINE x == now - Window + 1
  <2>1. x \in Int  BY <1>1, <1>2
  <2> HIDE DEF x
  <2>2. Max({0, x}) \in Int /\ Max({0, x}) >= 0 /\ Max({0, x}) >= x /\ (Max({0, x}) = 0 \/ Max({0, x}) = x)
    <3>1. \E y \in {0, x} : \A z \in {0, x} : y >= z  BY <2>1
    <3> QED  BY <2>1, <3>1 DEF Max
  <2> QED  BY <2>2 DEF x
<1> HIDE DEF a
<1>5. a \in Times /\ now \in Times /\ a <= now /\ now - a < Window /\ a > now - Window
  BY <1>1, <1>2, <1>4 DEF Times
<1>6. With(Log, a, now) = Purged(now)
  <2>1. ASSUME NEW e \in Log PROVE a <= e[1] /\ e[1] <= now <=> e[1] > now - Window
    <3>1. e[1] \in Nat /\ e[1] <= now  BY <1>3, Zenon
    <3> QED  BY <1>1, <1>2, <1>4, <3>1
  <2> QED  BY <2>1, Zenon DEF With, Purged
<1>7. spent[a][now] = Unit * Cardinality(With(Log, a, now)) /\ spent[a][now] <= Capacity
  BY <1>5 DEF SlidingInv
<1> QED  BY <1>6, <1>7, Zenon DEF a

(* A sliding window that executes requests in the order of their stamps never *)
(* admits more than its capacity within a window, whatever is sent again.     *)
THEOREM SlidingKeepsBudget ==
    ASSUME MaxDelay = 0, MaxLead = 0
    PROVE  Spec => [](algorithm = "sliding" => BudgetKept)
<1>1. (algorithm = "sliding" => SlidingOK /\ SlidingInv) => (algorithm = "sliding" => BudgetKept)
  <2> SUFFICES ASSUME algorithm = "sliding", SlidingOK, SlidingInv,
                      NEW a \in Times, NEW b \in Times, a <= b
               PROVE  spent[a][b] <= Budget(a, b)
    BY Zenon DEF BudgetKept
  <2>1. spent[a][b] \in Nat  BY DEF SlidingOK, CallOK, TypeOK
  <2>2. Budget(a, b) = IF b - a < Window THEN Capacity ELSE spent[a][b]
    BY Zenon DEF Budget, Windowed
  <2> QED  BY <2>1, <2>2 DEF SlidingInv
<1> QED  BY <1>1, SlidingKept, PTL

(* It admits a request exactly when there is room within the window.          *)
THEOREM SlidingIsExact ==
    ASSUME MaxDelay = 0, MaxLead = 0
    PROVE  Spec => [](algorithm = "sliding" => DecisionIsExact)
<1>1. (algorithm = "sliding" => SlidingOK /\ SlidingInv) => (algorithm = "sliding" => DecisionIsExact)
  <2>1. SUFFICES ASSUME algorithm = "sliding", SlidingOK, SlidingInv,
                        NEW n \in Amounts, Count(n) \in 1 .. Capacity
                 PROVE  Decision(Count(n), now).ok <=> Fair(Count(n))
    BY Zenon DEF DecisionIsExact
  <2> DEFINE m == Count(n)
             a == Max({0, now - Window + 1})
  <2>2. m \in Nat /\ now \in Int  BY <2>1, RateAssumption DEF SlidingOK, CallOK, TypeOK
  <2> HIDE DEF m
  <2>3. Decision(m, now).ok <=> Unit * Cardinality(Purged(now)) + m <= Capacity
    BY <2>1, <2>2, SlidingScript, Zenon DEF Decision
  <2>4. spent[a][now] = Unit * Cardinality(Purged(now))  BY <2>1, PurgedCount
  <2>5. Fair(m) <=> spent[a][now] + m <= Capacity  BY <2>1, Zenon DEF Fair, Windowed
  <2> HIDE DEF a
  <2>6. Decision(m, now).ok <=> Fair(m)  BY <2>3, <2>4, <2>5, Zenon
  <2> QED  BY <2>6 DEF m
<1> QED  BY <1>1, SlidingKept, PTL

(* When the sliding window admits a request that is made again.               *)
LEMMA SlidingAgain ==
    ASSUME algorithm = "sliding", NEW v, NEW n \in Nat, NEW t \in Int
    PROVE  Script(v, n, t, FALSE).ok
             <=> Unit * Cardinality({e \in v : e[1] > t - Window}) + n <= Capacity
<1> DEFINE K == {e \in v : e[1] > t - Window}
           room == Unit * Cardinality(K) + n <= Capacity
           d == Script(v, n, t, FALSE)
           kept == K \cup {<<t, Cardinality({e \in K : e[1] = t}) + i>> : i \in 1 .. n \div Unit}
           wait == IF K = {} THEN Window ELSE Window - (t - Min({e[1] : e \in K}))
<1>1. d = IF room
          THEN [ok |-> TRUE, value |-> kept, retry |-> 0]
          ELSE [ok |-> FALSE, value |-> K, retry |-> wait]
  BY DEF Script, Sliding
<1> HIDE DEF d, kept, wait, room
<1>2. d.ok <=> room
  <2>1. CASE room
    <3>1. d = [ok |-> TRUE, value |-> kept, retry |-> 0]  BY <1>1, <2>1, Zenon
    <3> QED  BY <2>1, <3>1, Zenon
  <2>2. CASE ~room
    <3>1. d = [ok |-> FALSE, value |-> K, retry |-> wait]  BY <1>1, <2>2, Zenon
    <3> QED  BY <2>2, <3>1, Zenon
  <2> QED  BY <2>1, <2>2, Zenon
<1> QED  BY <1>2, Zenon DEF d, room

(* A denied request finds the log as it is until the first entry leaves, and  *)
(* then there is room for one.                                                *)
LEMMA SlidingRetries ==
    ASSUME SlidingOK, algorithm = "sliding", SlidingInv, NEW n \in 1 .. Capacity,
           ~Decision(n, now).ok
    PROVE  LET r == Decision(n, now).retry
           IN  /\ r > 0
               /\ \A k \in 1 .. r - 1 : ~Retried(n, k).ok
               /\ n <= Unit => Retried(n, r).ok
<1> DEFINE L == Purged(now)
           d == Decision(n, now)
           r == d.retry
           stamps == {e[1] : e \in L}
           first == Min(stamps)
           C == Cardinality(L)
           Left(k) == {e \in L : e[1] > (now + k) - Window}
<1>1. now \in Nat /\ Capacity \in Nat /\ Unit \in Nat \ {0} /\ n \in Nat
  BY RateAssumption DEF SlidingOK, CallOK, TypeOK
<1>2. Window \in Nat /\ Window > 0  BY WindowType, Zenon DEF SlidingOK, Windowed
<1>3. /\ IsFiniteSet(L) /\ C \in Nat /\ ~(Unit * C + n <= Capacity)
      /\ L # {} => r = Window - (now - first)
      /\ d.value = L
  <2>1. now \in Int /\ FALSE \in BOOLEAN  BY <1>1
  <2>2. IsFiniteSet(L) /\ C \in Nat  BY <1>1, <2>1, SlidingScript, Zenon
  <2>3. ~(Unit * C + n <= Capacity)  BY <1>1, <2>1, SlidingScript, Zenon DEF Decision
  <2>4. d.value = L  BY <1>1, <2>1, SlidingScript, Zenon DEF Decision
  <2>5. L # {} => r = Window - (now - first)  BY <1>1, <2>1, SlidingScript, Zenon DEF Decision
  <2> QED  BY <2>2, <2>3, <2>4, <2>5, Zenon
<1>4. Unit * C <= Capacity /\ Unit * C \in Int
  <2>1. Unit * C <= Capacity  BY PurgedCount, Zenon
  <2> QED  BY <1>1, <1>3, <2>1
<1>5. L # {}
  <2>1. SUFFICES ASSUME L = {} PROVE FALSE
    OBVIOUS
  <2>2. C = 0  BY <2>1, FS_EmptySet, Zenon
  <2> HIDE DEF C
  <2>3. Unit * C = 0  BY <1>1, <2>2
  <2> QED  BY <1>1, <1>3, <2>3
<1>6. \A e \in L : e[1] \in Nat /\ e[1] <= now /\ e[1] > now - Window
  BY Zenon DEF Purged, SlidingOK
<1>7. first \in stamps /\ \A s \in stamps : first <= s
  <2>1. stamps \in SUBSET Nat /\ stamps # {}  BY <1>5, <1>6
  <2> HIDE DEF stamps
  <2> QED  BY <2>1, MinIsLeast, Zenon
<1>8. PICK f \in L : f[1] = first  BY <1>7, Zenon
<1>9. first \in Nat /\ first <= now /\ first > now - Window /\ \A e \in L : first <= e[1]
  BY <1>6, <1>7, <1>8, Zenon
<1> HIDE DEF first, stamps, d, r
<1>10. r = Window - (now - first) /\ r \in Int /\ r > 0
  BY <1>1, <1>2, <1>3, <1>5, <1>9
<1>11. ASSUME NEW k \in Int
       PROVE  Retried(n, k).ok <=> Unit * Cardinality(Left(k)) + n <= Capacity
  <2> DEFINE t == now + k
  <2>1. Retried(n, k) = Script(L, n, t, FALSE)
    BY <1>3 DEF Retried, KeyOf, d
  <2>2. t \in Int  BY <1>1
  <2> HIDE DEF L, t
  <2>3. Script(L, n, t, FALSE).ok
          <=> Unit * Cardinality({e \in L : e[1] > t - Window}) + n <= Capacity
    BY <1>1, <2>2, SlidingAgain, Zenon
  <2> QED  BY <2>1, <2>3, Zenon DEF t
<1>12. ASSUME NEW k \in 1 .. r - 1 PROVE ~Retried(n, k).ok
  <2>1. k \in Int /\ (now + k) - Window < first  BY <1>1, <1>2, <1>9, <1>10
  <2>2. Left(k) = L
    <3>1. \A e \in L : e[1] > (now + k) - Window  BY <1>1, <1>2, <1>6, <1>9, <2>1
    <3> QED  BY <3>1, Zenon
  <2> HIDE DEF Left, L
  <2>3. Cardinality(Left(k)) = C  BY <2>2, Zenon
  <2> QED  BY <1>3, <1>11, <2>1, <2>3, Zenon
<1>13. ASSUME n <= Unit PROVE Retried(n, r).ok
  <2>1. Left(r) \in SUBSET (L \ {f})
    <3>1. (now + r) - Window = first  BY <1>1, <1>2, <1>9, <1>10
    <3>2. ~(f[1] > (now + r) - Window)  BY <1>8, <1>9, <3>1
    <3> QED  BY <3>2, Zenon
  <2>2. IsFiniteSet(L \ {f}) /\ Cardinality(L \ {f}) = C - 1
    BY <1>3, <1>8, FS_RemoveElement, Zenon
  <2>3. IsFiniteSet(Left(r)) /\ Cardinality(Left(r)) <= C - 1
    BY <2>1, <2>2, FS_Subset
  <2>4. Cardinality(Left(r)) \in Nat  BY <2>3, FS_CardinalityType, Zenon
  <2> DEFINE D == Cardinality(Left(r))
  <2>5. D \in Nat /\ D + 1 <= C  BY <1>3, <2>3, <2>4
  <2> HIDE DEF D, C
  <2>6. Unit * (D + 1) <= Unit * C
    <3>1. Unit * (C - (D + 1)) >= 0  BY <1>1, <1>3, <2>5
    <3>2. Unit * (C - (D + 1)) = Unit * C - Unit * (D + 1)  BY <1>1, <1>3, <2>5
    <3>3. Unit * (D + 1) \in Int  BY <1>1, <2>5
    <3> QED  BY <1>4, <3>1, <3>2, <3>3
  <2>7. Unit * (D + 1) = Unit * D + Unit /\ Unit * D \in Int  BY <1>1, <2>5
  <2>8. Unit * D + n <= Capacity  BY <1>1, <1>4, <1>13, <2>6, <2>7
  <2> QED  BY <1>10, <1>11, <2>8, Zenon DEF D
<1> QED  BY <1>10, <1>12, <1>13, Zenon DEF d, r

(* A caller that the sliding window denies is told when the first entry       *)
(* leaves: not too late for anyone, and in time for one request.              *)
THEOREM SlidingReportsLeastDelay ==
    ASSUME MaxDelay = 0, MaxLead = 0
    PROVE  Spec => [](algorithm = "sliding" => RetryIsLeast)
<1>1. (algorithm = "sliding" => SlidingOK /\ SlidingInv) => (algorithm = "sliding" => RetryIsLeast)
  <2>1. SUFFICES ASSUME algorithm = "sliding", SlidingOK, SlidingInv,
                        NEW n \in Amounts, Count(n) \in 1 .. Capacity, ~Decision(Count(n), now).ok
                 PROVE  LET r == Decision(Count(n), now).retry
                        IN  /\ r > 0
                            /\ \A k \in 1 .. r - 1 : ~Retried(Count(n), k).ok
                            /\ Retried(Count(n), r).ok \/ n > Unit
    BY DEF RetryIsLeast
  <2> DEFINE m == Count(n)
  <2>2. m \in 1 .. Capacity /\ ~Decision(m, now).ok  BY <2>1, Zenon
  <2>3. n \in Nat /\ Unit \in Nat \ {0} /\ Capacity \in Nat  BY RateAssumption, Zenon
  <2>4. n <= Unit => m <= Unit
    <3>1. SUFFICES ASSUME n <= Unit PROVE m <= Unit
      BY Zenon
    <3>2. m = Unit * ((n + Unit - 1) \div Unit)  BY <2>1, Zenon DEF Count, Windowed, Ceiling
    <3>3. n + Unit - 1 \in Nat /\ n + Unit - 1 < 2 * Unit  BY <2>3, <3>1
    <3> DEFINE x == (n + Unit - 1) \div Unit
    <3>4. x \in Int /\ Unit * x <= n + Unit - 1  BY <2>3, <3>3
    <3> HIDE DEF x
    <3>5. x <= 1
      <4>1. SUFFICES ASSUME x >= 2 PROVE FALSE
        BY <3>4
      <4>2. Unit * (x - 2) >= 0 /\ Unit * (x - 2) = Unit * x - 2 * Unit /\ Unit * x \in Int
        BY <2>3, <3>4, <4>1
      <4> QED  BY <2>3, <3>3, <3>4, <4>2
    <3>6. Unit * (1 - x) >= 0 /\ Unit * (1 - x) = Unit - Unit * x /\ Unit * x \in Int
      BY <2>3, <3>4, <3>5
    <3>7. Unit * x <= Unit  BY <2>3, <3>6
    <3> QED  BY <3>2, <3>7, Zenon DEF x
  <2> HIDE DEF m
  <2>5. LET r == Decision(m, now).retry
        IN  /\ r > 0
            /\ \A k \in 1 .. r - 1 : ~Retried(m, k).ok
            /\ m <= Unit => Retried(m, r).ok
    BY <2>1, <2>2, SlidingRetries, Zenon
  <2>6. n <= Unit \/ n > Unit  BY <2>3
  <2> QED  BY <2>4, <2>5, <2>6, Zenon DEF m
<1> QED  BY <1>1, SlidingKept, PTL

---------------------------------------------------------------------------
(* All four algorithms, when requests are executed in the order of their      *)
(* stamps.                                                                    *)

(* No algorithm admits more than it may.                                      *)
THEOREM LimiterKeepsBudget ==
    ASSUME MaxDelay = 0, MaxLead = 0
    PROVE  Spec => []BudgetKept
<1>1. MaxDelay + MaxLead <= Window
  <2>1. Window \in Int /\ Window >= 0  BY RateAssumption DEF Window
  <2> QED  BY <2>1
<1>2. /\ (~Windowed => BudgetKept)
      /\ (algorithm = "fixed" => BudgetKept)
      /\ (algorithm = "sliding" => BudgetKept)
      => BudgetKept
  BY DEF Windowed
<1>3. Spec => [](algorithm = "fixed" => BudgetKept)  BY <1>1, FixedKeepsBudget, Zenon
<1> QED  BY <1>2, <1>3, BucketsKeepBudget, SlidingKeepsBudget, PTL

(* Every algorithm admits exactly what it may.                                *)
THEOREM LimiterIsExact ==
    ASSUME MaxDelay = 0, MaxLead = 0
    PROVE  Spec => []DecisionIsExact
<1>1. /\ (~Windowed => DecisionIsExact)
      /\ (algorithm = "fixed" => DecisionIsExact)
      /\ (algorithm = "sliding" => DecisionIsExact)
      => DecisionIsExact
  BY DEF Windowed
<1> QED  BY <1>1, BucketsAreExact, FixedIsExact, SlidingIsExact, PTL

(* Every algorithm tells a denied caller the least delay.                     *)
THEOREM LimiterReportsLeastDelay ==
    ASSUME MaxDelay = 0, MaxLead = 0
    PROVE  Spec => []RetryIsLeast
<1>1. /\ (~Windowed => RetryIsLeast)
      /\ (algorithm = "fixed" => RetryIsLeast)
      /\ (algorithm = "sliding" => RetryIsLeast)
      => RetryIsLeast
  BY DEF Windowed
<1> QED
  BY <1>1, BucketsReportLeastDelay, FixedReportsLeastDelay, SlidingReportsLeastDelay, PTL

=============================================================================
