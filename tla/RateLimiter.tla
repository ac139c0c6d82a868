---------------------------- MODULE RateLimiter -----------------------------
(* The rate limiter: RateLimiter.Allow, Acquire and Reset, and the four       *)
(* scripts they run.  A request carries the reading of its process's clock,   *)
(* so a script may be executed with a reading older than the one before it.   *)
(*                                                                            *)
(* Times are in milliseconds, amounts in fractions of a token: Unit of them   *)
(* make one.                                                                  *)
EXTENDS Integers, FiniteSetsExt, Functions, TLC

CONSTANTS
    Clients,      \* the calls of Allow and Acquire in progress
    Algorithms,   \* the algorithms a limiter may be built with
    Unit,         \* one token, or one request
    Capacity,     \* the burst size
    Rate,         \* what is refilled in a millisecond
    Amounts,      \* the amounts callers ask for
    Slack,        \* the second that is added to a bucket's lifetime
    MaxLead,      \* how far a process clock may be ahead of the server's
    MaxDelay,     \* bound: a request is executed within this time, or never
    MaxTime       \* bound: the last instant

ASSUME RateAssumption ==
    /\ Algorithms \subseteq {"token", "leaky", "fixed", "sliding"}
    /\ Unit \in Nat \ {0} /\ Capacity \in Nat \ {0} /\ Rate \in Nat \ {0}
    /\ Amounts \subseteq Nat
    /\ MaxLead \in Nat /\ MaxDelay \in Nat /\ MaxTime \in Nat
    /\ Slack \in Nat /\ MaxDelay + MaxLead <= Slack

\* A windowed limiter has a window of a millisecond at least, and room for one
\* request.
ASSUME WindowAssumption ==
    Algorithms \cap {"fixed", "sliding"} # {} => Rate <= Capacity /\ Unit <= Capacity

\* While a request may be repeated, nobody purges what it put into the log.
ASSUME LogAssumption ==
    "sliding" \in Algorithms => MaxDelay + MaxLead < Capacity \div Rate

VARIABLES
    now,        \* the server's clock
    algorithm,  \* the limiter's algorithm
    lead,       \* lead[c]: how far the clock of c's process is ahead
    store,      \* the keys that exist: their value and when they expire
    pc,         \* where the call of each client is
    call,       \* call[c]: its request
    wake,       \* wake[c]: when Acquire tries again
    spent       \* history: spent[a][b] is what was admitted, since the last
                \* Reset, for requests stamped between a and b

vars == <<now, algorithm, lead, store, pc, call, wake, spent>>

Times == 0 .. MaxTime + MaxLead

Windowed == algorithm \in {"fixed", "sliding"}

Window == Capacity \div Rate

Request(n, t) == [n |-> n, sent |-> t, placed |-> FALSE, ok |-> FALSE, retry |-> 0]

NoCall == Request(0, 0)

Init ==
    /\ now = 0
    /\ algorithm \in Algorithms
    /\ lead \in [Clients -> 0 .. MaxLead]
    /\ store = <<>>
    /\ pc = [c \in Clients |-> "idle"]
    /\ call = [c \in Clients |-> NoCall]
    /\ wake = [c \in Clients |-> 0]
    /\ spent = [a \in Times |-> [b \in Times |-> 0]]

---------------------------------------------------------------------------
(* The scripts: the value v of the key, an amount n and a clock reading t     *)
(* give the decision, the new value, and the delay that is reported.          *)

Put(f, k, x) == [i \in DOMAIN f \cup {k} |-> IF i = k THEN x ELSE f[i]]

Smaller(x, y) == IF x <= y THEN x ELSE y

\* The least number of milliseconds in which Rate makes up for x.
Ceiling(x, y) == (x + y - 1) \div y

\* Mutant: the refill is stored, but not when it happened, on a denial.
TokenForgetsTime(v, n, t) ==
    LET refilled == Smaller(Capacity, v.level + (t - v.ts) * Rate)
    IN  IF refilled >= n
        THEN [ok |-> TRUE, value |-> [level |-> refilled - n, ts |-> t], retry |-> 0]
        ELSE [ok |-> FALSE, value |-> [level |-> refilled, ts |-> v.ts],
              retry |-> Ceiling(n - refilled, Rate)]

\* Mutant: the delay is rounded down.
TokenRoundsDown(v, n, t) ==
    LET refilled == Smaller(Capacity, v.level + (t - v.ts) * Rate)
    IN  IF refilled >= n
        THEN [ok |-> TRUE, value |-> [level |-> refilled - n, ts |-> t], retry |-> 0]
        ELSE [ok |-> FALSE, value |-> [level |-> refilled, ts |-> t],
              retry |-> (n - refilled) \div Rate]

Token(v, n, t) ==
    LET refilled == Smaller(Capacity, v.level + (t - v.ts) * Rate)
    IN  IF refilled >= n
        THEN [ok |-> TRUE, value |-> [level |-> refilled - n, ts |-> t], retry |-> 0]
        ELSE [ok |-> FALSE, value |-> [level |-> refilled, ts |-> t],
              retry |-> Ceiling(n - refilled, Rate)]

Leaky(v, n, t) ==
    LET leaked == v.level - (t - v.ts) * Rate
        drained == IF leaked < 0 THEN 0 ELSE leaked
    IN  IF drained + n <= Capacity
        THEN [ok |-> TRUE, value |-> [level |-> drained + n, ts |-> t], retry |-> 0]
        ELSE [ok |-> FALSE, value |-> [level |-> drained, ts |-> t],
              retry |-> Ceiling(drained + n - Capacity, Rate)]

\* Mutant: a denied request is not rolled back.
FixedKeepsDenied(v, n, t) ==
    [ok |-> v + n <= Capacity,
     value |-> v + n,
     retry |-> (t \div Window + 1) * Window - t]

\* INCRBY, and DECRBY when the count is above the limit.
Fixed(v, n, t) ==
    LET left == (t \div Window + 1) * Window - t
    IN  IF v + n <= Capacity
        THEN [ok |-> TRUE, value |-> v + n, retry |-> left]
        ELSE [ok |-> FALSE, value |-> v, retry |-> left]

\* The log is a set of entries, <<s, i>> the i-th one with timestamp s.  What an
\* earlier execution of the same request entered (placed) is only written again.
Sliding(v, n, t, placed) ==
    LET log == {e \in v : e[1] > t - Window}
        here == Cardinality({e \in log : e[1] = t})
        entries == {<<t, here + i>> : i \in 1 .. n \div Unit}
    IN  IF Unit * Cardinality(log) + n <= Capacity
        THEN [ok |-> TRUE, value |-> IF placed THEN log ELSE log \cup entries, retry |-> 0]
        ELSE [ok |-> FALSE, value |-> log,
              retry |-> IF log = {} THEN Window ELSE Window - (t - Min({e[1] : e \in log}))]

Script(v, n, t, placed) ==
    CASE algorithm = "token" -> Token(v, n, t)
      [] algorithm = "leaky" -> Leaky(v, n, t)
      [] algorithm = "fixed" -> Fixed(v, n, t)
      [] algorithm = "sliding" -> Sliding(v, n, t, placed)

\* A fixed window has a key of its own.
KeyOf(t) == IF algorithm = "fixed" THEN t \div Window ELSE 0

\* What a script takes a missing key for.
Missing(t) ==
    CASE algorithm = "token" -> [level |-> Capacity, ts |-> t]
      [] algorithm = "leaky" -> [level |-> 0, ts |-> t]
      [] algorithm = "fixed" -> 0
      [] algorithm = "sliding" -> {}

Value(t) ==
    IF KeyOf(t) \in DOMAIN store THEN store[KeyOf(t)].value ELSE Missing(t)

\* Mutant: nothing is added to the time in which a bucket fills up.
LifetimeWithoutSlack == IF Windowed THEN 2 * Window ELSE Ceiling(Capacity, Rate)

Lifetime == IF Windowed THEN 2 * Window ELSE Ceiling(Capacity, Rate) + Slack

---------------------------------------------------------------------------
\* The windowed algorithms count whole requests.
Count(n) == IF Windowed THEN Unit * Ceiling(n, Unit) ELSE n

Stamp(c) == call[c].sent + lead[c]

\* Allow sends a request.  It answers without one, and without a trace, when
\* the amount is zero (allowed) or more than the capacity (an error).
Allow(c, n) ==
    /\ pc[c] = "idle"
    /\ n # 0 /\ Count(n) <= Capacity
    /\ pc' = [pc EXCEPT ![c] = "sent"]
    /\ call' = [call EXCEPT ![c] = Request(Count(n), now)]
    /\ UNCHANGED <<now, algorithm, lead, store, wake, spent>>

\* Acquire asks again for the same amount when its timer fires.
AllowAgain(c) ==
    /\ pc[c] = "waiting" /\ now >= wake[c]
    /\ pc' = [pc EXCEPT ![c] = "sent"]
    /\ call' = [call EXCEPT ![c] = Request(call[c].n, now)]
    /\ UNCHANGED <<now, algorithm, lead, store, wake, spent>>

Spend(n, t) ==
    [a \in Times |-> [b \in Times |-> spent[a][b] + IF a <= t /\ t <= b THEN n ELSE 0]]

Serve(c) ==
    /\ pc[c] = "sent"
    /\ LET r == call[c]
           t == Stamp(c)
           d == Script(Value(t), r.n, t, r.placed)
           new == d.ok /\ ~(algorithm = "sliding" /\ r.placed)
       IN  /\ store' = Put(store, KeyOf(t), [value |-> d.value, ends |-> now + Lifetime])
           /\ call' = [call EXCEPT ![c] = [r EXCEPT !.ok = d.ok, !.retry = d.retry,
                                                    !.placed = r.placed \/ d.ok]]
           /\ spent' = IF new THEN Spend(r.n, t) ELSE spent
    /\ pc' = [pc EXCEPT ![c] = "served"]
    /\ UNCHANGED <<now, algorithm, lead, wake>>

\* The reply is lost and the client library sends the request again.
Resend(c) ==
    /\ pc[c] = "served" /\ now - call[c].sent <= MaxDelay
    /\ pc' = [pc EXCEPT ![c] = "sent"]
    /\ UNCHANGED <<now, algorithm, lead, store, call, wake, spent>>

Return(c) ==
    /\ pc' = [pc EXCEPT ![c] = "idle"]
    /\ call' = [call EXCEPT ![c] = NoCall]
    /\ wake' = [wake EXCEPT ![c] = 0]
    /\ UNCHANGED <<now, algorithm, lead, store, spent>>

\* Allow returns its answer, Acquire a grant or the error of its context; or
\* the request fails.
ReturnFromCall(c) == pc[c] \in {"sent", "served", "waiting"} /\ Return(c)

\* Acquire sleeps for the delay that was reported.
Sleep(c) ==
    /\ pc[c] = "served" /\ ~call[c].ok
    /\ pc' = [pc EXCEPT ![c] = "waiting"]
    /\ wake' = [wake EXCEPT ![c] = now + call[c].retry]
    /\ call' = [call EXCEPT ![c] = Request(call[c].n, 0)]
    /\ UNCHANGED <<now, algorithm, lead, store, spent>>

\* Reset deletes the key; of a fixed window, the one of the present window.
Reset(c) ==
    /\ KeyOf(now + lead[c]) \in DOMAIN store
    /\ store' = Restrict(store, DOMAIN store \ {KeyOf(now + lead[c])})
    /\ call' = [q \in Clients |-> [call[q] EXCEPT !.placed = FALSE]]
    /\ spent' = [a \in Times |-> [b \in Times |-> 0]]
    /\ UNCHANGED <<now, algorithm, lead, pc, wake>>

\* A request is not executed once it is older than MaxDelay.
Tick ==
    /\ now < MaxTime
    /\ \A c \in Clients : pc[c] = "sent" => now - call[c].sent < MaxDelay
    /\ now' = now + 1
    /\ store' = Restrict(store, {k \in DOMAIN store : store[k].ends > now + 1})
    /\ UNCHANGED <<algorithm, lead, pc, call, wake, spent>>

Next ==
    \/ \E c \in Clients :
          \/ \E n \in Amounts : Allow(c, n)
          \/ AllowAgain(c) \/ Serve(c) \/ Resend(c)
          \/ ReturnFromCall(c) \/ Sleep(c) \/ Reset(c)
    \/ Tick

Spec == Init /\ [][Next]_vars

---------------------------------------------------------------------------
TypeOK ==
    /\ now \in 0 .. MaxTime
    /\ algorithm \in Algorithms
    /\ lead \in [Clients -> 0 .. MaxLead]
    /\ pc \in [Clients -> {"idle", "sent", "served", "waiting"}]
    /\ call \in [Clients -> [n : Nat, sent : 0 .. MaxTime, placed : BOOLEAN,
                             ok : BOOLEAN, retry : Int]]
    /\ wake \in [Clients -> Int]
    /\ spent \in [Times -> [Times -> Nat]]

\* What an algorithm may admit between a and b.
Budget(a, b) ==
    CASE ~Windowed -> Capacity + Rate * (b - a)
      [] algorithm = "fixed" /\ a \div Window = b \div Window -> Capacity
      [] algorithm = "sliding" /\ b - a < Window -> Capacity
      [] OTHER -> spent[a][b]

(* In every interval a bucket admits no more than Capacity and what the rate   *)
(* adds in it, a fixed window no more than Capacity in each window, and the    *)
(* sliding window no more than Capacity in any window of that length, with     *)
(* requests resent after a lost reply and keys that expire.                    *)
BudgetKept == \A a, b \in Times : a <= b => spent[a][b] <= Budget(a, b)

\* What the algorithms promise, from what was admitted alone.
Fair(n) ==
    CASE ~Windowed -> \A a \in 0 .. now : spent[a][now] + n <= Capacity + Rate * (now - a)
      [] algorithm = "fixed" -> spent[(now \div Window) * Window][now] + n <= Capacity
      [] algorithm = "sliding" -> spent[Max({0, now - Window + 1})][now] + n <= Capacity

Decision(n, t) == Script(Value(t), n, t, FALSE)

(* When requests are executed in the order of their stamps, a request is       *)
(* admitted exactly when what was admitted before leaves room for it: denied   *)
(* requests and expired keys cost nobody anything.  Admissions are counted as  *)
(* the scripts execute them: a request sent again after its reply was lost     *)
(* counts once in the sliding window, and each time it is admitted otherwise.  *)
DecisionIsExact ==
    \A n \in Amounts : Count(n) \in 1 .. Capacity =>
        (Decision(Count(n), now).ok <=> Fair(Count(n)))

\* The decision k milliseconds after a denial, if nothing happens in between.
Retried(n, k) ==
    LET v == Decision(n, now).value
    IN  Script(IF KeyOf(now + k) = KeyOf(now) THEN v ELSE Value(now + k), n, now + k, FALSE)

(* A denied caller is told the least delay after which it is admitted, which   *)
(* is never zero: Acquire neither spins nor oversleeps.  The sliding window    *)
(* does so for one request; for several it names the instant at which the      *)
(* first of its entries leaves.                                                *)
RetryIsLeast ==
    \A n \in Amounts : Count(n) \in 1 .. Capacity /\ ~Decision(Count(n), now).ok =>
        LET r == Decision(Count(n), now).retry
        IN  /\ r > 0
            /\ \A k \in 1 .. r - 1 : ~Retried(Count(n), k).ok
            /\ Retried(Count(n), r).ok \/ (algorithm = "sliding" /\ n > Unit)
---------------------------------------------------------------------------
(* Why the buckets keep their budget.                                        *)

Tokens(v) == IF algorithm = "token" THEN v.level ELSE Capacity - v.level

\* Rate times the instant at which the bucket will be full.
Full(v) == Capacity - Tokens(v) + Rate * v.ts

Exists == 0 \in DOMAIN store

FullAt == IF Exists THEN Full(store[0].value) ELSE Rate * (now - MaxDelay)

StoreOK ==
    \/ DOMAIN store = {}
    \/ store \in [{0} -> [value : [level : Int, ts : Int], ends : Int]]

Prompt ==
    \A c \in Clients :
        call[c].sent <= now /\ (pc[c] = "sent" => now - MaxDelay <= call[c].sent)

(* The inductive invariant of the two buckets: what was admitted since a, the   *)
(* instant at which the bucket is full pays for; a bucket that expires has been *)
(* full for so long that even the latest request finds it so.                   *)
BucketInv ==
    ~Windowed =>
        /\ TypeOK /\ StoreOK /\ Prompt
        /\ Exists => /\ Full(store[0].value) <= Rate * (store[0].ends - Slack + MaxLead)
                     /\ store[0].ends \in now + 1 .. now + Lifetime
        /\ \A a, b \in Times : a <= b =>
              /\ spent[a][b] = 0 \/ spent[a][b] + Rate * a <= FullAt
              /\ spent[a][b] <= Capacity + Rate * (b - a)

=============================================================================
