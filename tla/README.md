# Verification of distsync

TLA+ models of distsync's primitives and of the guard around their leases,
checked with TLC on small instances; the main theorems are proved with TLAPS for
all values of the constants.

## 1. The system

distsync offers distributed locks over Redis. A client process calls the Go API;
every change of shared state is one Lua script on one Redis server, which runs
scripts one at a time. Between the two is go-redis, which times requests out and
sends them again.

| Part | State | Operations | Talks to |
|---|---|---|---|
| Exclusive lease (`internal/lease/single.go`, `single_*.lua`) | lock key with owner and TTL, fencing counter; per lease object the local `expiresAt` | TryAcquire, Renew, Held, Release, discardLateGrant | Redis |
| Handle (`guard.go`) | `lostCtx`, `released`, `releaseDone`, deadline timer, locks | startRenewal, startWatchdog, checkDeadline, renew, withLeaseDeadline, markLost, stop, release | lease, Renewer |
| Renewer (`renewer.go`) | its goroutine, context, `done` | Start, Stop, loop | handle's renew and onLost |
| Mutex, Once | last guard (`holder`) | Lock, TryLock, Unlock | lease, handle |
| Leader | `active`, `fence` | Run, TryRun, IsLeader, FencingToken | lease, handle |
| Semaphore (`permit.go`, `sem_*.lua`) | sorted set of permit tokens by expiry | Acquire, TryAcquire, Available, Renew, Release | Redis, handle |
| RWMutex (`rw.go`, `rw_*.lua`) | writer key, readers set, arrival queue, timestamps, sequence | Lock, RLock, Try*, Dequeue, Renew, Release | Redis, handle |
| RateLimiter (`ratelimit*.lua`) | bucket, counter or log | Allow, Acquire, Reset | Redis |
| Keys (`key.go`) | none | Key, Derived | all of the above |

What makes it hard: a lease ends by the passage of time on two clocks; a request
whose reply is lost has possibly run; a repeated request may run twice, and its
first copy may run late; a guard is used by its owner, a background loop, a timer
and callbacks at the same time; Redis may lose data.

What should hold, part by part:

- *Lease*: one valid holder at a time; the newest fencing token with the valid
  holder; loss is final; a stale holder deletes nobody else's key.
- *Handle and Renewer*: a holder learns of the end of its lease; transport errors
  alone end nothing; the loop is over before the release is sent; Unlock returns;
  no goroutine or timer is left behind.
- *Mutex, Leader*: the convenience state names the guard that is really held.
- *Semaphore*: never more valid permits than the capacity; all or nothing.
- *RWMutex*: a writer excludes everybody; arrival order; no dead waiter blocks.
- *RateLimiter*: each algorithm's bound, with clients' clocks.
- *Keys*: every key of a primitive in one hash slot.

`PROJECT.json` lists the hazards line by line with the properties that cover them,
or the further instance (section 3) that does.

## 2. Modules

| Module | What it is |
|---|---|
| `SingleOwner` | The exclusive lease with its server, transport and clocks |
| `FencedLock` | What the lease promises: an abstract lock with tokens |
| `SingleOwnerProofs` | Theorems about `SingleOwner` |
| `GuardHandle` | All goroutines of one guard, and its Renewer |
| `GuardHandleProofs` | Theorems about `GuardHandle` |
| `Permits` | The semaphore: sorted set, `PermitSet`, transport, process clocks |
| `PermitPool` | What the semaphore promises: an abstract pool of permits |
| `PermitsProofs` | Theorems about `Permits` |
| `RWLock` | The FIFO read-write lock: queue, purge, both roles |
| `RWLockProofs`, `RWQueueProofs` | Theorems about `RWLock`: exclusion; the queue |
| `RateLimiter` | The four limiters with Allow, Acquire and Reset |
| `RateLimiterProofs` | Theorems about `RateLimiter` |
| `LeaderElection` | Leader: Run, TryRun, runHeld, IsLeader, FencingToken |
| `LeaderProofs` | Theorems about `LeaderElection` |
| `MutexHolder` | The field behind `Mutex.Unlock`, and Once |
| `MutexHolderProofs` | Theorems about `MutexHolder` |
| `HashTag` | `Key` and `Derived` against Redis Cluster's rule |
| `MC...` | Symmetry, specifications and constants for TLC |

The primitives share their lease and handle code, and the models follow that.
`SingleOwner` and `GuardHandle` overlap on purpose. The first has several leases,
one real key and coarse steps of the handle. The second has one handle, every
lock and goroutine of it, and a Redis that may answer anything, so what it shows
holds for every kind of lease (its `Reply` is the local part of `Renew`, which
all leases share).

### SingleOwner

A member of `Leases` is one lease object, that is one call of Lock or TryLock:
tokens are random and fresh, so leases and tokens are identified. Server state is
`owner`, `expireAt`, `fencing`; each script is one action or part of one
(`AcquireGrants`, `AcquireDenies`, `RenewScript`, `ReleaseScript`). `pc[l]` is
where the goroutine is that locks and then unlocks. `calls` holds the Renew and
Held calls under way, one for the background loop and one for the user.

*Transport.* Every request may be answered, fail, or be sent again
(`Resend...`). A copy that is given up while still under way goes into `ghosts`
and may be executed at any later time, any number of times. With
`Overtaking = FALSE` a copy of an acquire cannot run after the copy that was
answered. `FALSE` is an assumption about the network; section 5 shows it matters.

*Time.* `now` is the server's clock. `clock[l]` never runs ahead of it and lags
by at most `Drift`, which the margin of `requestExpiry` must cover
(`Drift <= Margin`, in `TimeAssumption`). Only the difference matters. The
margin's 1% + 1 ms is the constant `Margin`.

*Redis.* `Restart` (with `DataLoss`) drops the key and rolls the counter back.

A lease is *in use* (`InUse`) when the guard exists, has not been told of a loss,
and its local deadline stands.

### GuardHandle

`left`, `timer`, `call` and `ctx` are times to go; `Tick` counts them down.
`check` is `checkDeadline` with `timerMu`; `marking` is the set of goroutines in
the middle of `markLost`, which cancels first and takes `timerMu` afterwards.
`at` is where the loop and the user's Renew are in `renew` and
`withLeaseDeadline`. `late` holds the callbacks that started and did not run yet.
`unlock` is where the callers of Unlock are in `release` and `stop`. Steps that
only read what nobody else can change in between are merged.

### Permits

A member of `Leases` is one `PermitSet`, with `Need[l]` tokens. `score` is the
sorted set. Requests carry the reading of their process's clock, by which scores
are written and purged; the server's clock plays no part. So `now` is the fastest
process clock and the others lag behind it by at most `Drift`. `calls` holds all
requests under way: of the goroutine that acquires and releases ("main"), of the
loop ("heart"), of the user's Renew ("user"). `ghosts` are copies left behind, as
in `SingleOwner`. A grant is not released from `lost` alone: `Stop` and
`StartRelease` are Release after the loop was joined. The reads that one Held
makes of several tokens are one step. The tokens of a grant are added, renewed,
purged and removed together and have one score (`SetInv`), so the answer is the
one that the last token read gives for all of them at that instant.

`Heartbeat[l]` is the loop's call, since clients of one semaphore have their own
options. `SingleRenewer` says that if there are both loops and user's Renew calls,
the loops only watch. Section 5 shows why the theorems need it.

### RWLock

All times are relative to the present, so that time need not be bounded and
liveness can be checked. `waiters` is the queue in arrival order, which stands
for the sorted set with its sequence numbers: the three keys of the queue always
get the same expiry together. A contender stands for one call of Lock, TryLock,
RLock or TryRLock at a time, with a fresh token (`Recycle`). `Faults` names what
may happen in an instance. Dequeue is two steps, each of which may fail. The
client's steps are common to both roles, since the two Go types have the same
code; the scripts differ. `arrivals` is history: the order in which waiters that
still wait arrived.

Left out: the fencing counter (the writer key and its counter are those of
`SingleOwner`), more than one renewal at a time (section 5, item 1: readers renew
with the same script), releases that fail without a crash, and Held.

### RateLimiter

Times are milliseconds and amounts integers: `Unit` of them are one request, so
fractions of a token occur, and no floating point does. `spent[a][b]` is history:
what was admitted for requests stamped between `a` and `b`. A request repeated
after a lost reply is charged again by all algorithms but the sliding window,
whose entries have the same members (`placed`). `spent` counts each of these charges:
the properties are about what the scripts admitted, and say nothing of a caller who
paid twice. `Slack` is the second the scripts
add to a bucket's lifetime; `RateAssumption` says it covers delay and clock
difference. `LogAssumption` says that a request is not repeated so late that its
entries may have been purged. `WindowAssumption` is what `ratelimiter.go:155`
checks: a window is a millisecond at least, and one request fits into it. The log
of the sliding window is a set of numbered entries, as the sorted set with its
members is.
The branch of Acquire for a delay of zero is not there: every denial reports a
positive one.

### LeaderElection

Calls of Run and TryRun share Leader values (`HandleOf`). The lease is abstract:
`owner` is the server's view, `valid[r]` the local deadline, and the key is freed
only after the local deadline (what `SingleOwner` shows). Nothing is assumed of
when the deadline timer fires: a paused process goes on claiming to lead after its
key has passed to another one (`docs/semantics.md:86-103`). So what is stated is
not that there is one claim, but that claims are fenced: a stale one always
carries a smaller token than the server's leader, and only the latter's lease
stands (`ClaimsAreFenced`). runHeld is one action for each piece between two points
where others can interfere, the deferred functions in their reverse order.
`result` holds the errors runHeld joins to the one of fn: `ErrLeadershipLost`, by
the look at lostCtx, and what release returned. The first can miss a takeover, the
two together cannot (`TakeoverSurfaces`). `Stalls` allows a call to be suspended
for a TTL before fn starts. Fencing is on (`Fencing()`); without it the token is 0.

### MutexHolder

One member of `Calls` is a Lock with its token, its guard and the Unlock that
follows. The lock is free or owned; `Mutex.Unlock` reads the field, releases and
clears it in three steps. `Faults` lets a release fail before ("command") or
after ("reply") it was executed, or leases expire. RWMutex.Unlock has the same
code over `writeHolder`.

### HashTag

Names are sequences over the two braces and one other character, which is all
that `Key` and the cluster's rule tell apart.

## 3. Runs

All instances use integers for time; distinct states are in brackets.

| Run | Instance | Shows |
|---|---|---|
| `single_lease` (466 k) | 2 leases, heartbeat, TTL 3, margin 1, drift 1, time to 4, 2 tokens, 1 ghost | exclusion, fencing, verdicts, released keys, the inductive invariant, the refinement |
| `single_restart` (2.2 M) | a lease with a heartbeat and one with a watchdog, data loss, overtaking, time to 2 | loss is final and unlock is safe even then |
| `guard_safety` (315 k) | an Unlock caller, a Renew caller, lease of 2, calls may hang | timers, deadlines, causes of loss, expiry is signalled |
| `guard_liveness` (14 k) | 2 Unlock callers, twice each | the loop is joined, Unlock returns, the loop ends |
| `permits_lease` (1.1 M) | a grant of 1 with a watchdog and one of 2 with a heartbeat, capacity 2, TTL 3, margin and drift 1, time to 5, 1 ghost | capacity, Available, whole grants, verdicts, the inductive invariant, the refinement |
| `permits_renewals` | 2 grants of 2, heartbeat and user's Renew | **violation**: section 5 |
| `rw_queue` (1.4 M) | 2 writers, 1 reader; give-ups, failed commands, crashes, late copies | exclusion and arrival order |
| `rw_renewal` (2.7 M) | 1 writer, 2 readers, clocks 1 apart; renewals, lost replies, give-ups | the same, and that who gives up leaves the queue |
| `rw_live` (70 k) | 2 writers, 1 reader; give-ups, crashes, cancellations | nobody starves |
| `rate_exact` (1.6 M) | 1 client, all algorithms, half tokens, capacity 2 tokens, window 2, time to 6 | budgets, decisions and delays are exact |
| `leader_live` (331 k) | 2 calls on one Leader, 1 on another, 3 grants, late timers | a standing leadership is known, stale claims carry smaller tokens, no takeover goes unreported; lost work ends, the role is not left vacant |
| `mutex_holder` (5 k) | 3 goroutines, 1 Once, 2 failing releases | the field is never lost, Unlock tells the truth |

Further instances are kept beside these and are not listed in `PROJECT.json`; run
them with `tlc -config X.cfg M`. They have no mutants.

| Configuration (module) | Instance | Result |
|---|---|---|
| `MCSingleOwnerContention` (`MCSingleOwner`) | 3 leases, no renewals, 3 tokens, time to 3 | passes, 2.1 M |
| `MCSingleOwnerWatchdog` (`MCSingleOwner`) | 2 leases, watchdog and user's Renew | passes, 1.1 M |
| `MCPermitsThree` (`MCPermits`) | grants of 1, 1 and 2, TTL 2, time to 3 | passes, 1.7 M |
| `MCPermitsWatchdog` (`MCPermits`) | 2 grants of 2, watchdog and user's Renew; released permits stay free | passes, 1.5 M |
| `MCRateLimiterLate` (`MCRateLimiter`) | 2 clients, requests up to 1 late; token, leaky and fixed | passes, 2.9 M |
| `MCLeader` (`MCLeaderElection`) | as `leader_live` with 4 grants, safety only | passes, 1.3 M |
| `HashTag` (`HashTag`) | names up to length 5 that the documentation describes | passes, 288 |
| `MCSingleOwnerOvertaking`, `MCPermitsOvertaking`, `MCGuardHandleMetric`, `MCRWLockDequeue`, `MCRWLockCancel`, `MCRWLockShortTTL`, `MCRateLimiterSliding`, `MCLeaderStall`, `MCLeaderNoLoop`, `MCLeaderLate`, `MCMutexHolderReply`, `MCMutexHolderExpiry`, `HashTagAny` | section 5 | violated |

Bounds. `MaxTime` lets a key expire and pass to another lease in `single_lease`;
in `single_restart` it is `Restart` that removes it. `TTL = 3` is the smallest
with room for a renewal before a local deadline of 2. `MaxGhosts = 1` allows one
kind of request left behind at a time, executed any number of times. A lease of
2 is the least for which a renewal can move a deadline. Deadlock is not checked
where the bounded clock, or the end of all goroutines, stops the system.

In `Permits` a grant of 2 out of 2 permits meets one of 1, so that a part would
fit; time to 5 lets a grant expire, be purged and be taken again. In `RWLock`
three contenders are the least with somebody before and somebody after a third;
`MaxDelay` bounds how long a request is under way (0 in `rw_live`); scores and
timestamps too old to matter to any request are not told apart. In `RateLimiter` time to 6 is three
windows, and a bucket's key expires after 3. In `LeaderElection` three grants let
the role pass from one call to the other of the same value, and to another value. `MaxRetries` is 2,
so a retry can fail again.

Fairness, `GuardHandle`. `HangingSpec`: a goroutine that can run does, a
timer fires, time passes; this is what Go's scheduler and runtime timers give.
Weak fairness is enough because nothing it waits for is taken away again in
these instances. `Spec` adds that a call to Redis returns, which
`docs/semantics.md` asks of backends ("must honor context cancellation or have
bounded I/O timeouts"). Nobody has to call Renew or Unlock. Signalling of expiry
is checked without the second assumption.

Fairness, `RWLock` and `LeaderElection` (weak, on each action by itself). Time
passes, timers fire, keys expire, the server executes requests and replies are
read. In `RWLock` a waiter tries again when its backoff is over (a timer of
Lock's loop) and holders unlock, without which no lock is fair; calls need not
begin, and nobody has to give up. In `LeaderElection` a callback returns once its
context is canceled, which `docs/semantics.md:166` asks of callbacks, and Run
repeats its attempts. A crashed process does nothing more.

Every property of a listed run has a mutant: a plausible mistake in one mapped definition (named
in a `Mutant` comment before that definition) which TLC must catch.

## 4. Proofs

`SingleOwnerProofs`, for every set of leases, TTL, margin, drift within it, and
bound:

- in every mode: `Typed`; `LossIsTerminal` (`NoRevival`); `UnlockIsSafe`
  (`SafeUnlock`);
- if copies do not overtake and Redis keeps its data: `Inductive` (`IndInv`), and
  from it `Exclusive`, `HoldsNewest`, `VerdictsHold`, `ReleaseFrees` and
  `Refinement` (every step is a step of `FencedLock` or none).

Mutual exclusion is not inductive: nothing in it says why a valid holder still
has the key. `IndInv` adds that. `UseInv` says a lease in use owns the key until
`Margin` after its local deadline. It survives a grant because of `AttemptInv` (a
key set during an attempt outlives the attempt's deadline by `Margin`), and a
renewal because of `CallInv` (the same for a renewal's reply). `ClockInv` turns
the margin into real time. `QuietInv` says when a lease cannot own the key and
has no acquire left behind; this is where `~Overtaking` is needed. `OwnerInv` and
`KeyInv` order the tokens; `StageInv` and `LostInv` tie the stages together.

`GuardHandleProofs`, for any number of Unlock callers and calls and any lease
length, without fairness: `GuardInductive`, and from it `TimersStop`
(`NoTimerLeft`), `ReleaseAfterJoin` (`LoopJoined`), `DeadlineStays`
(`DeadlineIsFinal`) and `LossIsCaused` (`LossHasCause`).
`TimerInv` adds that a `checkDeadline` about to arm a timer for a lost guard has a
`markLost` waiting behind it. `JoinInv` adds that whoever is inside `release`
holds `releaseMu`, and that after `stopOnce` either the loop is over or somebody
is still waiting for it.

`PermitsProofs`, for every set of grants, number of permits, capacity, TTL, margin,
drift within it, and bound, if copies do not overtake and `SingleRenewer` holds:
`PermitsInvariant` (`IndInv`), and from it `CapacityIsKept`,
`AvailableIsNeverTooHigh`, `GrantsAreNeverSplit` and `LossIsReal`. The capacity
bound is not inductive: permits in use are counted by the holders' clocks, the
set by whoever purges it. `GrantInv` says that the tokens of a grant in use are
all in the set with a score at least `Margin` after the local deadline, so no
clock within `Drift` purges them (`ClockInv`); `SetInv` that the set stays within
the capacity and a grant has one score; then the permits in use are a subset of
the set. `RenewInv` keeps scores ahead of deadlines through renewals and their
copies, which is where `SingleRenewer` is needed; `GhostInv` and `CallInv` say
which requests can still be under way.

Under the same conditions `ReleaseIsFinal` (`ReleasedStaysFree`, which
`MCPermitsWatchdog` checks) and `PoolRefinement` (`ImplementsPermitPool`): a step
either leaves the users alone, ends some of them, or is the receipt of a grant
that was never handed out before, and after it the permits in use still are a
subset of the set. `LossInv` adds that a loss is only ever declared for a lease
that had its grant.

`RWLockProofs` (the first result) and `RWQueueProofs` (the others), for any writers
and readers, TTL, margin, backoff, delay of requests and clocks apart by no more
than the margin:

- `WriterIsAlone` (`WriterExcludes`), whatever faults happen. The queue has no part
  in it. `SafeInv` says in `LeaseInv` that the entry of whoever is in use outlives
  the local deadline by the margin, a reader's also by as much as its process's
  clock is ahead, since any other process may purge it. `AskInv` and `BeatInv` say
  the same of grants and renewals whose replies are still under way. `AloneInv`
  says that a writer on the server has no reader beside it that is in use or may
  still become so; it is what a purge by a clock that is ahead would break.
- `RWTypes` (`TypeOK`), in which the queue holds nobody twice: `QueueShape`, kept
  because a script moves nobody (`ScriptQueue`).
- `GivingUpLeaves` (`GaveUpLeaves`), if no attempt is canceled under way and no
  command of Dequeue fails. These are exactly findings 4 and 5.
- `FirstComeFirstServed` (`ArrivalOrder`), if `Prompt` holds: two delays, a backoff
  and the clock difference are below the waiter timeout. It says from where on
  finding 6 cannot happen. `OrderInv` says that every live waiter is in the queue,
  with a timestamp young enough to survive every purge and a queue that does not
  expire under it (`LiveInv`); that a caller has one place (`PlaceInv`); and that
  the queue has the live waiters in the order in which they arrived.

The purge cuts off a prefix of the queue, up to the first entry that is not
silent. That there is such a first one is the only induction these proofs need, and
it comes from the library (`WFMin`). `RWLock` takes one operator on sequences, `Without`,
into its own hands: with the module `SequencesExt` in scope every obligation
takes the prover several times as long.

`MutexHolderProofs`, for any number of calls and of failing releases, if no lease
expires: `HolderIsKept` (`HolderKept`) and `UnlockReleases` (`ReturnedIsReleased`).
`Held` adds that a Lock call that owns the lease releases its own guard, and `Done`
that only a guard that is done is cleared from the field. `SafeUnlock`
(`NoForeignUnlock`) holds if besides no reply is lost, so the two faults of
finding 10 are its only causes.

`RateLimiterProofs`, for every capacity, rate, amount and number of clients, and
every delay and clock difference within the slack:

- The buckets: `BucketsKeepBudget` (`BudgetKept`), `BucketsReportLeastDelay`
  (`RetryIsLeast`) and `LeakyMirrorsToken`, with requests in any order. The
  invariant `BucketInv` is about one number, the instant at which the bucket will
  be full: each admission moves it on by what was admitted, no stamp moves it
  back, and what was admitted since `a` fits between `a` and it. A key that
  expires was full for so long that the latest request on its way finds it full.
- The fixed window: `FixedKeepsBudget` (`BudgetKept`) if delay and clock difference
  together are no more than a window. `FixedInv` says that the counter of a window
  covers what was admitted in it while a request of that window may still be
  executed (`Counted`): a key lives for two windows, so this is where the condition
  comes from. `FixedReportsLeastDelay` (`RetryIsLeast`) if no clock is ahead: then
  no window has a counter before it begins (`Begun`), and the next one is empty.
- All four algorithms, if requests are executed in the order of their stamps
  (`MaxDelay = MaxLead = 0`, as in `rate_exact`; replies are still lost and requests
  sent again): `LimiterKeepsBudget` (`BudgetKept`), `LimiterIsExact`
  (`DecisionIsExact`) and `LimiterReportsLeastDelay` (`RetryIsLeast`). For the
  buckets `Owed` is the converse of `BucketInv`: since some instant as much was
  admitted as it takes to fill the bucket. `FixedExact` says that the present
  counter is what was admitted in the present window. `SlidingInv` says that the
  log has one entry for each request admitted within the last window, which
  survives the purge and the expiry of the key because no entry of that window is
  touched, and an admission because its entries are new (`SlidingOK` numbers them).

For the sliding window the order of the stamps is not only a simplification:
without it `BudgetKept` is false (finding 7).

`LeaderProofs`, for any number of calls and Leader values: `LeaderInvariant`, and
from it, with and without a loop, however late timers fire and calls register,
`ClaimsDiffer` (`ClaimsAreFenced`) and `TakeoverIsNeverSilent` (`TakeoverSurfaces`);
and, if no call is suspended for a TTL before it registers, `LeaderStateIsRight`
(`LeaderKnown`). `LeaseKept` says a standing lease is the server's. `FieldKept` says
that a set field has the token of its call, and `TokenKept` that tokens differ and
the server's leader has the newest: two claims then differ as their calls do.
`Told` says that the key of whoever was overtaken stays gone until release has
reported it. `Prompt` says that the field is that of the standing lease; it is the
only part that needs `~Stalls`.

Model-checked only: the liveness properties (`ExpirySignalled`,
`UnlockTerminates`, `LoopEnds`, `NoStarvation`, `LossEndsWork`, `NoVacancy`),
which are out of the prover's reach; `HashTag`, which is recursive. Every invariant,
action property and refinement that a passing run checks is also proved, under the
conditions named above.

## 5. Findings

Each one is a counterexample of TLC to a sentence of the repository. The first is
a listed run; the others are instances named in section 3.

1. *Reversed renewals* (`permits_renewals`). `sem_renew.lua:24` writes the score
   its request computed, also over a later one. When the user's Renew and the
   heartbeat's are executed in the reverse order, the score ends before the local
   deadline, and permits in use are given to somebody else. `semaphore.go:13`:
   "At most capacity permits can be held at once, across all processes".
2. *Recovered grant, new deadline* (`MCSingleOwnerOvertaking`). An attempt is
   answered busy, while a copy of it that a retry gave up is still under way. The
   key becomes free, the copy takes it. Lock's next attempt finds its own token
   and gets the old grant, not extended; but `TryAcquire` takes the deadline from
   the start of the new attempt, which outlives the key. `docs/semantics.md:144`:
   "Mutual exclusion while all holders' leases are valid." `sem_acquire.lua:29` does
   the same with the permits of a semaphore (`MCPermitsOvertaking`), and the
   sentence quoted for finding 1 fails.
3. *A stop reported twice* (`MCGuardHandleMetric`). A loop that ended with "lost"
   is reported again with "released" by Unlock (`guard.go:127`).
   `metrics/prometheus.go:75`: "Number of times background renewal ended, by
   reason."
4. *A ghost without a timestamp* (`MCRWLockDequeue`). Dequeue (`rw.go:60`) ignores
   errors: ZREM fails, HDEL succeeds, and the purge never touches the entry.
   `CHANGELOG.md:91`: "the queue can never be blocked by a ghost."
5. *Canceled during an attempt* (`MCRWLockCancel`). Lock and RLock return the
   context's error without Dequeue (`rwmutex.go:82`). `docs/semantics.md:137`: "A
   canceled waiter dequeues itself".
6. *Short TTL* (`MCRWLockShortTTL`). With a backoff above twice the TTL a live
   waiter is purged between two attempts and loses its place. `rw.go:26`: "2x the
   lease TTL is a safe bound."
7. *Late request in the sliding window* (`MCRateLimiterSliding`). A request that is
   executed after a younger one finds the log already purged.
   `ratelimiter.go:86`: "exactly at most Capacity requests in any rolling window".
8. *Stalled registration* (`MCLeaderStall`). A Run suspended for a TTL between its
   grant and `leader.go:145` overwrites the state of the leadership that came
   after it. `leader.go:118`: "IsLeader reports whether this handle currently
   holds the leader lease".
9. *Takeover without ErrLeadershipLost* (`MCLeaderLate`, `MCLeaderNoLoop`). A
   callback that was overtaken returns before its late timer has fired, or without
   renewal and watchdog: `leader.go:176` sees no loss, and the call returns release's
   `ErrLost` without `ErrLeadershipLost`. `leader.go:59`: "if the lease was lost
   before fn completed, its error also matches ErrLeadershipLost", and
   `errors.go:19`: "returned by Leader.Run when the leader lease was lost while
   the callback was still running".
10. *Unlock of somebody else's guard* (`MCMutexHolderReply`, `MCMutexHolderExpiry`).
    `Mutex.Unlock` (`mutex.go:122`), retried after a lost reply or called after
    expiry, releases the guard of the goroutine that locked the same Mutex
    meanwhile. `mutex.go:55`: "a stale holder can never release a newer
    acquisition." A guard's own Unlock is not affected.
11. *Braces that are no hash tag* (`HashTagAny`). `Key` takes names such as `}a{`
    for tagged ones, and wraps `}` into an empty tag. `docs/semantics.md:150`:
    "every key of a primitive shares one hash slot."

## 6. Not modelled

- Client construction, options and error values: set once, and the choices that
  matter are constants of the models. Backoff delays are bounded by `Backoff` in
  `RWLock` and any delay elsewhere; the renewal interval and its jitter are any
  delay.
- Script loading: a script is one atomic step, run by hash or by text.
- Metrics other than `RenewalStopped`, tracing, the Prometheus collector: counters
  and spans that no other code reads.
- The examples.
- Of RWMutex: the fields behind `Unlock` and `RUnlock` (the first has the code of
  `Mutex.Unlock`; the documentation tells concurrent readers not to use the
  second), Held, and the fencing counter.
- Of Renewer: Stop before Start, which the handle never does.
- Of RateLimiter: rounding errors of floating point, and Wait, which is Acquire
  with a stopwatch.
- Leases without fencing: they differ only in the value the script returns.
