---------------------------- MODULE GuardHandle ----------------------------
(* The life of one guard or permit: the handle of guard.go with its renewal  *)
(* loop (lease.Renewer), its deadline timer, a goroutine that calls Renew    *)
(* and goroutines that call Unlock.  Redis is behind the calls: a call may   *)
(* succeed, fail or report that the lease is gone, after any delay.          *)
(*                                                                           *)
(* Time is kept as what is left of it: left is ExpiresAt minus now.          *)
EXTENDS Integers, Sequences

CONSTANTS
    Unlockers,   \* the goroutines that call Unlock
    Valid,       \* the local validity a request confirms (requestExpiry)
    UserRenews,  \* TRUE: a goroutine of the user calls Renew, over and over
    MaxUnlocks   \* bound: Unlock calls per goroutine

Callers == {"loop", "user"}          \* who runs renew or the watchdog's check
Callback(g) == IF g = "loop" THEN "loopCtx" ELSE "userCtx"
Markers == Callers \cup {Callback(g) : g \in Callers} \cup Unlockers
Modes == {"renew", "watch", "none"}  \* startRenewal, startWatchdog, neither
Results == {"ok", "lost", "error"}

ASSUME GuardAssumption ==
    /\ Valid \in Nat \ {0}
    /\ UserRenews \in BOOLEAN
    /\ MaxUnlocks \in Nat
    /\ \A s \in {"free", "loop", "user", "loopCtx", "userCtx"} : s \notin Unlockers

VARIABLES
    mode,         \* which of the three the guard was built with
    left,         \* ExpiresAt minus now; 0 once it is not After now
    lost,         \* lostCtx is canceled
    marking,      \* goroutines in markLost between lostCancel and timerMu
    timer,        \* time until deadlineTimer fires, -1 when there is none
    check,        \* checkDeadline: waits for timerMu, holds it, or is not running
    at,           \* where the callers of renew are
    call,         \* time left of what the request under way would confirm
    ctx,          \* time left to callCtx's deadline, -1 when nothing waits for it
    late,         \* the callers whose callCtx callback was started and not run
    result,       \* what the call returned
    stop,         \* Renewer.ctx is canceled
    stopOnce,     \* stopOnce has run
    reported,     \* the reasons given to metrics.RenewalStopped, in order
    released,     \* handle.released
    releaseDone,  \* handle.releaseDone
    releaseMu,    \* who holds releaseMu, "free" if nobody does
    unlock,       \* where the callers of Unlock are
    unlocks       \* how often each has called it

lossVars == <<lost, marking>>
timerVars == <<timer, check>>
callVars == <<at, call, ctx, late, result>>
loopVars == <<mode, stop, stopOnce, reported>>
unlockVars == <<released, releaseDone, releaseMu, unlock, unlocks>>
vars == <<left, lossVars, timerVars, callVars, loopVars, unlockVars>>

\* newHandle, and startRenewal or startWatchdog up to their checkDeadline, with
\* any part of the lease used up by then.
Init ==
    /\ mode \in Modes
    /\ left \in 0 .. Valid
    /\ lost = FALSE /\ marking = {}
    /\ timer = -1
    /\ check = IF mode = "none" THEN "off" ELSE "locking"
    /\ at = [g \in Callers |-> "off"]
    /\ call = [g \in Callers |-> 0]
    /\ ctx = [g \in Callers |-> -1]
    /\ late = {}
    /\ result = [g \in Callers |-> "none"]
    /\ stop = FALSE /\ stopOnce = FALSE
    /\ reported = <<>>
    /\ released = FALSE /\ releaseDone = FALSE
    /\ releaseMu = "free"
    /\ unlock = [u \in Unlockers |-> "off"]
    /\ unlocks = [u \in Unlockers |-> 0]

Handed == at["user"] # "off"

\* The first checkDeadline is over: the loop starts, the caller gets the guard.
HandOut ==
    /\ ~Handed
    /\ check = "off"
    /\ at' = [at EXCEPT !["user"] = "idle",
                        !["loop"] = IF mode = "none" THEN "off" ELSE "wait"]
    /\ unlock' = [u \in Unlockers |-> "idle"]
    /\ UNCHANGED <<left, lossVars, timerVars, call, ctx, late, result, loopVars,
                   released, releaseDone, releaseMu, unlocks>>

---------------------------------------------------------------------------
(* The deadline timer.                                                      *)

TimerFires ==
    /\ timer = 0
    /\ timer' = -1
    /\ check' = "locking"
    /\ UNCHANGED <<left, lossVars, callVars, loopVars, unlockVars>>

\* Mutant: the loss is not looked at.
CheckIgnoresLoss ==
    /\ check = "locking"
    /\ check' = "locked"
    /\ UNCHANGED <<left, lossVars, timer, callVars, loopVars, unlockVars>>

\* checkDeadline has timerMu and finds the guard lost, or goes on.
CheckLocks ==
    /\ check = "locking"
    /\ check' = IF lost THEN "off" ELSE "locked"
    /\ UNCHANGED <<left, lossVars, timer, callVars, loopVars, unlockVars>>

\* Mutant: the timer does not follow a deadline that was moved.
CheckArmsOnce ==
    /\ check = "locked"
    /\ check' = "off"
    /\ lost' = (lost \/ left = 0)
    /\ timer' = IF left = 0 \/ Handed THEN -1 ELSE left
    /\ UNCHANGED <<left, marking, callVars, loopVars, unlockVars>>

CheckReads ==
    /\ check = "locked"
    /\ check' = "off"
    /\ lost' = (lost \/ left = 0)
    /\ timer' = IF left = 0 THEN -1 ELSE left
    /\ UNCHANGED <<left, marking, callVars, loopVars, unlockVars>>

\* markLost: lostCancel at once, then the timer when timerMu is free.
CancelLost(g) ==
    /\ lost' = TRUE
    /\ marking' = marking \cup {g}

StopTimer(g) ==
    /\ g \in marking
    /\ check # "locked"
    /\ marking' = marking \ {g}
    /\ timer' = -1
    /\ UNCHANGED <<left, lost, check, callVars, loopVars, unlockVars>>

---------------------------------------------------------------------------
(* renew and withLeaseDeadline, for the loop and for the user.              *)

\* A heartbeat and a user's Renew extend the lease, a watchdog's check does not.
Extends(g) == g = "user" \/ mode = "renew"

Refused(g) ==
    /\ at' = [at EXCEPT ![g] = "back"]
    /\ result' = [result EXCEPT ![g] = "lost"]
    /\ UNCHANGED ctx

\* The entry checks: released or lost, then the deadline.
Enter(g) ==
    /\ at[g] = "enter"
    /\ \/ (released \/ lost) /\ Refused(g) /\ UNCHANGED lossVars
       \/ ~released /\ ~lost /\ left = 0 /\ Refused(g) /\ CancelLost(g)
       \/ /\ ~released /\ ~lost /\ left > 0
          /\ at' = [at EXCEPT ![g] = "ready"]
          /\ ctx' = [ctx EXCEPT ![g] = left]
          /\ UNCHANGED <<lossVars, result>>
    /\ UNCHANGED <<left, timerVars, call, late, loopVars, unlockVars>>

\* The request is sent; a renewal notes the deadline it will confirm.
Send(g) ==
    /\ at[g] = "ready"
    /\ at' = [at EXCEPT ![g] = "calling"]
    /\ call' = [call EXCEPT ![g] = IF Extends(g) THEN Valid ELSE 0]
    /\ UNCHANGED <<left, lossVars, timerVars, ctx, late, result, loopVars, unlockVars>>

\* callCtx's deadline passes before the call is over: its callback starts, in
\* a goroutine of its own that may run late.
CallDeadline(g) ==
    /\ ctx[g] = 0
    /\ ctx' = [ctx EXCEPT ![g] = -1]
    /\ late' = late \cup {g}
    /\ UNCHANGED <<left, lossVars, timerVars, at, call, result, loopVars, unlockVars>>

CallbackRuns(g) ==
    /\ g \in late
    /\ late' = late \ {g}
    /\ IF left = 0 THEN CancelLost(Callback(g)) ELSE UNCHANGED lossVars
    /\ UNCHANGED <<left, timerVars, at, call, ctx, result, loopVars, unlockVars>>

\* Mutants: a renewal confirms a deadline after the old one passed; or adds to it.
ConfirmsAnyway(g) == call[g] > 0
ExtendedFromOld(g) == left + call[g]

\* The lease's Renew confirms a deadline only while the old one stands, and
\* never moves it back.
Confirms(g) == left > 0 /\ call[g] > 0
Extended(g) == IF call[g] > left THEN call[g] ELSE left

Reply(g, r) ==
    /\ at[g] = "calling"
    /\ at' = [at EXCEPT ![g] = "replied"]
    /\ LET renewed == r = "ok" /\ Extends(g)
       IN  /\ left' = IF renewed /\ Confirms(g) THEN Extended(g) ELSE left
           /\ result' = [result EXCEPT ![g] = IF renewed /\ ~Confirms(g) THEN "lost" ELSE r]
    /\ call' = [call EXCEPT ![g] = 0]
    /\ UNCHANGED <<lossVars, timerVars, ctx, late, loopVars, unlockVars>>

\* Mutant: a transport error counts as a loss.
FatalOnError(g) == lost \/ result[g] # "ok" \/ left = 0

\* The exit checks of withLeaseDeadline.
Fatal(g) == lost \/ result[g] = "lost" \/ left = 0

Leave(g) ==
    /\ at[g] = "replied"
    /\ at' = [at EXCEPT ![g] = "back"]
    /\ ctx' = [ctx EXCEPT ![g] = -1]
    /\ IF Fatal(g)
       THEN CancelLost(g) /\ result' = [result EXCEPT ![g] = "lost"]
       ELSE UNCHANGED <<lossVars, result>>
    /\ UNCHANGED <<left, timerVars, call, late, loopVars, unlockVars>>

UserRenew ==
    /\ UserRenews
    /\ at["user"] = "idle"
    /\ at' = [at EXCEPT !["user"] = "enter"]
    /\ UNCHANGED <<left, lossVars, timerVars, call, ctx, late, result, loopVars, unlockVars>>

UserReturns ==
    /\ at["user"] = "back"
    /\ "user" \notin marking
    /\ at' = [at EXCEPT !["user"] = "idle"]
    /\ result' = [result EXCEPT !["user"] = "none"]
    /\ UNCHANGED <<left, lossVars, timerVars, call, ctx, late, loopVars, unlockVars>>

---------------------------------------------------------------------------
(* Renewer.loop.                                                            *)

\* The ticker, or the canceled context, wakes the loop.
LoopTick ==
    /\ at["loop"] = "wait"
    /\ at' = [at EXCEPT !["loop"] = IF stop THEN "exited" ELSE "enter"]
    /\ UNCHANGED <<left, lossVars, timerVars, call, ctx, late, result, loopVars, unlockVars>>

\* Mutant: a loss is retried like a transport error.
LoopRetriesLoss == IF stop THEN "exited" ELSE "wait"

\* After renew: stopped, lost, or on to the next tick.
LoopGoesTo ==
    IF stop THEN "exited" ELSE IF result["loop"] = "lost" THEN "onLost" ELSE "wait"

LoopReturns ==
    /\ at["loop"] = "back"
    /\ "loop" \notin marking
    /\ at' = [at EXCEPT !["loop"] = LoopGoesTo]
    /\ result' = [result EXCEPT !["loop"] = "none"]
    /\ IF LoopGoesTo = "onLost"
       THEN reported' = Append(reported, "lost") /\ CancelLost("loop")
       ELSE UNCHANGED <<reported, lossVars>>
    /\ UNCHANGED <<left, timerVars, call, ctx, late, mode, stop, stopOnce, unlockVars>>

LoopExits ==
    /\ at["loop"] = "onLost"
    /\ "loop" \notin marking
    /\ at' = [at EXCEPT !["loop"] = "exited"]
    /\ UNCHANGED <<left, lossVars, timerVars, call, ctx, late, result, loopVars, unlockVars>>

---------------------------------------------------------------------------
(* release and stop.                                                        *)

Unlock(u) ==
    /\ unlock[u] = "idle"
    /\ unlocks[u] < MaxUnlocks
    /\ unlock' = [unlock EXCEPT ![u] = "locking"]
    /\ unlocks' = [unlocks EXCEPT ![u] = @ + 1]
    /\ UNCHANGED <<left, lossVars, timerVars, callVars, loopVars,
                   released, releaseDone, releaseMu>>

\* releaseMu is free.  A release already confirmed returns nil at once.
UnlockEnters(u) ==
    /\ unlock[u] = "locking"
    /\ releaseMu = "free"
    /\ IF releaseDone
       THEN /\ unlock' = [unlock EXCEPT ![u] = "idle"]
            /\ UNCHANGED <<releaseMu, released, lossVars>>
       ELSE /\ unlock' = [unlock EXCEPT ![u] = "stopping"]
            /\ releaseMu' = u
            /\ released' = TRUE
            /\ CancelLost(u)
    /\ UNCHANGED <<left, timerVars, callVars, loopVars, releaseDone, unlocks>>

\* stopOnce: the metric and Renewer.Stop, the first time, if there is a loop.
UnlockStops(u) ==
    /\ unlock[u] = "stopping"
    /\ u \notin marking
    /\ stopOnce' = TRUE
    /\ IF stopOnce \/ mode = "none"
       THEN /\ unlock' = [unlock EXCEPT ![u] = "releasing"]
            /\ UNCHANGED <<stop, reported>>
       ELSE /\ unlock' = [unlock EXCEPT ![u] = "joining"]
            /\ stop' = TRUE
            /\ reported' = Append(reported, "released")
    /\ UNCHANGED <<left, lossVars, timerVars, callVars, mode,
                   released, releaseDone, releaseMu, unlocks>>

\* Mutant: Stop cancels the loop and does not wait for it.
UnlockDoesNotJoin(u) ==
    /\ unlock[u] = "joining"
    /\ unlock' = [unlock EXCEPT ![u] = "releasing"]
    /\ UNCHANGED <<left, lossVars, timerVars, callVars, loopVars,
                   released, releaseDone, releaseMu, unlocks>>

\* Renewer.Stop returns once the loop has closed done.
UnlockJoins(u) ==
    /\ unlock[u] = "joining"
    /\ at["loop"] = "exited"
    /\ unlock' = [unlock EXCEPT ![u] = "releasing"]
    /\ UNCHANGED <<left, lossVars, timerVars, callVars, loopVars,
                   released, releaseDone, releaseMu, unlocks>>

\* Mutant: a failed release returns with the mutex locked.
UnlockKeepsMutex(u, r) ==
    /\ unlock[u] = "releasing"
    /\ unlock' = [unlock EXCEPT ![u] = "idle"]
    /\ releaseMu' = IF r = "error" THEN releaseMu ELSE "free"
    /\ releaseDone' = (r # "error")
    /\ left' = IF r = "ok" THEN 0 ELSE left
    /\ UNCHANGED <<lossVars, timerVars, callVars, loopVars, released, unlocks>>

\* Lease.Release returns: confirmed, lease gone, or a transport error.
UnlockReturns(u, r) ==
    /\ unlock[u] = "releasing"
    /\ unlock' = [unlock EXCEPT ![u] = "idle"]
    /\ releaseMu' = "free"
    /\ releaseDone' = (r # "error")
    /\ left' = IF r = "ok" THEN 0 ELSE left
    /\ UNCHANGED <<lossVars, timerVars, callVars, loopVars, released, unlocks>>

---------------------------------------------------------------------------
Less(t) == IF t > 0 THEN t - 1 ELSE t

Tick ==
    /\ left > 0 \/ timer > 0 \/ \E g \in Callers : call[g] > 0 \/ ctx[g] > 0
    /\ left' = Less(left)
    /\ timer' = Less(timer)
    /\ call' = [g \in Callers |-> Less(call[g])]
    /\ ctx' = [g \in Callers |-> Less(ctx[g])]
    /\ UNCHANGED <<lossVars, check, at, late, result, loopVars, unlockVars>>

CallStep(g) == Enter(g) \/ Send(g) \/ Leave(g)

UnlockStep(u) == UnlockEnters(u) \/ UnlockStops(u) \/ UnlockJoins(u)

CallReply(g) == \E r \in Results : Reply(g, r)

ReleaseReply(u) == \E r \in Results : UnlockReturns(u, r)

CheckStep == CheckLocks \/ CheckReads

LoopStep == LoopTick \/ LoopReturns \/ LoopExits

Next ==
    \/ HandOut \/ TimerFires \/ CheckStep \/ UserRenew \/ UserReturns
    \/ LoopStep \/ Tick
    \/ \E g \in Markers : StopTimer(g)
    \/ \E g \in Callers : CallStep(g) \/ CallReply(g) \/ CallDeadline(g) \/ CallbackRuns(g)
    \/ \E u \in Unlockers : Unlock(u) \/ UnlockStep(u) \/ ReleaseReply(u)

\* Goroutines that can run do, timers fire and time passes; nobody has to call
\* Renew or Unlock.
LocalFairness ==
    /\ WF_vars(HandOut) /\ WF_vars(TimerFires) /\ WF_vars(CheckStep)
    /\ WF_vars(UserReturns) /\ WF_vars(LoopStep) /\ WF_vars(Tick)
    /\ \A g \in Markers : WF_vars(StopTimer(g))
    /\ \A g \in Callers :
          WF_vars(CallStep(g)) /\ WF_vars(CallDeadline(g)) /\ WF_vars(CallbackRuns(g))
    /\ \A u \in Unlockers : WF_vars(UnlockStep(u))

\* The client returns from every call in the end, with a reply or an error.
ReplyFairness ==
    /\ \A g \in Callers : WF_vars(CallReply(g))
    /\ \A u \in Unlockers : WF_vars(ReleaseReply(u))

\* Calls to Redis may hang for ever in HangingSpec, in Spec they return.
HangingSpec == Init /\ [][Next]_vars /\ LocalFairness

Spec == HangingSpec /\ ReplyFairness

---------------------------------------------------------------------------
Stages == {"off", "idle", "wait", "enter", "ready", "calling", "replied",
           "back", "onLost", "exited"}

TypeOK ==
    /\ mode \in Modes
    /\ left \in 0 .. Valid
    /\ lost \in BOOLEAN /\ released \in BOOLEAN
    /\ timer \in -1 .. Valid
    /\ check \in {"off", "locking", "locked"}
    /\ marking \subseteq Markers
    /\ at \in [Callers -> Stages]
    /\ call \in [Callers -> 0 .. Valid]
    /\ ctx \in [Callers -> -1 .. Valid]
    /\ late \subseteq Callers
    /\ result \in [Callers -> Results \cup {"none"}]
    /\ stop \in BOOLEAN /\ stopOnce \in BOOLEAN
    /\ releaseMu \in Unlockers \cup {"free"}
    /\ releaseDone \in BOOLEAN
    /\ unlock \in [Unlockers -> {"off", "idle", "locking", "stopping",
                              "joining", "releasing"}]
    /\ unlocks \in [Unlockers -> 0 .. MaxUnlocks]
    /\ reported \in Seq({"lost", "released"})

(* No deadline timer survives the loss of its guard: whichever goroutine      *)
(* marks the loss, and wherever checkDeadline is by then, once markLost is    *)
(* over no timer is armed, so a finished guard leaves nothing running.        *)
NoTimerLeft == lost /\ marking = {} => timer = -1

(* stop "joins background work before remote cleanup": while Release is sent, *)
(* by a first Unlock or by one that repeats a failed release, the loop is     *)
(* over and no heartbeat can extend or check the lease behind it.             *)
LoopJoined ==
    \A u \in Unlockers : unlock[u] = "releasing" => at["loop"] \in {"off", "exited"}

(* A local deadline that has passed, or that Release has cleared, never comes *)
(* back: no reply of Renew by the loop or the user, however late, moves it.   *)
DeadlineIsFinal == [][left = 0 => left' = 0]_vars

(* A guard is lost for a reason: it was released, its deadline passed, or a   *)
(* call was told the lease is gone.  A transport error alone never ends it.   *)
LossHasCause ==
    [][lost' /\ ~lost => released' \/ left = 0 \/ \E g \in Callers : result[g] = "lost"]_vars

(* With a heartbeat or a watchdog a holder learns that its deadline passed,   *)
(* even when calls to Redis never return (checkDeadline "runs independently   *)
(* of Redis calls") and renewals moved the deadline meanwhile.                *)
ExpirySignalled == mode # "none" /\ left = 0 ~> lost

(* Unlock always returns, with several callers, in any state of the loop.     *)
UnlockTerminates == \A u \in Unlockers : unlock[u] = "locking" ~> unlock[u] = "idle"

(* "The goroutine is guaranteed to exit on release or on definitive ownership *)
(* loss": the loop ends even if nobody ever calls Unlock.                     *)
LoopEnds == Handed /\ mode # "none" /\ lost ~> at["loop"] = "exited"

(* RenewalStopped is reported once for a background renewal that ended.       *)
ReportedOnce == Len(reported) <= 1

---------------------------------------------------------------------------
(* Why they hold.                                                           *)

\* A checkDeadline that is about to arm a timer for a lost guard has a markLost
\* waiting behind it that will stop that timer.
TimerInv ==
    /\ NoTimerLeft
    /\ check = "locked" /\ lost => marking # {}

Inside == {"stopping", "joining", "releasing"}

\* Who is inside release holds releaseMu, and whoever gets past stopOnce does
\* so after the loop: the first one joined it, the others came after that one.
JoinInv ==
    /\ \A u \in Unlockers : unlock[u] \in Inside => releaseMu = u
    /\ \A u \in Unlockers : unlock[u] \in {"joining", "releasing"} => stopOnce
    /\ mode = "none" => at["loop"] = "off"
    /\ stopOnce /\ mode # "none" =>
          at["loop"] = "exited" \/ \E u \in Unlockers : unlock[u] = "joining"
    /\ ~Handed => ~stopOnce /\ at["loop"] = "off"
    /\ \A u \in Unlockers : unlock[u] # "off" => Handed

(* The inductive invariant behind NoTimerLeft and LoopJoined.                 *)
GuardInv == TypeOK /\ TimerInv /\ JoinInv
============================================================================
