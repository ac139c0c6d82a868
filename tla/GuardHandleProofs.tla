------------------------- MODULE GuardHandleProofs -------------------------
(* Proofs about GuardHandle, for any number of goroutines that call Unlock   *)
(* any number of times, and any lease length.                                *)
EXTENDS GuardHandle, TLAPS

USE GuardAssumption DEF lossVars, timerVars, callVars, loopVars, unlockVars, Callers

(* A renewal that is confirmed stays within what one request confirms.       *)
LEMMA ReplyInRange ==
    ASSUME TypeOK, NEW g \in Callers, NEW r \in Results, Reply(g, r)
    PROVE  /\ left' \in 0 .. Valid
           /\ result'[g] \in Results
<1>1. left \in 0 .. Valid /\ call[g] \in 0 .. Valid
  BY DEF TypeOK
<1>2. Extended(g) \in 0 .. Valid
  BY <1>1 DEF Extended
<1>3. result \in [Callers -> Results \cup {"none"}]
  BY DEF TypeOK
<1> QED
  BY <1>1, <1>2, <1>3 DEF Reply, Results

(* Counting down keeps every clock within its range.                         *)
LEMMA LessInRange ==
    ASSUME NEW low \in {-1, 0}, NEW t \in low .. Valid
    PROVE  Less(t) \in low .. Valid
  BY DEF Less

(* The list of reported reasons stays one.                                   *)
LEMMA AppendReason ==
    ASSUME NEW s \in Seq({"lost", "released"}), NEW e \in {"lost", "released"}
    PROVE  Append(s, e) \in Seq({"lost", "released"})
  OBVIOUS

(* The stages of the Unlock calls.                                           *)
UnlockStages == {"off", "idle", "locking", "stopping", "joining", "releasing"}

(* An Unlock call that goes to another stage leaves the stages well typed.   *)
LEMMA UnlockGoes ==
    ASSUME TypeOK, NEW u \in Unlockers, NEW s \in UnlockStages
    PROVE  [unlock EXCEPT ![u] = s] \in [Unlockers -> UnlockStages]
<1>1. unlock \in [Unlockers -> UnlockStages]
  BY Zenon DEF TypeOK, UnlockStages
<1> QED
  BY <1>1, Zenon

(* Marking the loss keeps the loss and the set of markers well typed.        *)
LEMMA LossTyped ==
    ASSUME TypeOK, NEW g \in Markers, CancelLost(g) \/ UNCHANGED lossVars
    PROVE  lost' \in BOOLEAN /\ marking' \subseteq Markers
  BY Zenon DEF TypeOK, CancelLost, lossVars

(* Every step of every goroutine keeps the state well typed.                 *)
LEMMA GuardTypeStep == TypeOK /\ [Next]_vars => TypeOK'
<1> SUFFICES ASSUME TypeOK, [Next]_vars PROVE TypeOK'
  OBVIOUS
<1>1. CASE HandOut
  BY <1>1 DEF TypeOK, HandOut, Stages
<1>2. CASE TimerFires \/ CheckStep
  <2>1. CASE TimerFires
    BY <2>1 DEF TypeOK, TimerFires
  <2>2. CASE CheckLocks
    <3>1. check' \in {"off", "locking", "locked"}
      BY <2>2, Zenon DEF CheckLocks
    <3> QED
      BY <2>2, <3>1 DEF TypeOK, CheckLocks
  <2>3. CASE CheckReads
    <3>1. lost' \in BOOLEAN
      BY <2>3, Zenon DEF CheckReads
    <3>2. timer' \in -1 .. Valid
      BY <2>3 DEF TypeOK, CheckReads
    <3> QED
      BY <2>3, <3>1, <3>2 DEF TypeOK, CheckReads
  <2> QED
    BY <1>2, <2>1, <2>2, <2>3 DEF CheckStep
<1>3. CASE UserRenew \/ UserReturns
  <2>1. CASE UserRenew
    BY <2>1 DEF TypeOK, UserRenew, Stages
  <2>2. CASE UserReturns
    BY <2>2 DEF TypeOK, UserReturns, Stages
  <2> QED
    BY <1>3, <2>1, <2>2
<1>4. CASE LoopStep
  <2>1. CASE LoopTick \/ LoopExits
    <3>1. at' \in [Callers -> Stages]
      BY <2>1 DEF TypeOK, LoopTick, LoopExits, Stages
    <3> QED
      BY <2>1, <3>1, Zenon DEF TypeOK, LoopTick, LoopExits
  <2>2. CASE LoopReturns
    <3>1. reported' \in Seq({"lost", "released"})
      BY <2>2, AppendReason, Zenon DEF TypeOK, LoopReturns
    <3>2. lost' \in BOOLEAN /\ marking' \subseteq Markers
      BY <2>2, Zenon DEF TypeOK, LoopReturns, CancelLost, Markers
    <3> QED
      BY <2>2, <3>1, <3>2 DEF TypeOK, LoopReturns, LoopGoesTo, Stages
  <2> QED
    BY <1>4, <2>1, <2>2 DEF LoopStep
<1>5. CASE Tick
  <2>1. left' \in 0 .. Valid /\ timer' \in -1 .. Valid
    BY <1>5, LessInRange DEF TypeOK, Tick
  <2>2. call' \in [Callers -> 0 .. Valid]
    BY <1>5, LessInRange DEF TypeOK, Tick
  <2>3. ctx' \in [Callers -> -1 .. Valid]
    BY <1>5, LessInRange DEF TypeOK, Tick
  <2> QED
    BY <1>5, <2>1, <2>2, <2>3, Zenon DEF TypeOK, Tick
<1>6. ASSUME NEW g \in Markers, StopTimer(g) PROVE TypeOK'
  BY <1>6 DEF TypeOK, StopTimer
<1>7. ASSUME NEW g \in Callers, CallStep(g) PROVE TypeOK'
  <2>1. g \in Markers
    BY DEF Markers
  <2>2. CASE Enter(g)
    <3>1. lost' \in BOOLEAN /\ marking' \subseteq Markers
      BY <2>1, <2>2, LossTyped, Zenon DEF Enter
    <3>2. /\ at' \in [Callers -> Stages]
          /\ ctx' \in [Callers -> -1 .. Valid]
          /\ result' \in [Callers -> Results \cup {"none"}]
      BY <2>2 DEF TypeOK, Enter, Refused, Stages, Results
    <3> QED
      BY <2>2, <3>1, <3>2 DEF TypeOK, Enter
  <2>3. CASE Send(g)
    BY <2>3 DEF TypeOK, Send, Stages
  <2>4. CASE Leave(g)
    <3>1. lost' \in BOOLEAN /\ marking' \subseteq Markers
      BY <2>1, <2>4, LossTyped, Zenon DEF Leave
    <3>2. result' \in [Callers -> Results \cup {"none"}]
      BY <2>4 DEF TypeOK, Leave, Results
    <3> QED
      BY <2>4, <3>1, <3>2 DEF TypeOK, Leave, Stages
  <2> QED
    BY <1>7, <2>2, <2>3, <2>4 DEF CallStep
<1>8. ASSUME NEW g \in Callers, CallReply(g) PROVE TypeOK'
  <2> PICK r \in Results : Reply(g, r)
    BY <1>8 DEF CallReply
  <2>1. left' \in 0 .. Valid /\ result'[g] \in Results
    BY ReplyInRange
  <2> QED
    BY <2>1 DEF TypeOK, Reply, Stages
<1>9. ASSUME NEW g \in Callers, CallDeadline(g) \/ CallbackRuns(g) PROVE TypeOK'
  <2>1. Callback(g) \in Markers
    BY DEF Markers
  <2>2. CASE CallDeadline(g)
    BY <2>2 DEF TypeOK, CallDeadline
  <2>3. CASE CallbackRuns(g)
    <3>1. lost' \in BOOLEAN /\ marking' \subseteq Markers
      BY <2>1, <2>3, LossTyped, Zenon DEF CallbackRuns
    <3> QED
      BY <2>3, <3>1 DEF TypeOK, CallbackRuns
  <2> QED
    BY <1>9, <2>2, <2>3
<1>10. ASSUME NEW u \in Unlockers, Unlock(u) PROVE TypeOK'
  BY <1>10 DEF TypeOK, Unlock
<1>11. ASSUME NEW u \in Unlockers, UnlockStep(u) PROVE TypeOK'
  <2>1. u \in Markers
    BY DEF Markers
  <2>2. CASE UnlockEnters(u)
    <3>1. lost' \in BOOLEAN /\ marking' \subseteq Markers
      BY <2>1, <2>2, LossTyped, Zenon DEF UnlockEnters
    <3>2. releaseMu' \in Unlockers \cup {"free"} /\ released' \in BOOLEAN
      BY <2>2, Zenon DEF TypeOK, UnlockEnters
    <3>3. unlock' \in [Unlockers -> UnlockStages]
      <4>1. "idle" \in UnlockStages /\ "stopping" \in UnlockStages
        BY Zenon DEF UnlockStages
      <4>2. \A s \in UnlockStages : [unlock EXCEPT ![u] = s] \in [Unlockers -> UnlockStages]
        BY UnlockGoes, Zenon
      <4>3. \E s \in {"idle", "stopping"} : unlock' = [unlock EXCEPT ![u] = s]
        BY <2>2, Zenon DEF UnlockEnters
      <4> QED
        BY <4>1, <4>2, <4>3, Zenon
    <3>4. UNCHANGED <<left, timerVars, callVars, loopVars, releaseDone, unlocks>>
      BY <2>2, Zenon DEF UnlockEnters
    <3> QED
      BY <3>1, <3>2, <3>3, <3>4, Zenon DEF TypeOK, UnlockStages, timerVars, callVars, loopVars
  <2>3. CASE UnlockStops(u)
    <3>1. reported' \in Seq({"lost", "released"})
      <4>1. reported \in Seq({"lost", "released"})
        BY Zenon DEF TypeOK
      <4>2. reported' \in {reported, Append(reported, "released")}
        BY <2>3, Zenon DEF UnlockStops
      <4> QED
        BY <4>1, <4>2, AppendReason, Zenon
    <3>2. stop' \in BOOLEAN /\ stopOnce' \in BOOLEAN
      BY <2>3, Zenon DEF TypeOK, UnlockStops
    <3>3. unlock' \in [Unlockers -> UnlockStages]
      <4>1. "releasing" \in UnlockStages /\ "joining" \in UnlockStages
        BY Zenon DEF UnlockStages
      <4>2. \A s \in UnlockStages : [unlock EXCEPT ![u] = s] \in [Unlockers -> UnlockStages]
        BY UnlockGoes, Zenon
      <4>3. \E s \in {"releasing", "joining"} : unlock' = [unlock EXCEPT ![u] = s]
        BY <2>3, Zenon DEF UnlockStops
      <4> QED
        BY <4>1, <4>2, <4>3, Zenon
    <3>4. UNCHANGED <<left, lossVars, timerVars, callVars, mode, released, releaseDone, releaseMu,
                      unlocks>>
      BY <2>3, Zenon DEF UnlockStops
    <3> QED
      BY <3>1, <3>2, <3>3, <3>4, Zenon DEF TypeOK, UnlockStages, lossVars, timerVars, callVars
  <2>4. CASE UnlockJoins(u)
    BY <2>4 DEF TypeOK, UnlockJoins
  <2> QED
    BY <1>11, <2>2, <2>3, <2>4 DEF UnlockStep
<1>12. ASSUME NEW u \in Unlockers, ReleaseReply(u) PROVE TypeOK'
  BY <1>12 DEF TypeOK, ReleaseReply, UnlockReturns
<1>13. CASE UNCHANGED vars
  BY <1>13 DEF TypeOK, vars
<1> QED
  BY <1>1, <1>2, <1>3, <1>4, <1>5, <1>6, <1>7, <1>8, <1>9, <1>10, <1>11,
     <1>12, <1>13 DEF Next

(* Neither marking a loss nor checking the deadline leaves a timer behind.   *)
LEMMA TimerStep == TypeOK /\ TimerInv /\ [Next]_vars => TimerInv'
<1> SUFFICES ASSUME TypeOK, TimerInv, [Next]_vars PROVE TimerInv'
  OBVIOUS
<1> USE DEF TimerInv, NoTimerLeft
<1>1. ASSUME NEW g, CancelLost(g), UNCHANGED timerVars PROVE TimerInv'
  BY <1>1, Zenon DEF CancelLost
<1>2. CASE UNCHANGED <<lossVars, timerVars>>
  BY <1>2, Zenon
<1>3. CASE TimerFires
  BY <1>3 DEF TimerFires
<1>4. CASE CheckLocks
  BY <1>4, Zenon DEF CheckLocks
<1>5. CASE CheckReads
  <2>1. check' = "off" /\ marking' = marking
    BY <1>5 DEF CheckReads
  <2>2. CASE lost
    BY <2>1, <2>2, <1>5 DEF CheckReads
  <2>3. CASE ~lost /\ left = 0
    BY <2>1, <2>3, <1>5 DEF CheckReads
  <2>4. CASE ~lost /\ left # 0
    <3>1. ~lost'
      BY <2>4, <1>5, Zenon DEF CheckReads
    <3> QED
      BY <3>1, <2>1
  <2> QED
    BY <2>2, <2>3, <2>4
<1>6. ASSUME NEW g \in Markers, StopTimer(g) PROVE TimerInv'
  BY <1>6 DEF StopTimer
<1>7. CASE Tick
  BY <1>7 DEF Tick, Less, TypeOK
<1>8. ASSUME NEW g \in Callers,
             CallStep(g) \/ CallReply(g) \/ CallDeadline(g) \/ CallbackRuns(g)
      PROVE  TimerInv'
  BY <1>1, <1>2, <1>8, Zenon
     DEF CallStep, Enter, Send, Leave, CallReply, Reply, CallDeadline, CallbackRuns
<1>9. ASSUME NEW u \in Unlockers, Unlock(u) \/ UnlockStep(u) \/ ReleaseReply(u)
      PROVE  TimerInv'
  BY <1>1, <1>2, <1>9, Zenon
     DEF Unlock, UnlockStep, UnlockEnters, UnlockStops, UnlockJoins, ReleaseReply,
         UnlockReturns
<1>10. CASE HandOut \/ UserRenew \/ UserReturns \/ LoopStep
  BY <1>1, <1>2, <1>10, Zenon
     DEF HandOut, UserRenew, UserReturns, LoopStep, LoopTick, LoopReturns, LoopExits
<1>11. CASE UNCHANGED vars
  BY <1>2, <1>11 DEF vars
<1> QED
  BY <1>3, <1>4, <1>5, <1>6, <1>7, <1>8, <1>9, <1>10, <1>11 DEF Next, CheckStep

(* The loop, once over, stays over; what it and the user do in between        *)
(* touches nothing else that release looks at.                               *)
LEMMA LoopStaysOver ==
    ASSUME TypeOK, JoinInv, UNCHANGED <<mode, stopOnce, releaseMu, unlock>>,
           at["loop"] \in {"off", "exited"} => at'["loop"] = at["loop"],
           Handed' = Handed
    PROVE  JoinInv'
  BY DEF JoinInv, Handed, Inside

(* Nobody gets past Renewer.Stop, or past stopOnce, before the loop is over.  *)
LEMMA JoinStep == TypeOK /\ JoinInv /\ [Next]_vars => JoinInv'
<1> SUFFICES ASSUME TypeOK, JoinInv, [Next]_vars PROVE JoinInv'
  OBVIOUS
<1>1. CASE HandOut
  BY <1>1 DEF HandOut, TypeOK, JoinInv, Handed, Inside
<1>2. CASE TimerFires \/ CheckStep \/ Tick
  BY <1>2, LoopStaysOver
     DEF TimerFires, CheckStep, CheckLocks, CheckReads, Tick, Handed
<1>3. CASE UserRenew \/ UserReturns
  BY <1>3, LoopStaysOver DEF UserRenew, UserReturns, Handed, TypeOK
<1>4. CASE LoopStep
  BY <1>4, LoopStaysOver
     DEF LoopStep, LoopTick, LoopReturns, LoopExits, Handed, TypeOK
<1>5. ASSUME NEW g \in Markers, StopTimer(g) PROVE JoinInv'
  BY <1>5, LoopStaysOver DEF StopTimer, Handed
<1>6. ASSUME NEW g \in Callers, CallStep(g) PROVE JoinInv'
  BY <1>6, LoopStaysOver
     DEF CallStep, Enter, Refused, Send, Leave, Handed, TypeOK
<1>7. ASSUME NEW g \in Callers, CallReply(g) PROVE JoinInv'
  BY <1>7, LoopStaysOver DEF CallReply, Reply, Handed, TypeOK
<1>8. ASSUME NEW g \in Callers, CallDeadline(g) \/ CallbackRuns(g) PROVE JoinInv'
  BY <1>8, LoopStaysOver DEF CallDeadline, CallbackRuns, Handed
<1>9. ASSUME NEW u \in Unlockers, Unlock(u) \/ UnlockStep(u) \/ ReleaseReply(u)
      PROVE  JoinInv'
  <2> USE DEF TypeOK, JoinInv, Handed, Inside
  <2>1. CASE Unlock(u)
    BY <2>1 DEF Unlock
  <2>2. CASE UnlockEnters(u)
    BY <2>2 DEF UnlockEnters
  <2>3. CASE UnlockStops(u)
    BY <2>3 DEF UnlockStops
  <2>4. CASE UnlockJoins(u)
    BY <2>4 DEF UnlockJoins
  <2>5. CASE ReleaseReply(u)
    BY <2>5 DEF ReleaseReply, UnlockReturns
  <2> QED
    BY <1>9, <2>1, <2>2, <2>3, <2>4, <2>5 DEF UnlockStep
<1>10. CASE UNCHANGED vars
  BY <1>10, LoopStaysOver DEF vars, Handed
<1> QED
  BY <1>1, <1>2, <1>3, <1>4, <1>5, <1>6, <1>7, <1>8, <1>9, <1>10 DEF Next

(* The invariant behind the two theorems holds, with no fairness assumed.    *)
THEOREM GuardInductive == HangingSpec => []GuardInv
<1>1. Init => GuardInv
  <2> SUFFICES ASSUME Init PROVE GuardInv
    OBVIOUS
  <2>1. reported \in Seq({"lost", "released"})
    BY DEF Init
  <2>2. check \in {"off", "locking", "locked"} /\ check # "locked"
    BY DEF Init
  <2>3. TypeOK
    <3>1. /\ lost \in BOOLEAN /\ released \in BOOLEAN /\ releaseDone \in BOOLEAN
          /\ stop \in BOOLEAN /\ stopOnce \in BOOLEAN
      BY Zenon DEF Init
    <3>2. /\ at \in [Callers -> Stages]
          /\ call \in [Callers -> 0 .. Valid]
          /\ ctx \in [Callers -> -1 .. Valid]
          /\ result \in [Callers -> Results \cup {"none"}]
      BY DEF Init, Stages
    <3>3. /\ unlock \in [Unlockers -> {"off", "idle", "locking", "stopping",
                                        "joining", "releasing"}]
          /\ unlocks \in [Unlockers -> 0 .. MaxUnlocks]
          /\ releaseMu \in Unlockers \cup {"free"}
      BY DEF Init
    <3>4. /\ mode \in Modes /\ left \in 0 .. Valid /\ timer \in -1 .. Valid
          /\ marking \subseteq Markers /\ late \subseteq Callers
      BY DEF Init
    <3> QED
      BY <2>1, <2>2, <3>1, <3>2, <3>3, <3>4 DEF TypeOK
  <2>4. TimerInv
    BY <2>2 DEF Init, TimerInv, NoTimerLeft
  <2>5. JoinInv
    BY DEF Init, JoinInv, Handed, Inside
  <2> QED
    BY <2>3, <2>4, <2>5 DEF GuardInv
<1>2. GuardInv /\ [Next]_vars => GuardInv'
  BY GuardTypeStep, TimerStep, JoinStep DEF GuardInv
<1> QED
  BY <1>1, <1>2, PTL DEF HangingSpec

(* No guard leaves a deadline timer armed once its loss has been marked.     *)
THEOREM TimersStop == HangingSpec => []NoTimerLeft
<1>1. GuardInv => NoTimerLeft
  BY DEF GuardInv, TimerInv
<1> QED
  BY <1>1, GuardInductive, PTL

(* Release is only ever sent after the background loop is over, also by an   *)
(* Unlock that repeats a failed release and never called Stop itself.        *)
THEOREM ReleaseAfterJoin == HangingSpec => []LoopJoined
<1>1. GuardInv => LoopJoined
  BY DEF GuardInv, TypeOK, JoinInv, LoopJoined, Inside
<1> QED
  BY <1>1, GuardInductive, PTL

(* A passed or cleared local deadline never comes back, whatever renewals    *)
(* are still under way.                                                      *)
THEOREM DeadlineStays == HangingSpec => DeadlineIsFinal
<1>1. TypeOK /\ [Next]_vars => (left = 0 => left' = 0)
  <2> SUFFICES ASSUME TypeOK, [Next]_vars, left = 0 PROVE left' = 0
    OBVIOUS
  <2>1. ASSUME NEW g \in Callers, CallReply(g) PROVE left' = 0
    BY <2>1 DEF CallReply, Reply, Confirms
  <2>2. ASSUME NEW u \in Unlockers, ReleaseReply(u) PROVE left' = 0
    BY <2>2 DEF ReleaseReply, UnlockReturns
  <2>3. CASE Tick
    BY <2>3 DEF Tick, Less
  <2> QED
    BY <2>1, <2>2, <2>3
       DEF Next, vars, HandOut, TimerFires, CheckStep, CheckLocks, CheckReads,
           UserRenew, UserReturns, LoopStep, LoopTick, LoopReturns, LoopExits,
           StopTimer, CallStep, Enter, Send, Leave, CallDeadline, CallbackRuns,
           Unlock, UnlockStep, UnlockEnters, UnlockStops, UnlockJoins
<1>2. GuardInv => TypeOK
  BY DEF GuardInv
<1> QED
  BY <1>1, <1>2, GuardInductive, PTL DEF HangingSpec, DeadlineIsFinal

(* A guard is only ever lost for a reason: a release, a passed deadline or   *)
(* the answer that the lease is gone, never a transport error alone.         *)
THEOREM LossIsCaused == HangingSpec => LossHasCause
<1> DEFINE Cause == released' \/ left = 0 \/ \E g \in Callers : result[g] = "lost"
<1>1. [Next]_vars => (lost' /\ ~lost => Cause)
  <2> SUFFICES ASSUME [Next]_vars, lost', ~lost PROVE Cause
    OBVIOUS
  <2>1. CASE CheckReads
    BY <2>1, Zenon DEF CheckReads
  <2>2. ASSUME NEW g \in Callers, Enter(g) PROVE Cause
    BY <2>2, Zenon DEF Enter, CancelLost
  <2>3. ASSUME NEW g \in Callers, Leave(g) PROVE Cause
    BY <2>3, Zenon DEF Leave, Fatal, CancelLost
  <2>4. ASSUME NEW g \in Callers, CallbackRuns(g) PROVE Cause
    BY <2>4, Zenon DEF CallbackRuns
  <2>5. CASE LoopReturns
    <3>1. LoopGoesTo = "onLost"
      BY <2>5, Zenon DEF LoopReturns
    <3> QED
      BY <3>1 DEF LoopGoesTo
  <2>6. ASSUME NEW u \in Unlockers, UnlockEnters(u) PROVE Cause
    BY <2>6, Zenon DEF UnlockEnters
  <2>7. CASE lost' = lost
    BY <2>7, Zenon
  <2> QED
    BY <2>1, <2>2, <2>3, <2>4, <2>5, <2>6, <2>7, Zenon
       DEF Next, vars, HandOut, TimerFires, CheckStep, CheckLocks,
           UserRenew, UserReturns, LoopStep, LoopTick, LoopExits,
           StopTimer, CallStep, Send, CallReply, Reply, CallDeadline,
           Unlock, UnlockStep, UnlockStops, UnlockJoins, ReleaseReply, UnlockReturns, Tick
<1> QED
  BY <1>1, PTL DEF HangingSpec, LossHasCause

============================================================================
