------------------------- MODULE SingleOwnerProofs -------------------------
(* Proofs about SingleOwner, for every set of leases, TTL, margin and bound. *)
EXTENDS SingleOwner, TLAPS

USE LeasesAssumption, TimeAssumption, ModeAssumption DEF keyVars, timeVars, grantVars

(* Every operation of the clients, the server and the transport keeps the    *)
(* state well typed.                                                         *)
LEMMA TypeStep == TypeOK /\ [Next]_vars => TypeOK'
<1> SUFFICES ASSUME TypeOK, [Next]_vars PROVE TypeOK'
  OBVIOUS
<1> USE DEF TypeOK, Stages
<1>1. ASSUME NEW l \in Leases, LeaseStep(l) PROVE TypeOK'
  <2>1. CASE StartAcquire(l)
    BY <2>1 DEF StartAcquire, RequestExpiry
  <2>2. CASE ServeGrant(l)
    BY <2>2 DEF ServeGrant, AcquireGrants, InOrder
  <2>3. CASE ServeDenial(l)
    BY <2>3 DEF ServeDenial, AcquireDenies, InOrder
  <2>4. CASE ResendAcquire(l)
    BY <2>4 DEF ResendAcquire, Abandon, AcquireReq, Request
  <2>5. CASE FailAcquire(l)
    BY <2>5 DEF FailAcquire, EndAcquire, Abandon, AcquireReq, Request
  <2>6. CASE ReceiveGrant(l)
    BY <2>6 DEF ReceiveGrant, EndAcquire
  <2>7. CASE ReceiveLateGrant(l) \/ Backoff(l) \/ GiveUp(l)
    BY <2>7 DEF ReceiveLateGrant, Backoff, GiveUp, EndAcquire
  <2>8. CASE ServeDiscard(l) \/ ServeRelease(l)
    BY <2>8 DEF ServeDiscard, ServeRelease, ReleaseScript
  <2>9. CASE ResendDiscard(l) \/ FailDiscard(l)
    BY <2>9 DEF ResendDiscard, FailDiscard, Abandon, ReleaseReq, Request
  <2>10. ASSUME NEW by \in Callers, CheckCall(l, by) PROVE TypeOK'
    BY <2>10 DEF CheckCall, Operation, Call
  <2>11. CASE DeadlineOver(l) \/ Unlock(l) \/ SendRelease(l)
    BY <2>11 DEF DeadlineOver, Unlock, SendRelease
  <2>12. CASE ResendRelease(l) \/ FailRelease(l)
    BY <2>12 DEF ResendRelease, FailRelease, Abandon, ReleaseReq, Request
  <2>13. CASE ReceiveRelease(l)
    BY <2>13 DEF ReceiveRelease
  <2> QED
    BY <1>1, <2>1, <2>2, <2>3, <2>4, <2>5, <2>6, <2>7, <2>8, <2>9, <2>10,
       <2>11, <2>12, <2>13 DEF LeaseStep
<1>2. ASSUME NEW c \in calls, CallStep(c) PROVE TypeOK'
  <2> USE DEF Call
  <2>1. CASE SendCall(c)
    <3>1. (IF c.op = "renew" THEN RequestExpiry(c.lease) ELSE 0) \in Nat
      BY DEF RequestExpiry
    <3> QED
      BY <2>1, <3>1, Zenon DEF SendCall
  <2>2. CASE ServeCall(c)
    BY <2>2 DEF ServeCall, RenewScript, Progress
  <2>3. CASE ResendCall(c)
    BY <2>3 DEF ResendCall, Progress, AbandonCall, Abandon, RenewReq, Request
  <2>4. CASE FailCall(c)
    BY <2>4 DEF FailCall, AbandonCall, Abandon, RenewReq, Request
  <2>5. CASE ReceiveRenewed(c)
    BY <2>5 DEF ReceiveRenewed
  <2>6. CASE ReceiveHeld(c) \/ ReceiveGone(c)
    BY <2>6 DEF ReceiveHeld, ReceiveGone
  <2> QED
    BY <1>2, <2>1, <2>2, <2>3, <2>4, <2>5, <2>6 DEF CallStep
<1>3. ASSUME NEW g \in ghosts, ServeGhost(g) PROVE TypeOK'
  BY <1>3 DEF ServeGhost, AcquireGrants, AcquireDenies, RenewScript,
              ReleaseScript, Request
<1>4. CASE Tick
  BY <1>4 DEF Tick
<1>5. CASE Restart
  BY <1>5 DEF Restart
<1>6. CASE UNCHANGED vars
  BY <1>6 DEF vars
<1> QED
  BY <1>1, <1>2, <1>3, <1>4, <1>5, <1>6 DEF Next

(* The state of clients, server and transport is always well typed.          *)
THEOREM Typed == Spec => []TypeOK
<1>1. Init => TypeOK
  BY DEF Init, TypeOK, Stages
<1> QED
  BY <1>1, TypeStep, PTL DEF Spec

---------------------------------------------------------------------------
(* What a step can do to the key.                                            *)

KeySet(l) ==
    /\ ~KeyExists /\ fencing < MaxFence
    /\ owner' = l /\ expireAt' = now + TTL /\ fencing' = fencing + 1
    /\ pc[l] = "acquiring" \/ AcquireReq(l) \in ghosts

KeyExtended(l) ==
    /\ Owns(l)
    /\ owner' = owner /\ expireAt' = now + TTL /\ fencing' = fencing

KeyDeleted(l) ==
    /\ Owns(l)
    /\ owner' = NoOwner /\ expireAt' = expireAt /\ fencing' = fencing
    /\ pc[l] \in {"discarding", "releasing"} \/ ReleaseReq(l) \in ghosts

KeyChanged(l) == KeySet(l) \/ KeyExtended(l) \/ KeyDeleted(l)

(* The three scripts are the only way to the key: a step leaves it alone, or *)
(* sets, extends or deletes it for a lease that has such a request under way,*)
(* no clock moves then.                                                       *)
LEMMA KeyStep ==
    ASSUME TypeOK, [Next]_vars
    PROVE  \/ UNCHANGED keyVars
           \/ UNCHANGED timeVars /\ \E l \in Leases : KeyChanged(l)
           \/ Restart
<1> USE DEF TypeOK
<1>1. ASSUME NEW l \in Leases, LeaseStep(l)
      PROVE  UNCHANGED keyVars \/ (UNCHANGED timeVars /\ KeyChanged(l))
  <2>1. CASE ServeGrant(l)
    BY <2>1 DEF ServeGrant, AcquireGrants, KeyChanged, KeySet
  <2>2. CASE ServeDiscard(l) \/ ServeRelease(l)
    BY <2>2 DEF ServeDiscard, ServeRelease, ReleaseScript, KeyChanged, KeyDeleted
  <2>3. CASE ~ServeGrant(l) /\ ~ServeDiscard(l) /\ ~ServeRelease(l)
    BY <1>1, <2>3, Zenon DEF LeaseStep, StartAcquire, ServeDenial, AcquireDenies,
      ResendAcquire, FailAcquire, ReceiveGrant, ReceiveLateGrant, Backoff, GiveUp,
      ResendDiscard, FailDiscard, CheckCall, DeadlineOver, Unlock, SendRelease,
      ResendRelease, FailRelease, ReceiveRelease
  <2> QED
    BY <2>1, <2>2, <2>3
<1>2. ASSUME NEW c \in calls, CallStep(c)
      PROVE  UNCHANGED keyVars \/ (UNCHANGED timeVars /\ KeyChanged(c.lease))
  BY <1>2 DEF CallStep, SendCall, ServeCall, RenewScript, ResendCall, FailCall,
     ReceiveRenewed, ReceiveHeld, ReceiveGone, KeyChanged, KeyExtended
<1>3. ASSUME NEW g \in ghosts, ServeGhost(g)
      PROVE  UNCHANGED keyVars \/ (UNCHANGED timeVars /\ KeyChanged(g.lease))
  <2>1. g \in Request
    OBVIOUS
  <2>2. /\ g.op = "acquire" => AcquireReq(g.lease) \in ghosts
        /\ g.op = "release" => ReleaseReq(g.lease) \in ghosts
    BY <2>1 DEF Request, AcquireReq, ReleaseReq
  <2> QED
    BY <1>3, <2>1, <2>2 DEF ServeGhost, AcquireGrants, AcquireDenies, RenewScript,
       ReleaseScript, KeyChanged, KeySet, KeyExtended, KeyDeleted
<1>4. CASE Tick \/ UNCHANGED vars
  BY <1>4 DEF Tick, vars
<1>5. \A c \in calls : c.lease \in Leases
  BY DEF Call
<1>6. \A g \in ghosts : g.lease \in Leases
  BY DEF Request
<1> QED
  BY <1>1, <1>2, <1>3, <1>4, <1>5, <1>6 DEF Next

(* The steps of a lease, by the part of its life they belong to.             *)
Asks(l) ==
    StartAcquire(l) \/ ServeGrant(l) \/ ServeDenial(l) \/ ResendAcquire(l) \/ FailAcquire(l)
Learns(l) == ReceiveGrant(l) \/ ReceiveLateGrant(l) \/ Backoff(l) \/ GiveUp(l)
Settles(l) ==
    \/ ServeDiscard(l) \/ ResendDiscard(l) \/ FailDiscard(l)
    \/ DeadlineOver(l) \/ \E by \in Callers : CheckCall(l, by)
Frees(l) ==
    \/ Unlock(l) \/ SendRelease(l) \/ ServeRelease(l)
    \/ ResendRelease(l) \/ FailRelease(l) \/ ReceiveRelease(l)

(* There are no others.                                                      *)
LEMMA LeaseParts ==
    ASSUME NEW l, LeaseStep(l)
    PROVE  Asks(l) \/ Learns(l) \/ Settles(l) \/ Frees(l)
  BY Zenon DEF LeaseStep, Asks, Learns, Settles, Frees

(* A step that is not lease l's own leaves l's goroutine and its locals alone *)
(* and leaves no new copy of an acquire or release request of l behind.      *)
LEMMA Untouched ==
    ASSUME TypeOK, [Next]_vars, NEW l \in Leases, ~LeaseStep(l)
    PROVE  /\ pc'[l] = pc[l] /\ deadline'[l] = deadline[l]
           /\ reply'[l] = reply[l] /\ fence'[l] = fence[l]
           /\ AcquireReq(l) \in ghosts' => AcquireReq(l) \in ghosts
           /\ ReleaseReq(l) \in ghosts' => ReleaseReq(l) \in ghosts
<1> DEFINE Goal == /\ pc'[l] = pc[l] /\ deadline'[l] = deadline[l]
                   /\ reply'[l] = reply[l] /\ fence'[l] = fence[l]
                   /\ AcquireReq(l) \in ghosts' => AcquireReq(l) \in ghosts
                   /\ ReleaseReq(l) \in ghosts' => ReleaseReq(l) \in ghosts
<1> USE DEF TypeOK
<1>1. ASSUME NEW k \in Leases, k # l, LeaseStep(k) PROVE Goal
  <2>1. CASE Asks(k)
    BY <1>1, <2>1 DEF Asks, StartAcquire, ServeGrant, ServeDenial, ResendAcquire,
       FailAcquire, InOrder, EndAcquire, Abandon, AcquireReq, ReleaseReq
  <2>2. CASE Learns(k)
    BY <1>1, <2>2 DEF Learns, ReceiveGrant, ReceiveLateGrant, Backoff, GiveUp, EndAcquire,
       Abandon, AcquireReq, ReleaseReq
  <2>3. CASE Settles(k)
    BY <1>1, <2>3 DEF Settles, ServeDiscard, ResendDiscard, FailDiscard, DeadlineOver,
       CheckCall, EndAcquire, Abandon, AcquireReq, ReleaseReq
  <2>4. CASE Frees(k)
    BY <1>1, <2>4 DEF Frees, Unlock, SendRelease, ServeRelease, ResendRelease, FailRelease,
       ReceiveRelease, EndAcquire, Abandon, AcquireReq, ReleaseReq
  <2> QED
    BY <1>1, <2>1, <2>2, <2>3, <2>4, LeaseParts, Zenon
<1>2. ASSUME NEW c \in calls, CallStep(c) PROVE Goal
  BY <1>2 DEF CallStep, SendCall, ServeCall, ResendCall, FailCall, ReceiveRenewed,
     ReceiveHeld, ReceiveGone, AbandonCall, Abandon, AcquireReq, RenewReq, ReleaseReq
<1>3. ASSUME NEW g \in ghosts, ServeGhost(g) PROVE Goal
  BY <1>3 DEF ServeGhost
<1>4. CASE Tick \/ Restart \/ UNCHANGED vars
  BY <1>4 DEF Tick, Restart, vars
<1> QED
  BY <1>1, <1>2, <1>3, <1>4 DEF Next

(* A canceled lostCtx stays canceled.                                        *)
LEMMA LostGrows == ASSUME TypeOK, [Next]_vars PROVE lost \subseteq lost'
<1>1. ASSUME NEW l \in Leases, LeaseStep(l) PROVE lost \subseteq lost'
  BY <1>1, Zenon DEF LeaseStep, StartAcquire, ServeGrant, ServeDenial,
     ResendAcquire, FailAcquire, ReceiveGrant, ReceiveLateGrant, Backoff, GiveUp,
     ServeDiscard, ResendDiscard, FailDiscard, CheckCall, DeadlineOver, Unlock,
     SendRelease, ServeRelease, ResendRelease, FailRelease, ReceiveRelease
<1>2. ASSUME NEW c \in calls, CallStep(c) PROVE lost \subseteq lost'
  BY <1>2 DEF CallStep, SendCall, ServeCall, ResendCall, FailCall, ReceiveRenewed,
     ReceiveHeld, ReceiveGone
<1> QED
  BY <1>1, <1>2 DEF Next, ServeGhost, Tick, Restart, vars

(* A lease in use after a step was in use before, with the same token and a  *)
(* deadline that only Renew's confirmed reply can have moved, or has just    *)
(* been granted.                                                             *)
LEMMA UseStep ==
    ASSUME TypeOK, [Next]_vars, NEW l \in Leases, InUse(l)'
    PROVE  \/ ReceiveGrant(l)
           \/ /\ InUse(l) /\ fence'[l] = fence[l]
              /\ \/ expiresAt'[l] = expiresAt[l]
                 \/ \E c \in calls : /\ c.lease = l /\ c.st = "ok" /\ c.op = "renew"
                                      /\ expiresAt'[l] = c.deadline
<1> DEFINE Same == InUse(l) /\ fence'[l] = fence[l]
           Deadline == \/ expiresAt'[l] = expiresAt[l]
                       \/ \E c \in calls : /\ c.lease = l /\ c.st = "ok" /\ c.op = "renew"
                                            /\ expiresAt'[l] = c.deadline
<1> USE DEF TypeOK, InUse, Expired
<1>1. CASE LeaseStep(l)
  BY <1>1, Zenon DEF LeaseStep, StartAcquire, ServeGrant, ServeDenial,
     ResendAcquire, FailAcquire, ReceiveLateGrant, Backoff, GiveUp,
     ServeDiscard, ResendDiscard, FailDiscard, CheckCall, DeadlineOver, Unlock,
     SendRelease, ServeRelease, ResendRelease, FailRelease, ReceiveRelease
<1>2. ASSUME NEW k \in Leases, LeaseStep(k), k # l PROVE Same /\ Deadline
  <2>1. CASE Asks(k)
    BY <1>2, <2>1 DEF Asks, StartAcquire, ServeGrant, ServeDenial, ResendAcquire, FailAcquire
  <2>2. CASE Learns(k)
    BY <1>2, <2>2 DEF Learns, ReceiveGrant, ReceiveLateGrant, Backoff, GiveUp
  <2>3. CASE Settles(k)
    BY <1>2, <2>3, Zenon DEF Settles, ServeDiscard, ResendDiscard, FailDiscard, DeadlineOver,
       CheckCall
  <2>4. CASE Frees(k)
    BY <1>2, <2>4 DEF Frees, Unlock, SendRelease, ServeRelease, ResendRelease, FailRelease,
       ReceiveRelease
  <2> QED
    BY <1>2, <2>1, <2>2, <2>3, <2>4, LeaseParts, Zenon
<1>3. ASSUME NEW c \in calls, CallStep(c) PROVE Same /\ Deadline
  <2>1. CASE ReceiveRenewed(c)
    <3>1. c.lease \in Leases
      BY DEF Call
    <3> QED
      BY <2>1, <3>1 DEF ReceiveRenewed, MayExtend
  <2>2. CASE ~ReceiveRenewed(c)
    BY <1>3, <2>2 DEF CallStep, SendCall, ServeCall, ResendCall, FailCall,
       ReceiveHeld, ReceiveGone
  <2> QED
    BY <2>1, <2>2
<1>4. CASE Tick
  BY <1>4 DEF Tick
<1>5. CASE UNCHANGED vars \/ Restart \/ \E g \in ghosts : ServeGhost(g)
  BY <1>5, Zenon DEF vars, Restart, ServeGhost
<1> QED
  BY <1>1, <1>2, <1>3, <1>4, <1>5 DEF Next

(* What the stage of a lease says about its guard, its lostCtx and its       *)
(* release requests, whatever the transport and the server do.               *)
LEMMA StageStep ==
    ASSUME TypeOK, StageInv, [Next]_vars PROVE StageInv'
<1> SUFFICES ASSUME NEW l \in Leases
             PROVE  /\ fence'[l] # 0 => pc'[l] \in Guarded
                    /\ pc'[l] \in Unlocking => l \in lost'
                    /\ ReleaseReq(l) \in ghosts' =>
                          pc'[l] \in {"discarding", "failed"} \cup Unlocking
  BY DEF StageInv, ReleaseReq
<1> USE DEF TypeOK, StageInv, Guarded, Unlocking
<1>1. CASE LeaseStep(l)
  <2>1. CASE Asks(l)
    BY <1>1, <2>1 DEF Asks, StartAcquire, ServeGrant, ServeDenial, ResendAcquire,
       FailAcquire, InOrder, EndAcquire, Abandon, AcquireReq, ReleaseReq
  <2>2. CASE Learns(l)
    BY <1>1, <2>2 DEF Learns, ReceiveGrant, ReceiveLateGrant, Backoff, GiveUp, EndAcquire,
       Abandon, AcquireReq, ReleaseReq
  <2>3. CASE Settles(l)
    BY <1>1, <2>3 DEF Settles, ServeDiscard, ResendDiscard, FailDiscard, DeadlineOver,
       CheckCall, EndAcquire, Abandon, AcquireReq, ReleaseReq
  <2>4. CASE Frees(l)
    BY <1>1, <2>4 DEF Frees, Unlock, SendRelease, ServeRelease, ResendRelease, FailRelease,
       ReceiveRelease, EndAcquire, Abandon, AcquireReq, ReleaseReq
  <2> QED
    BY <1>1, <2>1, <2>2, <2>3, <2>4, LeaseParts, Zenon
<1>2. CASE ~LeaseStep(l)
  BY <1>2, Untouched, LostGrows
<1> QED
  BY <1>1, <1>2

(* The stage invariant holds whatever the transport and the server do.       *)
THEOREM Staged == Spec => [](TypeOK /\ StageInv)
<1>1. Init => TypeOK /\ StageInv
  BY DEF Init, TypeOK, Stages, StageInv, Unlocking
<1>2. TypeOK /\ StageInv /\ [Next]_vars => (TypeOK /\ StageInv)'
  BY TypeStep, StageStep
<1> QED
  BY <1>1, <1>2, PTL DEF Spec

(* Loss is terminal for a guard: with requests in any order, with any clock  *)
(* drift and with a server that loses its data, a lease whose use has ended  *)
(* is never usable again.                                                    *)
THEOREM LossIsTerminal == Spec => NoRevival
<1>1. ASSUME TypeOK, StageInv, [Next]_vars
      PROVE  \A l \in Leases : fence[l] # 0 /\ ~InUse(l) => ~InUse(l)'
  BY <1>1, UseStep DEF StageInv, Guarded, Unlocking, ReceiveGrant
<1>2. TypeOK /\ StageInv /\ [Next]_vars
         => [\A l \in Leases : fence[l] # 0 /\ ~InUse(l) => ~InUse(l)']_vars
  BY <1>1
<1> QED
  BY <1>2, Staged, PTL DEF Spec, NoRevival

(* A stale holder never releases a newer owner's lease, with requests in any *)
(* order and with a server that loses its data.                              *)
THEOREM UnlockIsSafe == Spec => SafeUnlock
<1> DEFINE Safe == \A l \in Leases :
                      Owns(l) /\ owner' # l /\ expireAt' # 0 =>
                          l \in lost \/ pc[l] \in {"discarding", "failed"}
<1>1. ASSUME TypeOK, StageInv, [Next]_vars PROVE Safe
  BY <1>1, KeyStep DEF TypeOK, StageInv, Unlocking, KeyChanged, KeySet,
     KeyExtended, KeyDeleted, KeyExists, Owns, Restart
<1>2. TypeOK /\ StageInv /\ [Next]_vars => [Safe]_vars
  BY <1>1, Zenon
<1> QED
  BY <1>2, Staged, PTL DEF Spec, SafeUnlock

---------------------------------------------------------------------------
(* The server's expiry outlives the local deadline.                          *)

(* Only Tick moves a clock.                                                  *)
LEMMA TimeStep == ASSUME [Next]_vars PROVE UNCHANGED timeVars \/ Tick
<1>1. ASSUME NEW l \in Leases, LeaseStep(l) PROVE UNCHANGED timeVars
  <2>1. CASE Asks(l)
    BY <1>1, <2>1, Zenon DEF Asks, StartAcquire, ServeGrant, ServeDenial, ResendAcquire,
       FailAcquire
  <2>2. CASE Learns(l)
    BY <1>1, <2>2, Zenon DEF Learns, ReceiveGrant, ReceiveLateGrant, Backoff, GiveUp
  <2>3. CASE Settles(l)
    BY <1>1, <2>3, Zenon DEF Settles, ServeDiscard, ResendDiscard, FailDiscard, DeadlineOver,
       CheckCall
  <2>4. CASE Frees(l)
    BY <1>1, <2>4, Zenon DEF Frees, Unlock, SendRelease, ServeRelease, ResendRelease,
       FailRelease, ReceiveRelease
  <2> QED
    BY <1>1, <2>1, <2>2, <2>3, <2>4, LeaseParts, Zenon
<1>2. ASSUME NEW c \in calls, CallStep(c) PROVE UNCHANGED timeVars
  BY <1>2, Zenon DEF CallStep, SendCall, ServeCall, ResendCall, FailCall, ReceiveRenewed,
     ReceiveHeld, ReceiveGone
<1>3. CASE UNCHANGED vars \/ Restart \/ \E g \in ghosts : ServeGhost(g)
  BY <1>3, Zenon DEF vars, Restart, ServeGhost
<1> QED
  BY <1>1, <1>2, <1>3, Zenon DEF Next

(* The parts of the invariant about the clocks and the key.                  *)
LEMMA KeyInvStep ==
    ASSUME IndInv, [Next]_vars, ~DataLoss PROVE ClockInv' /\ KeyInv' /\ OwnerInv'
<1> USE DEF IndInv, TypeOK
<1>1. UNCHANGED timeVars \/ Tick
  BY TimeStep
<1>2. now' >= now /\ now' \in Nat
  BY <1>1 DEF Tick
<1>3. ClockInv'
  BY <1>1 DEF ClockInv, Tick
<1>4. \A l \in Leases : \/ fence'[l] = fence[l]
                        \/ ReceiveGrant(l)
  <2> TAKE l \in Leases
  <2>1. CASE LeaseStep(l)
    BY <2>1, Zenon DEF LeaseStep, StartAcquire, ServeGrant, ServeDenial,
       ResendAcquire, FailAcquire, ReceiveLateGrant, Backoff, GiveUp,
       ServeDiscard, ResendDiscard, FailDiscard, CheckCall, DeadlineOver, Unlock,
       SendRelease, ServeRelease, ResendRelease, FailRelease, ReceiveRelease
  <2>2. CASE ~LeaseStep(l)
    BY <2>2, Untouched, Zenon
  <2> QED
    BY <2>1, <2>2
<1>5. \A l \in Leases : ReceiveGrant(l) =>
         fence'[l] = fencing /\ owner = l /\ UNCHANGED keyVars
  BY DEF ReceiveGrant, AttemptInv, Owns
<1>6. \/ UNCHANGED keyVars
      \/ \E l \in Leases : KeyChanged(l)
  BY KeyStep DEF Restart
<1> HIDE DEF IndInv, TypeOK
<1>7. /\ now \in Nat /\ expireAt \in Nat /\ fencing \in Nat /\ fencing' \in Nat
      /\ \A l \in Leases : fence[l] \in Nat /\ fence'[l] \in Nat
      /\ KeyInv /\ OwnerInv
  BY TypeStep DEF IndInv, TypeOK
<1>8. KeyInv'
  <2>1. expireAt' <= now' + TTL
    BY <1>2, <1>6, <1>7 DEF KeyInv, KeyChanged, KeySet, KeyExtended, KeyDeleted
  <2>2. /\ fencing' <= MaxFence /\ fencing' >= fencing
        /\ owner' # NoOwner => fencing' >= 1
    BY <1>6, <1>7 DEF KeyInv, KeyChanged, KeySet, KeyExtended, KeyDeleted
  <2>3. \A l \in Leases : fence'[l] <= fencing'
    BY <1>4, <1>5, <1>7, <2>2 DEF KeyInv
  <2> QED
    BY <2>1, <2>2, <2>3 DEF KeyInv
<1>9. OwnerInv'
  BY <1>4, <1>5, <1>6, <1>7 DEF KeyInv, OwnerInv, KeyChanged, KeySet,
     KeyExtended, KeyDeleted, Owns
<1> QED
  BY <1>3, <1>8, <1>9

(* A lease in use, by its local deadline, still has its key on the server.   *)
LEMMA UseOwns ==
    ASSUME IndInv, NEW l \in Leases, InUse(l) PROVE Owns(l)
  BY DEF IndInv, TypeOK, ClockInv, UseInv, InUse, Expired, Owns

(* Nobody takes the key for a lease that has been denied it or has given it  *)
(* back.                                                                     *)
LEMMA QuietStep ==
    ASSUME IndInv, [Next]_vars, ~Overtaking, ~DataLoss PROVE QuietInv'
<1> SUFFICES ASSUME NEW l \in Leases
             PROVE  /\ pc'[l] \notin {"acquiring", "failed"} =>
                          AcquireReq(l) \notin ghosts'
                    /\ pc'[l] \in {"idle", "denied", "backoff", "freed",
                                   "notowner", "released"} => ~Owns(l)'
  BY DEF QuietInv, AcquireReq
<1>0. TypeOK /\ QuietInv
  BY Zenon DEF IndInv
<1>1. CASE LeaseStep(l)
  BY <1>0, <1>1 DEF TypeOK, QuietInv, Owns, KeyExists,
     LeaseStep, StartAcquire, ServeGrant, ServeDenial, AcquireDenies, InOrder,
     ResendAcquire, FailAcquire, ReceiveGrant, ReceiveLateGrant, Backoff, GiveUp,
     ServeDiscard, ResendDiscard, FailDiscard, CheckCall, DeadlineOver, Unlock,
     SendRelease, ServeRelease, ResendRelease, FailRelease, ReceiveRelease,
     ReleaseScript, EndAcquire, Abandon, AcquireReq, ReleaseReq
<1>2. CASE ~LeaseStep(l)
  <2>1. /\ pc'[l] = pc[l]
        /\ AcquireReq(l) \in ghosts' => AcquireReq(l) \in ghosts
    BY <1>0, <1>2, Untouched, Zenon
  <2>2. now' >= now /\ now \in Nat /\ now' \in Nat /\ expireAt \in Nat
    BY <1>0, TimeStep DEF TypeOK, Tick
  <2>3. \/ UNCHANGED keyVars
        \/ \E k \in Leases : KeyChanged(k)
    BY <1>0, KeyStep DEF Restart
  <2>4. CASE UNCHANGED keyVars
    BY <1>0, <2>1, <2>2, <2>4 DEF QuietInv, Owns
  <2>5. ASSUME NEW k \in Leases, KeyChanged(k),
               pc[l] \in {"idle", "denied", "backoff", "freed", "notowner", "released"}
        PROVE  owner' # l
    BY <1>0, <2>5 DEF QuietInv, KeyChanged, KeySet, KeyExtended, KeyDeleted, Owns
  <2> QED
    BY <1>0, <2>1, <2>3, <2>4, <2>5, Zenon DEF QuietInv, Owns
<1> QED
  BY <1>1, <1>2

(* A deadline within reach of a request stays so as time passes.             *)
LEMMA LaterBound ==
    ASSUME NEW d \in Nat, NEW n \in Nat, NEW m \in Nat, n <= m, d + Margin <= n + TTL
    PROVE  d + Margin <= m + TTL
  OBVIOUS

(* Before a local deadline the server's clock has not reached the expiry     *)
(* that the margin was subtracted from.                                      *)
LEMMA StillBefore ==
    ASSUME NEW d \in Nat, NEW c \in Nat, NEW n \in Nat, NEW e \in Nat,
           d > c, n <= c + Drift, d + Margin <= e
    PROVE  n < e
  OBVIOUS

(* The deadline of an attempt against the expiry of the key set during it.   *)
LEMMA AttemptStep ==
    ASSUME IndInv, [Next]_vars, ~DataLoss PROVE AttemptInv'
<1> DEFINE Part(l) ==
      /\ pc[l] \in Attempting => deadline[l] + Margin <= now + TTL
      /\ pc[l] \in {"acquiring", "granted"} /\ Owns(l) =>
            deadline[l] + Margin <= expireAt
      /\ pc[l] = "granted" /\ deadline[l] > clock[l] =>
            Owns(l) /\ reply[l] = fencing
<1> SUFFICES ASSUME NEW l \in Leases PROVE Part(l)'
  BY Zenon DEF AttemptInv
<1>0. /\ TypeOK /\ TypeOK' /\ ClockInv /\ ClockInv' /\ StageInv /\ QuietInv
      /\ Part(l) /\ KeyInv
  BY TypeStep, KeyInvStep, Zenon DEF IndInv, AttemptInv
<1>1. CASE LeaseStep(l)
  <2>1. CASE StartAcquire(l)
    BY <1>0, <2>1 DEF TypeOK, ClockInv, QuietInv, StartAcquire, RequestExpiry,
       Attempting, Owns
  <2>2. CASE ServeGrant(l)
    BY <1>0, <2>2 DEF TypeOK, ClockInv, ServeGrant, AcquireGrants, Attempting, Owns
  <2>3. CASE ServeDenial(l)
    BY <1>0, <2>3, Zenon DEF TypeOK, ServeDenial, Attempting
  <2>4. CASE ResendAcquire(l)
    BY <1>0, <2>4, Zenon DEF TypeOK, QuietInv, ResendAcquire, Attempting, Owns
  <2>5. CASE ~(StartAcquire(l) \/ ServeGrant(l) \/ ServeDenial(l) \/ ResendAcquire(l))
    <3>1. pc'[l] \notin Attempting
      BY <1>0, <1>1, <2>5, Zenon DEF TypeOK, Attempting, LeaseStep,
         FailAcquire, ReceiveGrant, ReceiveLateGrant, Backoff, GiveUp,
         ServeDiscard, ResendDiscard, FailDiscard, CheckCall, DeadlineOver, Unlock,
         SendRelease, ServeRelease, ResendRelease, FailRelease, ReceiveRelease
    <3> QED
      BY <3>1, Zenon DEF Attempting
  <2> QED
    BY <2>1, <2>2, <2>3, <2>4, <2>5, Zenon
<1>2. CASE ~LeaseStep(l)
  <2>1. pc'[l] = pc[l] /\ deadline'[l] = deadline[l] /\ reply'[l] = reply[l]
    BY <1>0, <1>2, Untouched
  <2>2. /\ now \in Nat /\ now' \in Nat /\ now' >= now
        /\ clock[l] \in Nat /\ clock'[l] \in Nat /\ clock'[l] >= clock[l]
        /\ deadline[l] \in Nat /\ expireAt \in Nat /\ expireAt' \in Nat
    BY <1>0, TimeStep DEF TypeOK, Tick
  <2>3. now' <= clock'[l] + Drift
    BY <1>0, Zenon DEF ClockInv
  <2>a. pc'[l] \in Attempting => deadline'[l] + Margin <= now' + TTL
    BY <1>0, <2>1, <2>2, LaterBound
  <2>b. pc'[l] = "granted" /\ deadline'[l] > clock'[l] =>
          /\ Owns(l) /\ now' < expireAt /\ deadline[l] + Margin <= expireAt
          /\ reply'[l] = fencing
    <3> SUFFICES ASSUME pc'[l] = "granted", deadline'[l] > clock'[l]
                 PROVE  /\ Owns(l) /\ now' < expireAt /\ deadline[l] + Margin <= expireAt
                        /\ reply'[l] = fencing
      BY Zenon
    <3>1. deadline[l] > clock'[l] /\ deadline[l] > clock[l]
      BY <2>1, <2>2
    <3>2. Owns(l) /\ reply'[l] = fencing /\ deadline[l] + Margin <= expireAt
      BY <1>0, <2>1, <3>1, Zenon
    <3> QED
      BY <2>2, <2>3, <3>1, <3>2, StillBefore, Zenon
  <2>4. CASE UNCHANGED keyVars
    <3>1. owner' = owner /\ expireAt' = expireAt /\ fencing' = fencing
      BY <2>4 DEF keyVars
    <3>2. Owns(l)' => Owns(l)
      BY <2>2, <3>1 DEF Owns
    <3>3. pc'[l] \in {"acquiring", "granted"} /\ Owns(l)' =>
            deadline'[l] + Margin <= expireAt'
      BY <1>0, <2>1, <3>1, <3>2, Zenon
    <3>4. pc'[l] = "granted" /\ deadline'[l] > clock'[l] =>
            Owns(l)' /\ reply'[l] = fencing'
      BY <2>b, <3>1, Zenon DEF Owns
    <3> QED
      BY <2>a, <3>3, <3>4
  <2>5. ASSUME NEW k \in Leases, KeyChanged(k), UNCHANGED timeVars PROVE Part(l)'
    <3>1. CASE KeySet(k)
      <4>1. deadline'[l] + Margin <= expireAt' \/ pc'[l] \notin Attempting
        BY <1>0, <2>1, <3>1, Zenon DEF KeySet
      <4>2. ~Owns(l)
        BY <1>0, <3>1, Zenon DEF KeySet, KeyExists, Owns, TypeOK
      <4> QED
        BY <2>a, <2>b, <4>1, <4>2, Zenon DEF Attempting
    <3>2. CASE KeyExtended(k)
      <4>1. deadline'[l] + Margin <= expireAt' \/ pc'[l] \notin Attempting
        BY <1>0, <2>1, <3>2 DEF KeyExtended
      <4>2. owner' = owner /\ fencing' = fencing
        BY <3>2 DEF KeyExtended
      <4>3. pc'[l] = "granted" /\ deadline'[l] > clock'[l] => now' < expireAt'
        BY <2>1, <2>2, <2>3, <4>1, StillBefore, Zenon DEF Attempting
      <4> QED
        BY <2>a, <2>b, <4>1, <4>2, <4>3, Zenon DEF Owns, Attempting
    <3>3. CASE KeyDeleted(k)
      BY <1>0, <2>1, <2>2, <2>5, <3>3, Zenon DEF KeyDeleted, StageInv, Unlocking, Owns,
       Attempting
    <3> QED
      BY <2>5, <3>1, <3>2, <3>3, Zenon DEF KeyChanged
  <2> QED
    BY <1>0, <2>4, <2>5, KeyStep, SMTT(30) DEF Restart
<1> QED
  BY <1>1, <1>2

(* While a lease stays in use the key stays its own, and its expiry only     *)
(* moves forward.                                                            *)
LEMMA UseKeepsKey ==
    ASSUME IndInv, [Next]_vars, ~DataLoss, NEW l \in Leases, InUse(l)
    PROVE  owner' = owner /\ expireAt' >= expireAt /\ fencing' = fencing
<1>1. Owns(l)
  BY UseOwns
<1>2. ASSUME NEW k \in Leases, KeyChanged(k)
      PROVE  owner' = owner /\ expireAt' >= expireAt /\ fencing' = fencing
  BY <1>1, <1>2, Zenon DEF IndInv, TypeOK, KeyInv, StageInv, Unlocking, InUse, KeyChanged,
     KeySet, KeyExtended, KeyDeleted, KeyExists, Owns
<1> QED
  BY <1>2, KeyStep DEF IndInv, TypeOK, Restart

(* A lease in use owns the key, beyond its local deadline, with the newest   *)
(* token.                                                                    *)
LEMMA UseInvStep ==
    ASSUME IndInv, [Next]_vars, ~DataLoss PROVE UseInv'
<1> SUFFICES ASSUME NEW l \in Leases, InUse(l)'
             PROVE  /\ owner' = l
                    /\ expiresAt'[l] + Margin <= expireAt'
                    /\ fence'[l] = fencing'
  BY DEF UseInv
<1>0. TypeOK /\ TypeOK'
  BY TypeStep, Zenon DEF IndInv
<1>1. CASE ReceiveGrant(l)
  BY <1>0, <1>1, Zenon DEF IndInv, TypeOK, AttemptInv, ReceiveGrant, Owns
<1>2. CASE ~ReceiveGrant(l)
  <2>1. /\ InUse(l) /\ fence'[l] = fence[l]
        /\ \/ expiresAt'[l] = expiresAt[l]
           \/ \E c \in calls : /\ c.lease = l /\ c.st = "ok" /\ c.op = "renew"
                                /\ expiresAt'[l] = c.deadline
    BY <1>0, <1>2, UseStep, Zenon
  <2>2. expiresAt'[l] + Margin <= expireAt
    BY <2>1, Zenon DEF IndInv, UseInv, CallInv
  <2>3. owner' = owner /\ expireAt' >= expireAt /\ fencing' = fencing
    BY <2>1, UseKeepsKey
  <2> QED
    BY <1>0, <2>1, <2>2, <2>3 DEF IndInv, TypeOK, UseInv
<1> QED
  BY <1>1, <1>2

(* The deadline 0 of a call not yet sent satisfies the bound of a sent one.  *)
LEMMA MarginBound == ASSUME NEW n \in Nat PROVE 0 + Margin <= n + TTL
  OBVIOUS

(* The deadline of a request sent now is within reach.                       *)
LEMMA FreshBound ==
    ASSUME NEW t \in Nat, NEW n \in Nat, t <= n
    PROVE  (t + TTL - Margin) + Margin <= n + TTL
  OBVIOUS

(* A guard, once handed out, is never back in an attempt.                    *)
LEMMA GuardedStays ==
    ASSUME TypeOK, [Next]_vars, NEW l \in Leases, pc[l] \in Guarded
    PROVE  pc'[l] \in Guarded
<1>1. CASE LeaseStep(l)
  BY <1>1, Zenon DEF TypeOK, Guarded, Unlocking, LeaseStep, StartAcquire, ServeGrant,
     ServeDenial, ResendAcquire, FailAcquire, ReceiveGrant, ReceiveLateGrant,
     Backoff, GiveUp, ServeDiscard, ResendDiscard, FailDiscard, CheckCall,
     DeadlineOver, Unlock, SendRelease, ServeRelease, ResendRelease, FailRelease,
     ReceiveRelease
<1> QED
  BY <1>1, Untouched, Zenon

(* The answers under way to Renew and Held stay true until they arrive.      *)
LEMMA CallStepInv ==
    ASSUME IndInv, [Next]_vars, ~DataLoss PROVE CallInv'
<1> DEFINE Part(c) ==
      /\ pc[c.lease] \in Guarded
      /\ c.deadline + Margin <= now + TTL
      /\ c.st = "ok" /\ c.op = "renew" /\ InUse(c.lease) =>
            c.deadline + Margin <= expireAt
      /\ c.st = "gone" => ~InUse(c.lease)
<1> SUFFICES ASSUME NEW c \in calls' PROVE Part(c)'
  BY Zenon DEF CallInv
<1>0. /\ TypeOK /\ TypeOK' /\ ClockInv
      /\ \A d \in calls : Part(d)
  BY TypeStep, Zenon DEF IndInv, CallInv
<1>1. now' >= now /\ now \in Nat /\ now' \in Nat /\ expireAt \in Nat /\ expireAt' \in Nat
  BY <1>0, TimeStep DEF TypeOK, Tick
<1>2. ASSUME NEW l \in Leases, pc[l] \in Guarded, InUse(l)'
      PROVE  InUse(l) /\ expireAt' >= expireAt
  <2>1. InUse(l)
    BY <1>0, <1>2, UseStep, Zenon DEF ReceiveGrant, Guarded, Unlocking
  <2> QED
    BY <2>1, UseKeepsKey, Zenon
<1>3. ASSUME c \in calls PROVE Part(c)'
  <2>1. c.lease \in Leases /\ c.deadline \in Nat
    BY <1>0, <1>3, Zenon DEF TypeOK, Call
  <2>2. Part(c)
    BY <1>0, <1>3, Zenon
  <2>3. pc'[c.lease] \in Guarded
    BY <1>0, <2>1, <2>2, GuardedStays, Zenon
  <2>4. InUse(c.lease)' => InUse(c.lease) /\ expireAt' >= expireAt
    BY <1>2, <2>1, <2>2, Zenon
  <2> QED
    BY <1>1, <2>1, <2>2, <2>3, <2>4
<1>4. ASSUME NEW l \in Leases, NEW by \in Callers, CheckCall(l, by), c \notin calls
      PROVE  Part(c)'
  <2>1. /\ c.lease = l /\ c.deadline = 0 /\ c.st = "checked"
        /\ pc' = pc /\ pc[l] = "held"
    BY <1>4 DEF CheckCall
  <2>2. pc'[c.lease] \in Guarded
    BY <2>1 DEF Guarded
  <2> QED
    BY <1>0, <1>1, <2>1, <2>2, MarginBound, Zenon
<1>5. ASSUME NEW d \in calls, CallStep(d), c \notin calls PROVE Part(c)'
  <2>0. /\ d.lease \in Leases /\ d.deadline \in Nat /\ clock[d.lease] \in Nat
        /\ clock[d.lease] <= now /\ Part(d) /\ d \in Call
    BY <1>0, Zenon DEF TypeOK, Call, ClockInv
  <2>1. CASE SendCall(d)
    <3>1. /\ c.lease = d.lease /\ c.st = "sent"
          /\ c.deadline = IF d.op = "renew" THEN RequestExpiry(d.lease) ELSE 0
          /\ pc' = pc
      BY <1>5, <2>0, <2>1, Zenon DEF SendCall, Call
    <3>2. c.deadline + Margin <= now + TTL /\ now' = now
      BY <1>1, <2>0, <2>1, <3>1, FreshBound, MarginBound DEF RequestExpiry, SendCall
    <3>3. pc'[c.lease] \in Guarded
      BY <2>0, <3>1
    <3> QED
      BY <3>1, <3>2, <3>3
  <2>2. CASE ServeCall(d)
    <3>1. /\ c.lease = d.lease /\ c.deadline = d.deadline /\ c.op = d.op
          /\ c.st = (IF Owns(d.lease) THEN "ok" ELSE "gone")
          /\ pc' = pc
      BY <1>5, <2>0, <2>2 DEF ServeCall, Progress, Call
    <3>2. c.st = "ok" /\ c.op = "renew" => c.deadline + Margin <= expireAt'
      BY <2>0, <2>2, <3>1, Zenon DEF ServeCall, RenewScript
    <3>3. c.st = "gone" => ~InUse(c.lease)'
      BY <1>2, <2>0, <3>1, UseOwns, Zenon
    <3> QED
      <4>1. c.deadline + Margin <= now' + TTL
        BY <1>1, <2>0, <3>1, LaterBound
      <4>2. pc'[c.lease] \in Guarded
        BY <2>0, <3>1
      <4> QED
        BY <3>2, <3>3, <4>1, <4>2
  <2>3. CASE ResendCall(d)
    <3>1. /\ c.lease = d.lease /\ c.deadline = d.deadline /\ c.st = "sent"
          /\ pc' = pc
      BY <1>5, <2>0, <2>3, Zenon DEF ResendCall, Progress, Call
    <3>2. c.deadline + Margin <= now' + TTL
      BY <1>1, <2>0, <3>1, LaterBound, Zenon
    <3>3. pc'[c.lease] \in Guarded
      BY <2>0, <3>1, Zenon
    <3> QED
      BY <3>1, <3>2, <3>3
  <2>4. CASE FailCall(d) \/ ReceiveRenewed(d) \/ ReceiveHeld(d) \/ ReceiveGone(d)
    BY <1>5, <2>4, Zenon DEF FailCall, ReceiveRenewed, ReceiveHeld, ReceiveGone
  <2> QED
    BY <1>5, <2>1, <2>2, <2>3, <2>4 DEF CallStep
<1>6. \/ c \in calls
      \/ \E l \in Leases, by \in Callers : CheckCall(l, by)
      \/ \E d \in calls : CallStep(d)
  BY Zenon DEF Next, vars, LeaseStep, StartAcquire, ServeGrant, ServeDenial,
     ResendAcquire, FailAcquire, ReceiveGrant, ReceiveLateGrant, Backoff, GiveUp,
     ServeDiscard, ResendDiscard, FailDiscard, DeadlineOver, Unlock,
     SendRelease, ServeRelease, ResendRelease, FailRelease, ReceiveRelease,
     ServeGhost, Tick, Restart
<1> QED
  BY <1>3, <1>4, <1>5, <1>6, Zenon

(* A lease is lost through its guard or one of its calls, never before.      *)
LEMMA LostStep == ASSUME IndInv, [Next]_vars PROVE LostInv'
<1>1. TypeOK /\ LostInv /\ TypeOK'
  BY TypeStep, Zenon DEF IndInv
<1>2. \A l \in lost' : l \in lost \/ pc[l] \in Guarded
  <2>1. ASSUME NEW l \in Leases, LeaseStep(l), NEW k \in lost'
        PROVE  k \in lost \/ pc[k] \in Guarded
    BY <2>1, Zenon DEF LeaseStep, StartAcquire, ServeGrant, ServeDenial, ResendAcquire,
       FailAcquire, ReceiveGrant, ReceiveLateGrant, Backoff, GiveUp, ServeDiscard,
       ResendDiscard, FailDiscard, CheckCall, DeadlineOver, Unlock, SendRelease,
       ServeRelease, ResendRelease, FailRelease, ReceiveRelease, Guarded
  <2>2. ASSUME NEW c \in calls, CallStep(c), NEW k \in lost'
        PROVE  k \in lost \/ pc[k] \in Guarded
    BY <2>2 DEF IndInv, CallInv, CallStep, SendCall, ServeCall, ResendCall,
       FailCall, ReceiveRenewed, ReceiveHeld, ReceiveGone
  <2> QED
    BY <2>1, <2>2, Zenon DEF Next, vars, ServeGhost, Tick, Restart
<1> QED
  BY <1>1, <1>2, GuardedStays DEF LostInv, TypeOK

(* The inductive invariant, when the transport does not let a retried        *)
(* request overtake its earlier copies and the server keeps its data.        *)
THEOREM Inductive ==
    ASSUME ~Overtaking, ~DataLoss PROVE Spec => []IndInv
<1>1. Init => IndInv
  <2> SUFFICES ASSUME Init PROVE IndInv
    OBVIOUS
  <2> USE DEF Init
  <2>1. TypeOK
    BY DEF TypeOK, Stages
  <2>2. ClockInv /\ KeyInv /\ OwnerInv
    BY DEF ClockInv, KeyInv, OwnerInv
  <2>3. StageInv /\ LostInv
    BY DEF StageInv, LostInv, Unlocking
  <2>4. QuietInv /\ AttemptInv
    BY Zenon DEF QuietInv, AttemptInv, Attempting, Owns
  <2>5. UseInv /\ CallInv
    BY Zenon DEF UseInv, CallInv, InUse
  <2> QED
    BY <2>1, <2>2, <2>3, <2>4, <2>5 DEF IndInv
<1>2. IndInv /\ [Next]_vars => IndInv'
  BY TypeStep, KeyInvStep, StageStep, LostStep, QuietStep, AttemptStep, UseInvStep,
     CallStepInv DEF IndInv
<1> QED
  BY <1>1, <1>2, PTL DEF Spec

(* At most one holder is entitled to the resource at any time, for every TTL *)
(* and every clock drift within the margin requestExpiry keeps.              *)
THEOREM Exclusive ==
    ASSUME ~Overtaking, ~DataLoss PROVE Spec => []MutualExclusion
<1>1. IndInv => MutualExclusion
  BY DEF IndInv, UseInv, MutualExclusion
<1> QED
  BY <1>1, Inductive, PTL

(* The holder entitled to the resource has the newest fencing token.         *)
THEOREM HoldsNewest ==
    ASSUME ~Overtaking, ~DataLoss PROVE Spec => []NewestFence
<1>1. IndInv => NewestFence
  BY Zenon DEF IndInv, UseInv, NewestFence
<1> QED
  BY <1>1, Inductive, PTL

(* The server's verdict "not yours" is never about a lease in use.           *)
THEOREM VerdictsHold ==
    ASSUME ~Overtaking, ~DataLoss PROVE Spec => []VerdictIsFinal
<1>1. IndInv => VerdictIsFinal
  BY DEF IndInv, CallInv, VerdictIsFinal
<1> QED
  BY <1>1, Inductive, PTL

(* A completed Unlock leaves nothing that takes the lock for nobody.         *)
THEOREM ReleaseFrees ==
    ASSUME ~Overtaking, ~DataLoss PROVE Spec => []ReleasedStaysFree
<1>1. IndInv => ReleasedStaysFree
  BY Zenon DEF IndInv, QuietInv, ReleasedStaysFree
<1> QED
  BY <1>1, Inductive, PTL

---------------------------------------------------------------------------
(* The refinement.                                                           *)

Users == {l \in Leases : InUse(l)}

(* The reply that reaches TryAcquire in time is a grant of the abstract lock: *)
(* nobody else uses it, and the token exceeds every token given before.       *)
LEMMA GrantRefines ==
    ASSUME IndInv, IndInv', [Next]_vars, NEW l \in Leases, ReceiveGrant(l)
    PROVE  Lock!Grant(l)
<1> USE DEF IndInv
<1>1. /\ pc[l] = "granted" /\ deadline[l] > clock[l] /\ Owns(l)
      /\ reply[l] = fencing /\ l \notin lost /\ fence[l] = 0
  BY Zenon DEF ReceiveGrant, AttemptInv, LostInv, StageInv, Guarded, Unlocking
<1>2. \A k \in Leases : ~InUse(k)
  <2> SUFFICES ASSUME NEW k \in Leases, InUse(k) PROVE FALSE
    OBVIOUS
  <2>1. Owns(k)
    BY UseOwns, Zenon
  <2> QED
    BY <1>1, <2>1 DEF InUse, Owns
<1>3. InUse(l)'
  <2>1. pc'[l] = "held" /\ expiresAt'[l] = deadline[l] /\ clock' = clock /\ lost' = lost
    BY Zenon DEF TypeOK, ReceiveGrant
  <2>2. deadline[l] \in Nat /\ clock[l] \in Nat
    BY Zenon DEF TypeOK
  <2> QED
    BY <1>1, <2>1, <2>2, SMTT(30) DEF InUse, Expired
<1>4. ASSUME NEW k \in Leases, k # l PROVE ~InUse(k)'
  <2>1. ~ReceiveGrant(k)
    BY <1>1, <1>4, Zenon DEF TypeOK, ReceiveGrant
  <2> QED
    BY <1>2, <2>1, UseStep, Zenon
<1>5. Users = {} /\ Users' = {l}
  BY <1>2, <1>3, <1>4, Zenon DEF Users
<1>6. /\ fencing \in 1 .. MaxFence
      /\ \A k \in Leases : fence[k] < fencing
      /\ fence' = [fence EXCEPT ![l] = fencing]
  <2>1. owner = l /\ owner # NoOwner
    BY <1>1, Zenon DEF Owns
  <2>2. fencing \in Nat /\ MaxFence \in Nat /\ fencing >= 1 /\ fencing <= MaxFence
    BY <2>1 DEF TypeOK, KeyInv
  <2>3. ASSUME NEW k \in Leases PROVE fence[k] < fencing
    <3>1. CASE k = l
      BY <1>1, <2>2, <3>1
    <3>2. CASE k # l
      BY <2>1, <3>2, Zenon DEF OwnerInv
    <3> QED
      BY <3>1, <3>2, Zenon
  <2>4. fence' = [fence EXCEPT ![l] = fencing]
    BY <1>1, Zenon DEF ReceiveGrant
  <2> QED
    BY <2>2, <2>3, <2>4
<1> QED
  BY <1>1, <1>5, <1>6, Zenon DEF Lock!Grant, Users

(* Every other step ends the use of the lock or is invisible to its users.   *)
LEMMA OtherRefines ==
    ASSUME IndInv, [Next]_vars, \A l \in Leases : ~ReceiveGrant(l)
    PROVE  \/ \E l \in Leases : Lock!End(l)
           \/ Users' = Users /\ fence' = fence
<1>0. TypeOK /\ TypeOK'
  BY TypeStep, Zenon DEF IndInv
<1>1. \A l \in Leases : InUse(l)' => InUse(l)
  BY <1>0, UseStep, Zenon
<1>2. \A l, k \in Leases : InUse(l) /\ InUse(k) => l = k
  BY Zenon DEF IndInv, UseInv
<1>3. fence' = fence
  <2>1. ASSUME NEW l \in Leases PROVE fence'[l] = fence[l]
    <3>1. CASE LeaseStep(l)
      BY <3>1, Zenon DEF LeaseStep, StartAcquire, ServeGrant, ServeDenial, ResendAcquire,
         FailAcquire, ReceiveLateGrant, Backoff, GiveUp, ServeDiscard,
         ResendDiscard, FailDiscard, CheckCall, DeadlineOver, Unlock, SendRelease,
         ServeRelease, ResendRelease, FailRelease, ReceiveRelease
    <3> QED
      BY <1>0, <3>1, Untouched, Zenon
  <2> QED
    BY <1>0, <2>1 DEF TypeOK
<1>4. CASE Users' = Users
  BY <1>3, <1>4
<1>5. CASE Users' # Users
  <2>1. PICK l \in Leases : InUse(l) /\ ~InUse(l)'
    BY <1>1, <1>5 DEF Users
  <2>2. Users = {l} /\ Users' = {}
    BY <1>1, <1>2, <2>1 DEF Users
  <2>3. Lock!End(l)
    BY <1>3, <2>2 DEF Lock!End, Users
  <2> QED
    BY <2>3
<1> QED
  BY <1>4, <1>5

(* The lease, with its scripts, deadlines, retries and lost replies, is to    *)
(* its users the lock of FencedLock.                                         *)
THEOREM Refinement ==
    ASSUME ~Overtaking, ~DataLoss PROVE Spec => ImplementsFencedLock
<1>1. Init => Lock!Init
  BY DEF Init, Lock!Init, InUse
<1>2. IndInv /\ IndInv' /\ [Next]_vars => [Lock!Next]_<<Users, fence>>
  <2> SUFFICES ASSUME IndInv, IndInv', [Next]_vars
               PROVE  [Lock!Next]_<<Users, fence>>
    OBVIOUS
  <2>1. ASSUME NEW l \in Leases, ReceiveGrant(l) PROVE Lock!Next
    BY <2>1, GrantRefines DEF Lock!Next
  <2> QED
    BY <2>1, OtherRefines DEF Lock!Next
<1>3. IndInv /\ IndInv' /\ [Next]_vars
         => [Lock!Next]_<<{l \in Leases : InUse(l)}, fence>>
  BY <1>2 DEF Users
<1> QED
  BY <1>1, <1>3, Inductive, PTL DEF Spec, ImplementsFencedLock, Lock!Spec
============================================================================
