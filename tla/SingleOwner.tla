---------------------------- MODULE SingleOwner ----------------------------
(* The exclusive lease behind Mutex, Leader and Once: the Lua scripts        *)
(* single_acquire, single_renew and single_release on one Redis key, the Go  *)
(* type lease.SingleOwner that calls them, and the part of the guard's       *)
(* handle that decides when a call may be made and when the lease is over.   *)
(*                                                                           *)
(* A member of Leases is one lease object: one call of Lock or TryLock with  *)
(* its own owner token.  Each lives in a process with its own clock.  Every  *)
(* call travels over a transport (go-redis) that may lose a reply, send a    *)
(* request again, or leave a copy behind that the server executes later.     *)
EXTENDS Integers, FiniteSets

CONSTANTS
    Leases,      \* the lease objects, identified with their owner tokens
    NoOwner,     \* the lock key does not exist
    TTL,         \* the lease TTL, in clock ticks
    Margin,      \* what requestExpiry takes off the TTL
    Drift,       \* how far a process clock may stray from the server's
    Callers,     \* who calls Renew and Held: "heart" is the background loop,
                 \* "user" a goroutine that calls Guard.Renew
    Heartbeat,   \* Heartbeat[l]: what the background loop calls, "renew"
                 \* (startRenewal) or "held" (startWatchdog)
    Overtaking,  \* TRUE: a copy left behind by a transport retry may be
                 \* executed after the copy that replaced it
    DataLoss,    \* TRUE: Redis may restart without its data
    MaxTime,     \* bound: the server clock stops here
    MaxFence,    \* bound: fencing tokens minted
    MaxGhosts    \* bound: different requests left behind at a time

ASSUME LeasesAssumption == NoOwner \notin Leases

ASSUME TimeAssumption ==
    /\ TTL \in Nat /\ Margin \in Nat /\ Drift \in Nat
    /\ MaxTime \in Nat /\ MaxFence \in Nat /\ MaxGhosts \in Nat
    /\ Margin <= TTL          \* ttl is at least one millisecond
    /\ Drift <= Margin        \* the margin is there to absorb the drift

ASSUME ModeAssumption ==
    /\ Callers \subseteq {"heart", "user"}
    /\ Heartbeat \in [Leases -> {"renew", "held"}]
    /\ Overtaking \in BOOLEAN /\ DataLoss \in BOOLEAN

VARIABLES
    now,        \* the server's clock
    clock,      \* clock[l]: the monotonic clock of l's process
    owner,      \* the value of the lock key
    expireAt,   \* when the lock key expires
    fencing,    \* the fencing counter
    pc,         \* where the goroutine that called Lock, then Unlock, is
    deadline,   \* TryAcquire's local deadline; 0 outside the call
    reply,      \* the fencing token in the reply TryAcquire waits for, or 0
    expiresAt,  \* SingleOwner.expiresAt; 0 is the zero time
    fence,      \* Guard.fencing; 0 before the guard exists
    lost,       \* the leases whose lostCtx is canceled
    calls,      \* the Renew and Held calls in progress
    ghosts      \* copies of requests their call no longer waits for

keyVars == <<owner, expireAt, fencing>>
timeVars == <<now, clock>>
grantVars == <<deadline, reply, fence>>
vars == <<now, clock, owner, expireAt, fencing, pc, deadline, reply,
          expiresAt, fence, lost, calls, ghosts>>

Stages == {"idle", "acquiring", "granted", "denied", "backoff", "held",
           "discarding", "failed", "stopping", "releasing", "freed",
           "notowner", "unreleased", "released"}

Call == [lease : Leases, by : Callers, op : {"renew", "held"},
         deadline : Nat, st : {"checked", "sent", "ok", "gone"}]

Request == [op : {"acquire", "renew", "release"}, lease : Leases]

AcquireReq(l) == [op |-> "acquire", lease |-> l]
RenewReq(l) == [op |-> "renew", lease |-> l]
ReleaseReq(l) == [op |-> "release", lease |-> l]

Init ==
    /\ now = 0
    /\ clock = [l \in Leases |-> 0]
    /\ owner = NoOwner
    /\ expireAt = 0
    /\ fencing = 0
    /\ pc = [l \in Leases |-> "idle"]
    /\ deadline = [l \in Leases |-> 0]
    /\ reply = [l \in Leases |-> 0]
    /\ expiresAt = [l \in Leases |-> 0]
    /\ fence = [l \in Leases |-> 0]
    /\ lost = {}
    /\ calls = {}
    /\ ghosts = {}

---------------------------------------------------------------------------
(* Local time.  The zero time is never After now, so neither is 0.          *)

\* Mutant: no safety margin.
ExpiryWithoutMargin(l) == clock[l] + TTL

RequestExpiry(l) == clock[l] + TTL - Margin

Expired(l) == expiresAt[l] <= clock[l]

(* The scripts, each one atomic on the server.                              *)

KeyExists == owner # NoOwner /\ now < expireAt
Owns(l) == owner = l /\ now < expireAt

AcquireGrants(l) ==
    \/ /\ Owns(l)
       /\ UNCHANGED keyVars
    \/ /\ ~KeyExists
       /\ fencing < MaxFence
       /\ owner' = l
       /\ expireAt' = now + TTL
       /\ fencing' = fencing + 1

\* Mutant: the token is minted before the key is looked at.
DenialMints(l) ==
    /\ KeyExists
    /\ ~Owns(l)
    /\ fencing < MaxFence
    /\ fencing' = fencing + 1
    /\ UNCHANGED <<owner, expireAt>>

AcquireDenies(l) ==
    /\ KeyExists
    /\ ~Owns(l)
    /\ UNCHANGED keyVars

\* Mutant: the key is set, and not only extended.
RenewRecreates(l) ==
    /\ owner' = IF KeyExists THEN owner ELSE l
    /\ expireAt' = IF KeyExists /\ ~Owns(l) THEN expireAt ELSE now + TTL
    /\ UNCHANGED fencing

RenewScript(l) ==
    /\ expireAt' = IF Owns(l) THEN now + TTL ELSE expireAt
    /\ UNCHANGED <<owner, fencing>>

\* Mutant: the key is deleted without comparing its owner.
ReleaseAnyOwner(l) ==
    /\ owner' = NoOwner
    /\ UNCHANGED <<expireAt, fencing>>

ReleaseScript(l) ==
    /\ owner' = IF Owns(l) THEN NoOwner ELSE owner
    /\ UNCHANGED <<expireAt, fencing>>

---------------------------------------------------------------------------
(* TryAcquire, and the loops of Lock and TryLock around it.                 *)

StartAcquire(l) ==
    /\ pc[l] \in {"idle", "backoff"}
    /\ pc' = [pc EXCEPT ![l] = "acquiring"]
    /\ deadline' = [deadline EXCEPT ![l] = RequestExpiry(l)]
    /\ UNCHANGED <<timeVars, keyVars, reply, expiresAt, fence, lost, calls, ghosts>>

\* Without overtaking, the copies sent before this one ran before it or never.
InOrder(r) == IF Overtaking THEN ghosts ELSE ghosts \ {r}

ServeGrant(l) ==
    /\ pc[l] = "acquiring"
    /\ AcquireGrants(l)
    /\ pc' = [pc EXCEPT ![l] = "granted"]
    /\ reply' = [reply EXCEPT ![l] = fencing']
    /\ ghosts' = InOrder(AcquireReq(l))
    /\ UNCHANGED <<timeVars, deadline, expiresAt, fence, lost, calls>>

ServeDenial(l) ==
    /\ pc[l] = "acquiring"
    /\ AcquireDenies(l)
    /\ pc' = [pc EXCEPT ![l] = "denied"]
    /\ ghosts' = InOrder(AcquireReq(l))
    /\ UNCHANGED <<timeVars, grantVars, expiresAt, lost, calls>>

\* A copy that is still under way is left behind; one that was served is not.
\* At the bound it is lost instead.
Abandon(pending, r) ==
    IF pending /\ Cardinality(ghosts) < MaxGhosts THEN ghosts \cup {r} ELSE ghosts

\* TryAcquire returns: its locals are gone.
EndAcquire(l) ==
    /\ deadline' = [deadline EXCEPT ![l] = 0]
    /\ reply' = [reply EXCEPT ![l] = 0]

ResendAcquire(l) ==
    /\ pc[l] \in {"acquiring", "granted", "denied"}
    /\ pc' = [pc EXCEPT ![l] = "acquiring"]
    /\ reply' = [reply EXCEPT ![l] = 0]
    /\ ghosts' = Abandon(pc[l] = "acquiring", AcquireReq(l))
    /\ UNCHANGED <<timeVars, keyVars, deadline, fence, expiresAt, lost, calls>>

\* A transport error, or a context canceled during the call.
FailAcquire(l) ==
    /\ pc[l] \in {"acquiring", "granted", "denied"}
    /\ pc' = [pc EXCEPT ![l] = "failed"]
    /\ EndAcquire(l)
    /\ ghosts' = Abandon(pc[l] = "acquiring", AcquireReq(l))
    /\ UNCHANGED <<timeVars, keyVars, fence, expiresAt, lost, calls>>

\* Mutant: a grant that arrives after its deadline is handed out.
ReceiveAnyGrant(l) ==
    /\ pc[l] = "granted"
    /\ pc' = [pc EXCEPT ![l] = "held"]
    /\ expiresAt' = [expiresAt EXCEPT ![l] = deadline[l]]
    /\ fence' = [fence EXCEPT ![l] = reply[l]]
    /\ EndAcquire(l)
    /\ UNCHANGED <<timeVars, keyVars, lost, calls, ghosts>>

ReceiveGrant(l) ==
    /\ pc[l] = "granted"
    /\ deadline[l] > clock[l]
    /\ pc' = [pc EXCEPT ![l] = "held"]
    /\ expiresAt' = [expiresAt EXCEPT ![l] = deadline[l]]
    /\ fence' = [fence EXCEPT ![l] = reply[l]]
    /\ EndAcquire(l)
    /\ UNCHANGED <<timeVars, keyVars, lost, calls, ghosts>>

ReceiveLateGrant(l) ==
    /\ pc[l] = "granted"
    /\ deadline[l] <= clock[l]
    /\ pc' = [pc EXCEPT ![l] = "discarding"]
    /\ EndAcquire(l)
    /\ UNCHANGED <<timeVars, keyVars, fence, expiresAt, lost, calls, ghosts>>

\* Lock waits for its next attempt with the same token.
Backoff(l) ==
    /\ pc[l] = "denied"
    /\ pc' = [pc EXCEPT ![l] = "backoff"]
    /\ EndAcquire(l)
    /\ UNCHANGED <<timeVars, keyVars, fence, expiresAt, lost, calls, ghosts>>

\* TryLock returns ErrNotAcquired, Lock its context's error.
GiveUp(l) ==
    /\ pc[l] \in {"denied", "backoff"}
    /\ pc' = [pc EXCEPT ![l] = "failed"]
    /\ EndAcquire(l)
    /\ UNCHANGED <<timeVars, keyVars, fence, expiresAt, lost, calls, ghosts>>

\* discardLateGrant: its release request is served, repeated or abandoned.
ServeDiscard(l) ==
    /\ pc[l] = "discarding"
    /\ ReleaseScript(l)
    /\ pc' = [pc EXCEPT ![l] = "failed"]
    /\ UNCHANGED <<timeVars, grantVars, expiresAt, lost, calls, ghosts>>

ResendDiscard(l) ==
    /\ pc[l] = "discarding"
    /\ ghosts' = Abandon(TRUE, ReleaseReq(l))
    /\ UNCHANGED <<timeVars, keyVars, grantVars, pc, expiresAt, lost, calls>>

FailDiscard(l) ==
    /\ pc[l] = "discarding"
    /\ pc' = [pc EXCEPT ![l] = "failed"]
    /\ ghosts' = Abandon(TRUE, ReleaseReq(l))
    /\ UNCHANGED <<timeVars, keyVars, grantVars, expiresAt, lost, calls>>

---------------------------------------------------------------------------
(* Renew and Held, called by the background loop and by the user.           *)

Operation(l, by) == IF by = "heart" THEN Heartbeat[l] ELSE "renew"

Progress(c, st) == calls' = (calls \ {c}) \cup {[c EXCEPT !.st = st]}

\* renew and withLeaseDeadline up to the call: neither released nor lost,
\* and the confirmed deadline not yet over.
CheckCall(l, by) ==
    /\ pc[l] = "held"
    /\ l \notin lost
    /\ ~Expired(l)
    /\ ~ \E c \in calls : c.lease = l /\ c.by = by
    /\ calls' = calls \cup {[lease |-> l, by |-> by, op |-> Operation(l, by),
                             deadline |-> 0, st |-> "checked"]}
    /\ UNCHANGED <<timeVars, keyVars, grantVars, pc, expiresAt, lost, ghosts>>

SendCall(c) ==
    /\ c.st = "checked"
    /\ calls' = (calls \ {c}) \cup
                {[c EXCEPT !.deadline = IF c.op = "renew"
                                        THEN RequestExpiry(c.lease) ELSE 0,
                           !.st = "sent"]}
    /\ UNCHANGED <<timeVars, keyVars, grantVars, pc, expiresAt, lost, ghosts>>

ServeCall(c) ==
    /\ c.st = "sent"
    /\ IF c.op = "renew" THEN RenewScript(c.lease) ELSE UNCHANGED keyVars
    /\ Progress(c, IF Owns(c.lease) THEN "ok" ELSE "gone")
    /\ UNCHANGED <<timeVars, grantVars, pc, expiresAt, lost, ghosts>>

AbandonCall(c) ==
    ghosts' = Abandon(c.st = "sent" /\ c.op = "renew", RenewReq(c.lease))

ResendCall(c) ==
    /\ c.st \in {"sent", "ok", "gone"}
    /\ Progress(c, "sent")
    /\ AbandonCall(c)
    /\ UNCHANGED <<timeVars, keyVars, grantVars, pc, expiresAt, lost>>

\* withLeaseDeadline after the call: every way out marks an expired lease lost.
FailCall(c) ==
    /\ calls' = calls \ {c}
    /\ AbandonCall(c)
    /\ lost' = IF Expired(c.lease) THEN lost \cup {c.lease} ELSE lost
    /\ UNCHANGED <<timeVars, keyVars, grantVars, pc, expiresAt>>

\* Mutant: the old deadline is not looked at.
MayExtendAnyway(c) == c.deadline > clock[c.lease]

\* Renew confirms the new deadline only while the old one still stands, and
\* only ever moves it forward.
MayExtend(c) == ~Expired(c.lease) /\ c.deadline > clock[c.lease]

ReceiveRenewed(c) ==
    /\ c.st = "ok" /\ c.op = "renew"
    /\ calls' = calls \ {c}
    /\ expiresAt' = IF MayExtend(c) /\ c.deadline > expiresAt[c.lease]
                    THEN [expiresAt EXCEPT ![c.lease] = c.deadline]
                    ELSE expiresAt
    /\ lost' = IF MayExtend(c) THEN lost ELSE lost \cup {c.lease}
    /\ UNCHANGED <<timeVars, keyVars, grantVars, pc, ghosts>>

ReceiveHeld(c) ==
    /\ c.st = "ok" /\ c.op = "held"
    /\ calls' = calls \ {c}
    /\ lost' = IF Expired(c.lease) THEN lost \cup {c.lease} ELSE lost
    /\ UNCHANGED <<timeVars, keyVars, grantVars, pc, expiresAt, ghosts>>

ReceiveGone(c) ==
    /\ c.st = "gone"
    /\ calls' = calls \ {c}
    /\ lost' = lost \cup {c.lease}
    /\ UNCHANGED <<timeVars, keyVars, grantVars, pc, expiresAt, ghosts>>

\* The deadline is found over: by checkDeadline's timer, by withLeaseDeadline
\* before a call, or by its own timer while a call is pending.
DeadlineOver(l) ==
    /\ pc[l] = "held"
    /\ l \notin lost
    /\ Expired(l)
    /\ lost' = lost \cup {l}
    /\ UNCHANGED <<timeVars, keyVars, grantVars, pc, expiresAt, calls, ghosts>>

---------------------------------------------------------------------------
(* handle.release.                                                          *)

\* stop: local use ends before anything is sent.
Unlock(l) ==
    /\ pc[l] = "held"
    /\ pc' = [pc EXCEPT ![l] = "stopping"]
    /\ lost' = lost \cup {l}
    /\ UNCHANGED <<timeVars, keyVars, grantVars, expiresAt, calls, ghosts>>

\* Renewer.Stop has joined the loop; a user's Renew may still be running.
SendRelease(l) ==
    /\ pc[l] \in {"stopping", "unreleased"}
    /\ ~ \E c \in calls : c.lease = l /\ c.by = "heart"
    /\ pc' = [pc EXCEPT ![l] = "releasing"]
    /\ UNCHANGED <<timeVars, keyVars, grantVars, expiresAt, lost, calls, ghosts>>

ServeRelease(l) ==
    /\ pc[l] = "releasing"
    /\ ReleaseScript(l)
    /\ pc' = [pc EXCEPT ![l] = IF Owns(l) THEN "freed" ELSE "notowner"]
    /\ UNCHANGED <<timeVars, grantVars, expiresAt, lost, calls, ghosts>>

ResendRelease(l) ==
    /\ pc[l] \in {"releasing", "freed", "notowner"}
    /\ pc' = [pc EXCEPT ![l] = "releasing"]
    /\ ghosts' = Abandon(pc[l] = "releasing", ReleaseReq(l))
    /\ UNCHANGED <<timeVars, keyVars, grantVars, expiresAt, lost, calls>>

\* The error is returned and releaseDone stays false: Unlock may be repeated.
FailRelease(l) ==
    /\ pc[l] \in {"releasing", "freed", "notowner"}
    /\ pc' = [pc EXCEPT ![l] = "unreleased"]
    /\ ghosts' = Abandon(pc[l] = "releasing", ReleaseReq(l))
    /\ UNCHANGED <<timeVars, keyVars, grantVars, expiresAt, lost, calls>>

ReceiveRelease(l) ==
    /\ pc[l] \in {"freed", "notowner"}
    /\ pc' = [pc EXCEPT ![l] = "released"]
    /\ expiresAt' = IF pc[l] = "freed" THEN [expiresAt EXCEPT ![l] = 0]
                    ELSE expiresAt
    /\ UNCHANGED <<timeVars, keyVars, grantVars, lost, calls, ghosts>>

---------------------------------------------------------------------------
(* The environment.                                                         *)

\* The server executes a copy left behind; there may be more of the same.
ServeGhost(g) ==
    /\ \/ /\ g.op = "acquire"
          /\ AcquireGrants(g.lease) \/ AcquireDenies(g.lease)
       \/ /\ g.op = "renew"
          /\ RenewScript(g.lease)
       \/ /\ g.op = "release"
          /\ ReleaseScript(g.lease)
    /\ UNCHANGED <<timeVars, grantVars, pc, expiresAt, lost, calls, ghosts>>

Tick ==
    /\ now < MaxTime
    /\ now' = now + 1
    /\ clock' \in [Leases -> (now + 1 - Drift) .. (now + 1)]
    /\ \A l \in Leases : clock[l] <= clock'[l]
    /\ UNCHANGED <<keyVars, grantVars, pc, expiresAt, lost, calls, ghosts>>

\* Redis restarts without its data, or with an old value of the counter.
Restart ==
    /\ DataLoss
    /\ owner' = NoOwner
    /\ expireAt' = 0
    /\ fencing' \in 0 .. fencing
    /\ UNCHANGED <<timeVars, grantVars, pc, expiresAt, lost, calls, ghosts>>

---------------------------------------------------------------------------
LeaseStep(l) ==
    \/ StartAcquire(l) \/ ServeGrant(l) \/ ServeDenial(l)
    \/ ResendAcquire(l) \/ FailAcquire(l)
    \/ ReceiveGrant(l) \/ ReceiveLateGrant(l)
    \/ Backoff(l) \/ GiveUp(l)
    \/ ServeDiscard(l) \/ ResendDiscard(l) \/ FailDiscard(l)
    \/ \E by \in Callers : CheckCall(l, by)
    \/ DeadlineOver(l)
    \/ Unlock(l) \/ SendRelease(l) \/ ServeRelease(l)
    \/ ResendRelease(l) \/ FailRelease(l) \/ ReceiveRelease(l)

CallStep(c) ==
    \/ SendCall(c) \/ ServeCall(c) \/ ResendCall(c) \/ FailCall(c)
    \/ ReceiveRenewed(c) \/ ReceiveHeld(c) \/ ReceiveGone(c)

Next ==
    \/ \E l \in Leases : LeaseStep(l)
    \/ \E c \in calls : CallStep(c)
    \/ \E g \in ghosts : ServeGhost(g)
    \/ Tick
    \/ Restart

Spec == Init /\ [][Next]_vars

---------------------------------------------------------------------------
TypeOK ==
    /\ now \in Nat
    /\ clock \in [Leases -> Nat]
    /\ owner \in Leases \cup {NoOwner}
    /\ expireAt \in Nat
    /\ fencing \in Nat
    /\ pc \in [Leases -> Stages]
    /\ deadline \in [Leases -> Nat]
    /\ reply \in [Leases -> Nat]
    /\ expiresAt \in [Leases -> Nat]
    /\ fence \in [Leases -> Nat]
    /\ lost \subseteq Leases
    /\ calls \subseteq Call
    /\ ghosts \subseteq Request

\* The guard exists, has not been told of a loss, and its local deadline
\* stands: the holder is entitled to use the resource.
InUse(l) == pc[l] = "held" /\ l \notin lost /\ ~Expired(l)

(* At most one holder uses the resource at a time: whoever the local         *)
(* deadlines of SingleOwner leave entitled to it, no two of them are, with    *)
(* delayed requests, lost replies, retries and drifting clocks.               *)
MutualExclusion ==
    \A l, k \in Leases : InUse(l) /\ InUse(k) => l = k

(* A holder that is entitled to the resource carries the newest fencing      *)
(* token: no resource that rejects older tokens can turn it away because     *)
(* single_acquire.lua has minted another one meanwhile.                      *)
NewestFence ==
    \A l \in Leases : InUse(l) => fence[l] = fencing

(* The server's answer "not yours" to Renew or Held is never wrong about a    *)
(* holder whose local deadline stands: handle.renew gives up no live lease.   *)
VerdictIsFinal ==
    \A c \in calls : c.st = "gone" => ~InUse(c.lease)

(* Once Unlock has returned nil or ErrLost the key is not held by that lease  *)
(* again: nothing left behind by it takes the lock for nobody.               *)
ReleasedStaysFree ==
    \A l \in Leases : pc[l] = "released" => ~Owns(l)

(* Loss is terminal for a guard: no late reply of Renew, no second caller and *)
(* no restart of Redis makes a lease usable again once its use has ended.     *)
NoRevival ==
    [][\A l \in Leases : fence[l] # 0 /\ ~InUse(l) => ~InUse(l)']_vars

(* A stale holder never releases the lease of a newer one: a live lock key    *)
(* that is deleted (a restart also clears expireAt) had its own lease end     *)
(* first, by Unlock, by a loss or by discarding a late grant.                 *)
SafeUnlock ==
    [][\A l \in Leases :
          Owns(l) /\ owner' # l /\ expireAt' # 0 =>
              l \in lost \/ pc[l] \in {"discarding", "failed"}]_vars

(* Seen from its users, the lease is the abstract lock: every step of the     *)
(* clients, the server and the transport is a grant, an end or nothing.       *)
Lock == INSTANCE FencedLock
            WITH users <- {l \in Leases : InUse(l)}, token <- fence

ImplementsFencedLock == Lock!Spec

---------------------------------------------------------------------------
(* Why it holds.  The parts of an inductive invariant for a transport        *)
(* without overtaking and a server that keeps its data.                      *)

Attempting == {"acquiring", "granted", "denied"}
Unlocking == {"stopping", "releasing", "freed", "notowner", "unreleased", "released"}
Guarded == {"held"} \cup Unlocking

\* No process clock runs ahead of the server's, or behind it by more than Drift.
ClockInv ==
    \A l \in Leases : clock[l] <= now /\ now <= clock[l] + Drift

\* The key's expiry and the counter, and what was read from the counter.
KeyInv ==
    /\ expireAt <= now + TTL
    /\ fencing <= MaxFence
    /\ owner # NoOwner => fencing >= 1
    /\ \A l \in Leases : fence[l] <= fencing

\* The token of the current owner was given to nobody else.
OwnerInv ==
    \A l, k \in Leases : owner = l /\ k # l => fence[k] < fencing

\* How far a lease is determines what it has.
StageInv ==
    \A l \in Leases :
       /\ fence[l] # 0 => pc[l] \in Guarded
       /\ pc[l] \in Unlocking => l \in lost
       /\ ReleaseReq(l) \in ghosts =>
             pc[l] \in {"discarding", "failed"} \cup Unlocking

\* Only a lease that was handed out can be lost.
LostInv ==
    \A l \in lost : pc[l] \in Guarded

\* Where a lease cannot hold the key, and where nothing can take it for it.
QuietInv ==
    \A l \in Leases :
       /\ pc[l] \notin {"acquiring", "failed"} => AcquireReq(l) \notin ghosts
       /\ pc[l] \in {"idle", "denied", "backoff", "freed", "notowner", "released"} =>
             ~Owns(l)

\* The local deadline of an attempt is earlier, by Margin, than the expiry of
\* a key set during that attempt.
AttemptInv ==
    \A l \in Leases :
       /\ pc[l] \in Attempting => deadline[l] + Margin <= now + TTL
       /\ pc[l] \in {"acquiring", "granted"} /\ Owns(l) =>
             deadline[l] + Margin <= expireAt
       /\ pc[l] = "granted" /\ deadline[l] > clock[l] =>
             Owns(l) /\ reply[l] = fencing

\* A lease in use is the one the key belongs to, beyond its local deadline.
UseInv ==
    \A l \in Leases :
       InUse(l) => /\ owner = l
                   /\ expiresAt[l] + Margin <= expireAt
                   /\ fence[l] = fencing

\* What the answers under way to Renew and Held say.
CallInv ==
    \A c \in calls :
       /\ pc[c.lease] \in Guarded
       /\ c.deadline + Margin <= now + TTL
       /\ c.st = "ok" /\ c.op = "renew" /\ InUse(c.lease) =>
             c.deadline + Margin <= expireAt
       /\ c.st = "gone" => ~InUse(c.lease)

(* The conjunction is inductive: together the parts say why the server's      *)
(* expiry of the key always outlives the holder's local deadline.             *)
IndInv ==
    /\ TypeOK /\ ClockInv /\ KeyInv /\ OwnerInv
    /\ StageInv /\ LostInv /\ QuietInv /\ AttemptInv /\ UseInv /\ CallInv
============================================================================
