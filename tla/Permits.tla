------------------------------ MODULE Permits ------------------------------
(* The permits of Semaphore: the Lua scripts sem_acquire, sem_renew and      *)
(* sem_release on one sorted set, the Go type lease.PermitSet that calls     *)
(* them, and the loops of Semaphore.Acquire and TryAcquire around it.        *)
(*                                                                           *)
(* A member of Leases is one PermitSet: one call of Acquire for Need[l]      *)
(* permits, in a process with its own clock.  Scores are written and purged  *)
(* by the clock readings the requests carry, never by the server's clock.    *)
EXTENDS Integers, FiniteSets, Functions

CONSTANTS
    Leases,      \* the grants, one PermitSet each
    Need,        \* Need[l]: how many permits l asks for
    Capacity,    \* the semaphore's capacity
    TTL,         \* the lease TTL, in clock ticks
    Margin,      \* what requestExpiry takes off the TTL
    Drift,       \* how far a process clock may lag behind the fastest one
    Callers,     \* who calls Renew: "heart", the background loop, and "user"
    Heartbeat,   \* Heartbeat[l]: what the background loop calls, "renew" or "held"
    Overtaking,  \* TRUE: a copy left behind by the transport may be executed
                 \* after a later request of the same lease
    MaxTime,     \* bound: time stops here
    MaxGhosts    \* bound: different requests left behind at a time

ASSUME PermitAssumption ==
    /\ Capacity \in Nat \ {0} /\ Need \in [Leases -> Nat \ {0}]
    /\ TTL \in Nat /\ Margin \in Nat /\ Drift \in Nat
    /\ MaxTime \in Nat /\ MaxGhosts \in Nat
    /\ Drift <= Margin /\ Margin <= TTL

ASSUME CallAssumption ==
    /\ Callers \subseteq {"heart", "user"}
    /\ Heartbeat \in [Leases -> {"renew", "held"}] /\ Overtaking \in BOOLEAN

VARIABLES
    now,        \* the time of the fastest clock
    clock,      \* clock[l]: the clock of l's process
    score,      \* the sorted set: the expiry of every permit token in it
    stage,      \* where the goroutine that called Acquire, then Release, is
    expiresAt,  \* PermitSet.expiresAt; 0 is the zero time
    lost,       \* the leases whose lostCtx is canceled
    calls,      \* the calls in progress
    ghosts      \* copies of requests their call no longer waits for

vars == <<now, clock, score, stage, expiresAt, lost, calls, ghosts>>
local == <<now, clock, stage, expiresAt, lost>>

Stages == {"waiting", "held", "discarding", "failed", "stopping", "released"}

Call == [lease : Leases, by : {"main"} \cup Callers,
         op : {"acquire", "renew", "held", "release"}, at : Nat,
         st : {"checked", "sent", "ok", "no"}]

\* p.id#i for i below n.
Tokens(l) == {<<l, i>> : i \in 1 .. Need[l]}

Request == [op : {"acquire", "renew", "release"}, lease : Leases, at : Nat]

Init ==
    /\ now = 0
    /\ clock = [l \in Leases |-> 0]
    /\ score = [k \in {} |-> 0]
    /\ stage = [l \in Leases |-> "waiting"]
    /\ expiresAt = [l \in Leases |-> 0]
    /\ lost = {}
    /\ calls = {}
    /\ ghosts = {}

---------------------------------------------------------------------------
(* The scripts: the new sorted set, for a lease and the clock reading at     *)
(* that its request carries.                                                 *)

\* ZADD of all tokens of l with one score.
Stamped(S, l, at) ==
    [k \in S \cup Tokens(l) |-> IF k \in Tokens(l) THEN at + TTL ELSE score[k]]

\* ZREMRANGEBYSCORE -inf now.
Unexpired(at) == {k \in DOMAIN score : score[k] > at}

\* Mutant: the permits asked for are not counted.
FitsBarely(l, at) == Cardinality(Unexpired(at)) < Capacity

Fits(l, at) == Cardinality(Unexpired(at)) + Need[l] <= Capacity

\* Mutant: a grant takes what is left when not everything fits.
AcquireTakesWhatFits(l, at) ==
    LET S == Unexpired(at)
        some == {<<l, i>> : i \in 1 .. Capacity - Cardinality(S)}
    IN  IF Tokens(l) \subseteq S THEN Restrict(score, S)
        ELSE [k \in S \cup (some \cap Tokens(l)) |->
                 IF k \in S THEN score[k] ELSE at + TTL]

\* A grant that is there already is neither counted twice nor refreshed.
Acquired(l, at) ==
    LET S == Unexpired(at)
    IN  IF ~(Tokens(l) \subseteq S) /\ Fits(l, at) THEN Stamped(S, l, at)
        ELSE Restrict(score, S)

Owns(l, at) == Tokens(l) \subseteq Unexpired(at)

\* Mutant: the tokens are added whether or not they are there.
RenewRecreates(l, at) == Stamped(DOMAIN score, l, at)

Renewed(l, at) ==
    IF Owns(l, at) THEN Stamped(DOMAIN score, l, at) ELSE score

Removed(l) == Restrict(score, DOMAIN score \ Tokens(l))

Script(r) ==
    score' = CASE r.op = "acquire" -> Acquired(r.lease, r.at)
               [] r.op = "renew" -> Renewed(r.lease, r.at)
               [] r.op = "release" -> Removed(r.lease)
               [] r.op = "held" -> score

\* What the script answers: permits granted, all of them still owned, all of
\* them removed.
Answer(r) ==
    CASE r.op = "acquire" -> Tokens(r.lease) \subseteq DOMAIN score'
      [] r.op = "release" -> Tokens(r.lease) \subseteq DOMAIN score
      [] OTHER -> Owns(r.lease, r.at)

---------------------------------------------------------------------------
(* Calls over the transport.                                                *)

\* Mutant: no safety margin.
DeadlineWithoutMargin(c) == c.at + TTL

Deadline(c) == c.at + TTL - Margin

Expired(l) == expiresAt[l] <= clock[l]

HasTokens(l) == stage[l] \in {"held", "discarding", "stopping"}

Idle(l, by) == ~ \E c \in calls : c.lease = l /\ c.by = by

Start(l, by, op, st) ==
    calls' = calls \cup {[lease |-> l, by |-> by, op |-> op,
                          at |-> IF st = "sent" THEN clock[l] ELSE 0, st |-> st]}

Progress(c, st) == calls' = (calls \ {c}) \cup {[c EXCEPT !.st = st]}

\* TryAcquire, in the loop of Acquire or alone.
StartAcquire(l) ==
    /\ stage[l] = "waiting"
    /\ Idle(l, "main")
    /\ Start(l, "main", "acquire", "sent")
    /\ UNCHANGED <<local, score, ghosts>>

\* The handle's checks before Renew or Held: neither released, lost nor over.
CheckCall(l, by) ==
    /\ stage[l] = "held" /\ l \notin lost /\ ~Expired(l)
    /\ Idle(l, by)
    /\ Start(l, by, IF by = "heart" THEN Heartbeat[l] ELSE "renew", "checked")
    /\ UNCHANGED <<local, score, ghosts>>

\* Renew reads its clock, then its tokens: without any it returns ErrLost.
SendCall(c) ==
    /\ c.st = "checked"
    /\ IF HasTokens(c.lease)
       THEN /\ calls' = (calls \ {c}) \cup
                        {[c EXCEPT !.at = clock[c.lease], !.st = "sent"]}
            /\ UNCHANGED lost
       ELSE /\ calls' = calls \ {c}
            /\ lost' = lost \cup {c.lease}
    /\ UNCHANGED <<now, clock, score, stage, expiresAt, ghosts>>

\* stop: local use ends first.
Stop(l) ==
    /\ stage[l] = "held"
    /\ stage' = [stage EXCEPT ![l] = "stopping"]
    /\ lost' = lost \cup {l}
    /\ UNCHANGED <<now, clock, score, expiresAt, calls, ghosts>>

\* Release, after the loop was joined, again after a failure, or for a grant
\* that came too late.
StartRelease(l) ==
    /\ stage[l] \in {"stopping", "discarding"}
    /\ Idle(l, "main") /\ Idle(l, "heart")
    /\ Start(l, "main", "release", "sent")
    /\ UNCHANGED <<local, score, ghosts>>

\* Without overtaking, what the lease sent before ran before this or never.
Serve(c) ==
    /\ c.st = "sent"
    /\ Script(c)
    /\ Progress(c, IF Answer(c) THEN "ok" ELSE "no")
    /\ ghosts' = IF Overtaking THEN ghosts
                 ELSE {g \in ghosts : g.lease # c.lease}
    /\ UNCHANGED local

\* A copy that was not served is left behind; at the bound it is lost.
Abandon(c) ==
    ghosts' = IF c.st = "sent" /\ c.op # "held" /\ Cardinality(ghosts) < MaxGhosts
              THEN ghosts \cup {[op |-> c.op, lease |-> c.lease, at |-> c.at]}
              ELSE ghosts

Resend(c) ==
    /\ c.st \in {"sent", "ok", "no"}
    /\ Progress(c, "sent")
    /\ Abandon(c)
    /\ UNCHANGED <<local, score>>

\* A transport error or a canceled context: Acquire and the discarding release
\* give up, Release may be called again, the other calls change nothing.
Fail(c) ==
    /\ calls' = calls \ {c}
    /\ Abandon(c)
    /\ stage' = IF c.op = "acquire" \/ stage[c.lease] = "discarding"
                THEN [stage EXCEPT ![c.lease] = "failed"] ELSE stage
    /\ lost' = IF c.op \in {"renew", "held"} /\ Expired(c.lease)
               THEN lost \cup {c.lease} ELSE lost
    /\ UNCHANGED <<now, clock, score, expiresAt>>

---------------------------------------------------------------------------
(* Replies.                                                                 *)

\* A grant is used up to its deadline, or discarded when that is over.
ReceiveGrant(c) ==
    LET intime == Deadline(c) > clock[c.lease]
    IN  /\ c.op = "acquire" /\ c.st = "ok"
        /\ calls' = calls \ {c}
        /\ stage' = [stage EXCEPT ![c.lease] = IF intime THEN "held" ELSE "discarding"]
        /\ expiresAt' = IF intime THEN [expiresAt EXCEPT ![c.lease] = Deadline(c)]
                        ELSE expiresAt
        /\ UNCHANGED <<now, clock, score, lost, ghosts>>

\* Acquire waits for its next attempt with the same tokens.
ReceiveBusy(c) ==
    /\ c.op = "acquire" /\ c.st = "no"
    /\ calls' = calls \ {c}
    /\ UNCHANGED <<local, score, ghosts>>

\* TryAcquire returns ErrNotAcquired, Acquire its context's error.
GiveUp(l) ==
    /\ stage[l] = "waiting"
    /\ Idle(l, "main")
    /\ stage' = [stage EXCEPT ![l] = "failed"]
    /\ UNCHANGED <<now, clock, score, expiresAt, lost, calls, ghosts>>

\* Mutant: the old deadline is not looked at.
ConfirmsLate(c) == c.st = "ok" /\ Deadline(c) > clock[c.lease]

\* Renew moves the deadline, only forward, while both the old and the new
\* one stand; otherwise the handle declares the loss.
Confirms(c) ==
    c.st = "ok" /\ ~Expired(c.lease) /\ Deadline(c) > clock[c.lease]

ReceiveRenew(c) ==
    /\ c.op = "renew" /\ c.st \in {"ok", "no"}
    /\ calls' = calls \ {c}
    /\ expiresAt' = IF Confirms(c) /\ Deadline(c) > expiresAt[c.lease]
                    THEN [expiresAt EXCEPT ![c.lease] = Deadline(c)] ELSE expiresAt
    /\ lost' = IF Confirms(c) THEN lost ELSE lost \cup {c.lease}
    /\ UNCHANGED <<now, clock, score, stage, ghosts>>

ReceiveHeld(c) ==
    /\ c.op = "held" /\ c.st \in {"ok", "no"}
    /\ calls' = calls \ {c}
    /\ lost' = IF c.st = "no" \/ Expired(c.lease)
               THEN lost \cup {c.lease} ELSE lost
    /\ UNCHANGED <<now, clock, score, stage, expiresAt, ghosts>>

\* The tokens are forgotten whatever the number of permits removed.
ReceiveRelease(c) ==
    /\ c.op = "release" /\ c.st \in {"ok", "no"}
    /\ calls' = calls \ {c}
    /\ stage' = [stage EXCEPT ![c.lease] =
                    IF @ = "discarding" THEN "failed" ELSE "released"]
    /\ expiresAt' = [expiresAt EXCEPT ![c.lease] = 0]
    /\ UNCHANGED <<now, clock, score, lost, ghosts>>

\* The deadline is found over, by a timer or before or during a call.
DeadlineOver(l) ==
    /\ stage[l] = "held" /\ l \notin lost /\ Expired(l)
    /\ lost' = lost \cup {l}
    /\ UNCHANGED <<now, clock, score, stage, expiresAt, calls, ghosts>>

---------------------------------------------------------------------------
ServeGhost(g) ==
    /\ Script(g)
    /\ UNCHANGED <<local, calls, ghosts>>

Tick ==
    /\ now < MaxTime
    /\ now' = now + 1
    /\ clock' \in [Leases -> (now + 1 - Drift) .. (now + 1)]
    /\ \A l \in Leases : clock[l] <= clock'[l]
    /\ UNCHANGED <<score, stage, expiresAt, lost, calls, ghosts>>

Next ==
    \/ \E l \in Leases :
          \/ StartAcquire(l) \/ GiveUp(l) \/ DeadlineOver(l)
          \/ Stop(l) \/ StartRelease(l)
          \/ \E by \in Callers : CheckCall(l, by)
    \/ \E c \in calls :
          \/ SendCall(c) \/ Serve(c) \/ Resend(c) \/ Fail(c)
          \/ ReceiveGrant(c) \/ ReceiveBusy(c)
          \/ ReceiveRenew(c) \/ ReceiveHeld(c) \/ ReceiveRelease(c)
    \/ \E g \in ghosts : ServeGhost(g)
    \/ Tick

Spec == Init /\ [][Next]_vars

---------------------------------------------------------------------------
TypeOK ==
    /\ now \in Nat /\ clock \in [Leases -> Nat]
    /\ DOMAIN score \subseteq UNION {Tokens(l) : l \in Leases} /\ score \in [DOMAIN score -> Nat]
    /\ stage \in [Leases -> Stages]
    /\ expiresAt \in [Leases -> Nat]
    /\ lost \subseteq Leases
    /\ calls \subseteq Call /\ ghosts \subseteq Request

\* The holder has the permits, was not told of a loss, and its deadline stands.
InUse(l) == stage[l] = "held" /\ l \notin lost /\ ~Expired(l)

UsedPermits == UNION {Tokens(l) : l \in {k \in Leases : InUse(k)}}

(* "At most capacity permits can be held at once, across all processes": the  *)
(* permits of all holders whose local deadline stands, although permits are   *)
(* reclaimed by the clocks of other processes.                                *)
CapacityKept == Cardinality(UsedPermits) <= Capacity

\* Semaphore.Available: what ZCARD leaves of the capacity, at least 0.
Available ==
    LET free == Capacity - Cardinality(DOMAIN score)
    IN  IF free < 0 THEN 0 ELSE free

(* Semaphore.Available errs on one side only: it counts permits that have     *)
(* expired but never reports a permit as free that a holder still uses.       *)
AvailableIsFree == Available + Cardinality(UsedPermits) <= Capacity

(* A grant is never split: the permits of one lease are in the sorted set     *)
(* together or not at all, through purges, renewals and repeated requests.    *)
AllOrNothing ==
    \A l \in Leases :
       Tokens(l) \subseteq DOMAIN score \/ Tokens(l) \cap DOMAIN score = {}

(* The answer "not all yours" to Renew or Held is never wrong about a holder  *)
(* whose local deadline stands.                                               *)
VerdictIsFinal ==
    \A c \in calls :
       c.op \in {"renew", "held"} /\ c.st = "no" => ~InUse(c.lease)

(* Once Release has returned nil or ErrLost, nothing left behind by the lease *)
(* takes permits for nobody.                                                  *)
ReleasedStaysFree ==
    \A l \in Leases : stage[l] = "released" => Tokens(l) \cap DOMAIN score = {}

(* Seen from its users the semaphore is the abstract pool of permits: within  *)
(* its capacity, and no late reply brings a grant back that has ended.        *)
Pool == INSTANCE PermitPool
            WITH users <- {l \in Leases : InUse(l)},
                 granted <- {l \in Leases : stage[l] \in {"held", "stopping", "released"}}

ImplementsPermitPool == Pool!Spec

---------------------------------------------------------------------------
(* Why it holds: an inductive invariant for a transport without overtaking   *)
(* and a single source of renewals.                                          *)

SingleRenewer ==
    {"heart", "user"} \subseteq Callers => \A l \in Leases : Heartbeat[l] = "held"

\* No process clock runs ahead of the fastest one, or lags more than Drift.
ClockInv ==
    \A l \in Leases : clock[l] <= now /\ now <= clock[l] + Drift

\* The sorted set stays within the capacity and never splits a grant.
SetInv ==
    /\ IsFiniteSet(DOMAIN score) /\ Cardinality(DOMAIN score) <= Capacity
    /\ \A l \in Leases : \A j, k \in Tokens(l) :
          j \in DOMAIN score => k \in DOMAIN score /\ score[j] = score[k]

Guarded == {"held", "stopping", "released"}

\* Which calls there are, and for leases how far.
CallInv ==
    /\ \A c, d \in calls : c.lease = d.lease /\ c.by = d.by => c = d
    /\ \A c \in calls :
          /\ c.at <= clock[c.lease]
          /\ c.op = "acquire" =>
                c.by = "main" /\ c.st # "checked" /\ stage[c.lease] = "waiting"
          /\ c.op = "release" =>
                /\ c.by = "main" /\ c.st # "checked"
                /\ stage[c.lease] \in {"stopping", "discarding"}
          /\ c.op \in {"renew", "held"} =>
                c.by \in Callers /\ stage[c.lease] \in Guarded
          /\ c.op = "renew" => c.by = "user" \/ Heartbeat[c.lease] = "renew"
    /\ \A l \in Leases : stage[l] \in {"stopping", "released"} => l \in lost

\* What may still be under way, and how old it can be.
GhostInv ==
    \A g \in ghosts :
       /\ g.at <= clock[g.lease]
       /\ g.op = "acquire" => stage[g.lease] \in {"waiting", "failed"}
       /\ g.op = "acquire" /\ stage[g.lease] = "waiting" =>
             \E c \in calls : /\ c.lease = g.lease /\ c.op = "acquire"
                              /\ c.st = "sent" /\ c.at = g.at
       /\ g.op = "renew" => stage[g.lease] \in Guarded
       /\ g.op = "release" =>
             stage[g.lease] \in {"discarding", "failed", "stopping", "released"}

\* The permits of an attempt, and of a grant that is over, in the sorted set.
GrantInv ==
    /\ \A l \in Leases : \A k \in Tokens(l) :
          /\ k \in DOMAIN score =>
                stage[l] # "released" /\ (stage[l] = "waiting" => ~Idle(l, "main"))
          /\ InUse(l) => /\ k \in DOMAIN score
                         /\ expiresAt[l] + Margin <= score[k]
    /\ \A c \in calls : \A k \in Tokens(c.lease) :
          /\ c.op = "acquire" /\ k \in DOMAIN score =>
                c.st # "no" /\ score[k] = c.at + TTL
          /\ c.op = "acquire" /\ c.st = "ok" /\ Deadline(c) > clock[c.lease] =>
                k \in DOMAIN score
          /\ c.op = "release" /\ c.st \in {"ok", "no"} => k \notin DOMAIN score

\* No renewal under way would set an earlier expiry than was confirmed.
RenewInv ==
    /\ \A l \in Leases : expiresAt[l] + Margin <= clock[l] + TTL
    /\ \A c \in calls : c.op = "renew" /\ c.st # "checked" /\ InUse(c.lease) =>
          /\ expiresAt[c.lease] <= Deadline(c)
          /\ c.st = "ok" => \A k \in Tokens(c.lease) : Deadline(c) + Margin <= score[k]
    /\ \A g \in ghosts : g.op = "renew" /\ InUse(g.lease) =>
          /\ expiresAt[g.lease] + Margin <= g.at + TTL
          /\ \A c \in calls : c.lease = g.lease /\ c.op = "renew" => c.st \notin {"ok", "no"}

(* The conjunction is inductive: the score of every permit in use outlives    *)
(* the holder's local deadline by the margin, so no other process, whatever   *)
(* its clock, purges it.                                                      *)
IndInv ==
    /\ TypeOK /\ ClockInv /\ SetInv /\ CallInv /\ GhostInv /\ GrantInv
    /\ RenewInv /\ VerdictIsFinal
============================================================================
