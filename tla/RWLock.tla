------------------------------ MODULE RWLock -------------------------------
(* The FIFO read-write lock: the scripts rw_write_lock and rw_read_lock with *)
(* their arrival queue, the leases RWWriter and RWReader that call them, and *)
(* the loops of RWMutex.Lock, TryLock, RLock and TryRLock around those.      *)
(*                                                                           *)
(* Every time is relative to the present: 0 is now, and Tick moves all times *)
(* back by one, so time need not be bounded and liveness can be checked.     *)
(* The arrival sequence numbers are the positions in waiters: the keys       *)
(* waiters, waiterTs and seq are always given the same expiry together.      *)
EXTENDS Integers, Sequences, FiniteSetsExt, Functions

CONSTANTS
    Writers, Readers,  \* the contenders: one call of Lock or RLock at a time
    NoWriter,          \* the writer key does not exist
    TTL,               \* the lease TTL
    Margin,            \* what requestExpiry takes off the TTL
    MaxAhead,          \* how far a process clock may be ahead of the server's
    Backoff,           \* the longest pause between two attempts of Lock
    MaxDelay,          \* bound: a request is executed and answered, or given
                       \* up, within this time
    Faults             \* what may go wrong, a subset of FaultKinds

FaultKinds ==
    {"giveup",   \* a Try call fails, or a context ends between two attempts
     "cancel",   \* a context ends during an attempt
     "crash",    \* a process dies
     "copy",     \* an attempt that failed leaves a copy behind
     "reply",    \* a reply is lost and the attempt is sent again
     "renewal",  \* holders renew in the background
     "command"}  \* a command of Dequeue fails

ASSUME RWAssumption ==
    /\ Writers \cap Readers = {} /\ NoWriter \notin Writers \cup Readers
    /\ TTL \in Nat \ {0} /\ Margin \in 0 .. TTL - 1 /\ MaxAhead \in 0 .. Margin
    /\ Backoff \in Nat \ {0} /\ MaxDelay \in Nat /\ Faults \subseteq FaultKinds

Contenders == Writers \cup Readers

VARIABLES
    ahead,       \* ahead[c]: how far the clock of c's process is ahead
    writer,      \* the writer key, gone once writerLeft is 0
    writerLeft,
    readers,     \* the readers set: the expiry of every reader in it
    waiters,     \* the arrival queue
    seen,        \* waiterTs: the clock reading of the last attempt
    queueLeft,   \* how long waiters and waiterTs still live
    stage,       \* where each contender is
    since,       \* when its attempt started, or was answered busy
    answer,      \* the reply its attempt waits for: "none", "ok" or "no"
    deadline,    \* expiresAt of the lease; at most 0 when it is over
    beats,       \* renewals in progress
    copies,      \* attempts nobody waits for any more
    arrivals     \* history: the live waiters in the order of their arrival

server == <<writer, writerLeft, readers, waiters, seen, queueLeft>>
client == <<stage, since, answer, deadline, beats, copies>>
vars == <<ahead, server, client, arrivals>>

Stages == {"idle", "asking", "queued", "zrem", "hdel", "held", "discarding",
           "unlocking", "done", "canceled", "failed"}

Init ==
    /\ ahead \in [Contenders -> 0 .. MaxAhead]
    /\ writer = NoWriter /\ writerLeft = 0
    /\ readers = <<>>
    /\ waiters = <<>> /\ seen = <<>> /\ queueLeft = 0
    /\ stage = [c \in Contenders |-> "idle"]
    /\ since = [c \in Contenders |-> 0]
    /\ answer = [c \in Contenders |-> "none"]
    /\ deadline = [c \in Contenders |-> 0]
    /\ beats = {} /\ copies = {} /\ arrivals = <<>>

---------------------------------------------------------------------------
(* The scripts, for contender c and the clock reading t of its request.      *)

WaiterTimeout == 2 * TTL

\* ZREM: the queue s without m.
Without(s, m) ==
    IF m \in Range(s)
    THEN LET i == CHOOSE k \in DOMAIN s : s[k] = m
         IN  SubSeq(s, 1, i - 1) \o SubSeq(s, i + 1, Len(s))
    ELSE s

\* Mutant: every attempt adds an entry.
JoinedTwice(c) == Append(waiters, c)

\* The first attempt joins the queue, a retry keeps its place.
Joined(c) == IF c \in Range(waiters) THEN waiters ELSE Append(waiters, c)

Touched(c, t) == [m \in DOMAIN seen \cup {c} |-> IF m = c THEN t ELSE seen[m]]

\* Mutant: nobody is ever declared crashed.
NeverSilent(m, hash, t) == FALSE

\* An entry without a timestamp is not silent.
Silent(m, hash, t) == m \in DOMAIN hash /\ hash[m] < t - WaiterTimeout

\* The queue without the silent entries at its head.
Queue(c, t) ==
    LET q == Joined(c)
        alive == {i \in DOMAIN q : ~Silent(q[i], Touched(c, t), t)}
    IN  SubSeq(q, Min(alive), Len(q))

Stamps(c, t) ==
    LET purged == Range(Joined(c)) \ Range(Queue(c, t))
    IN  Restrict(Touched(c, t), DOMAIN Touched(c, t) \ purged)

Unexpired(t) == {r \in DOMAIN readers : readers[r] > t}

Recovers(c, t) == IF c \in Writers THEN writer = c ELSE c \in Unexpired(t)

\* Mutant: a writer only looks at the writer key.
MayWriteAnyway(c, t) == Head(Queue(c, t)) = c /\ writer = NoWriter

\* Mutant: a writer takes a free lock whoever waits before it.
MayWriteOutOfTurn(c, t) == writer = NoWriter /\ Unexpired(t) = {}

MayWrite(c, t) ==
    /\ Head(Queue(c, t)) = c
    /\ writer = NoWriter
    /\ Unexpired(t) = {}

\* Mutant: queued writers do not hold readers back.
MayReadAnyway(c, t) == writer = NoWriter

MayRead(c, t) ==
    /\ writer = NoWriter
    /\ LET q == Queue(c, t)
           place == CHOOSE i \in DOMAIN q : q[i] = c
       IN  \A i \in 1 .. place - 1 : q[i] \notin Writers

Admits(c, t) == IF c \in Writers THEN MayWrite(c, t) ELSE MayRead(c, t)

Grants(c, t) == Recovers(c, t) \/ Admits(c, t)

Grant(c, t) ==
    /\ waiters' = Without(Queue(c, t), c)
    /\ seen' = Restrict(Stamps(c, t), DOMAIN Stamps(c, t) \ {c})
    /\ queueLeft' = WaiterTimeout
    /\ IF c \in Writers
       THEN writer' = c /\ writerLeft' = TTL /\ readers' = Restrict(readers, Unexpired(t))
       ELSE /\ readers' = [r \in DOMAIN readers \cup {c} |->
                               IF r = c THEN t + TTL ELSE readers[r]]
            /\ UNCHANGED <<writer, writerLeft>>

\* A writer at the head has already purged the expired readers.
Refuse(c, t) ==
    /\ waiters' = Queue(c, t)
    /\ seen' = Stamps(c, t)
    /\ queueLeft' = WaiterTimeout
    /\ readers' = IF c \in Writers /\ Head(Queue(c, t)) = c /\ writer = NoWriter
                  THEN Restrict(readers, Unexpired(t)) ELSE readers
    /\ UNCHANGED <<writer, writerLeft>>

Script(c, t) ==
    CASE Recovers(c, t) -> UNCHANGED server
      [] ~Recovers(c, t) /\ Admits(c, t) -> Grant(c, t)
      [] ~Recovers(c, t) /\ ~Admits(c, t) -> Refuse(c, t)

\* single_release on the writer key, sem_release on the readers set.
Remit(c) ==
    /\ writer' = IF writer = c THEN NoWriter ELSE writer
    /\ writerLeft' = IF writer = c THEN 0 ELSE writerLeft
    /\ readers' = Restrict(readers, DOMAIN readers \ {c})
    /\ UNCHANGED <<waiters, seen, queueLeft>>

---------------------------------------------------------------------------
(* An attempt.                                                              *)

Go(c, st) == stage' = [stage EXCEPT ![c] = st]

\* Lock starts its first attempt, or the next one after a positive delay of at
\* most Backoff.
Attempt(c) ==
    /\ stage[c] = "idle" \/ (stage[c] = "queued" /\ since[c] < 0)
    /\ Go(c, "asking")
    /\ since' = [since EXCEPT ![c] = 0]
    /\ UNCHANGED <<ahead, server, answer, deadline, beats, copies, arrivals>>

Stamp(c) == since[c] + ahead[c]

Serve(c) ==
    /\ stage[c] = "asking" /\ answer[c] = "none"
    /\ Script(c, Stamp(c))
    /\ answer' = [answer EXCEPT ![c] = IF Grants(c, Stamp(c)) THEN "ok" ELSE "no"]
    /\ copies' = {p \in copies : p.who # c}
    /\ arrivals' = IF Grants(c, Stamp(c)) THEN Without(arrivals, c)
                   ELSE IF c \in Range(arrivals) THEN arrivals ELSE Append(arrivals, c)
    /\ UNCHANGED <<ahead, stage, since, deadline, beats>>

Resend(c) ==
    /\ "reply" \in Faults
    /\ stage[c] = "asking" /\ answer[c] # "none"
    /\ answer' = [answer EXCEPT ![c] = "none"]
    /\ UNCHANGED <<ahead, server, stage, since, deadline, beats, copies, arrivals>>

\* Mutant: no safety margin.
ExpiryWithoutMargin(at) == at + TTL

RequestExpiry(at) == at + TTL - Margin

\* A grant that comes after its deadline is discarded, by one release.
ReceiveGrant(c) ==
    /\ stage[c] = "asking" /\ answer[c] = "ok"
    /\ LET d == RequestExpiry(since[c])
       IN  /\ Go(c, IF d > 0 THEN "held" ELSE "discarding")
           /\ deadline' = [deadline EXCEPT ![c] = IF d > 0 THEN d ELSE 0]
    /\ answer' = [answer EXCEPT ![c] = "none"]
    /\ since' = [since EXCEPT ![c] = 0]
    /\ UNCHANGED <<ahead, server, beats, copies, arrivals>>

ReceiveBusy(c) ==
    /\ stage[c] = "asking" /\ answer[c] = "no"
    /\ Go(c, "queued")
    /\ answer' = [answer EXCEPT ![c] = "none"]
    /\ since' = [since EXCEPT ![c] = 0]
    /\ UNCHANGED <<ahead, server, deadline, beats, copies, arrivals>>

\* The call ends without a guard and without Dequeue: any error but ErrBusy
\* is returned at once, the one of a canceled context included.
Abort(c, st) ==
    /\ Go(c, st)
    /\ answer' = [answer EXCEPT ![c] = "none"]
    /\ since' = [since EXCEPT ![c] = 0]
    /\ copies' = IF "copy" \in Faults /\ stage[c] = "asking" /\ answer[c] = "none"
                 THEN copies \cup {[who |-> c, at |-> since[c]]} ELSE copies
    /\ arrivals' = Without(arrivals, c)
    /\ UNCHANGED <<ahead, server, deadline, beats>>

CancelAttempt(c) ==
    /\ "cancel" \in Faults
    /\ stage[c] = "asking"
    /\ Abort(c, "canceled")

FailAttempt(c) ==
    /\ "copy" \in Faults
    /\ stage[c] = "asking"
    /\ Abort(c, "failed")

\* The process dies, or a waiter's goroutine never runs again.
Crash(c) ==
    /\ "crash" \in Faults
    /\ stage[c] \in {"asking", "queued", "zrem", "held", "unlocking", "discarding"}
    /\ beats' = {b \in beats : b.who # c}
    /\ Go(c, "failed")
    /\ answer' = [answer EXCEPT ![c] = "none"]
    /\ since' = [since EXCEPT ![c] = 0]
    /\ deadline' = [deadline EXCEPT ![c] = 0]
    /\ arrivals' = Without(arrivals, c)
    /\ UNCHANGED <<ahead, server, copies>>

---------------------------------------------------------------------------
(* Dequeue: two commands whose errors are ignored.                          *)

\* Mutant: the call returns and keeps its place in the queue.
GiveUpInPlace(c) ==
    /\ "giveup" \in Faults
    /\ stage[c] = "queued"
    /\ Go(c, "canceled")
    /\ since' = [since EXCEPT ![c] = 0]
    /\ arrivals' = Without(arrivals, c)
    /\ UNCHANGED <<ahead, server, answer, deadline, beats, copies>>

\* A Try call, or a context that ended while Lock waited.
GiveUp(c) ==
    /\ "giveup" \in Faults
    /\ stage[c] = "queued"
    /\ Go(c, "zrem")
    /\ since' = [since EXCEPT ![c] = 0]
    /\ arrivals' = Without(arrivals, c)
    /\ UNCHANGED <<ahead, server, answer, deadline, beats, copies>>

DequeueZRem(c) ==
    /\ stage[c] = "zrem"
    /\ Go(c, "hdel")
    /\ \/ waiters' = Without(waiters, c)
       \/ "command" \in Faults /\ UNCHANGED waiters
    /\ UNCHANGED <<ahead, writer, writerLeft, readers, seen, queueLeft, since,
                   answer, deadline, beats, copies, arrivals>>

DequeueHDel(c) ==
    /\ stage[c] = "hdel"
    /\ Go(c, "canceled")
    /\ \/ seen' = Restrict(seen, DOMAIN seen \ {c})
       \/ "command" \in Faults /\ UNCHANGED seen
    /\ UNCHANGED <<ahead, writer, writerLeft, readers, waiters, queueLeft, since,
                   answer, deadline, beats, copies, arrivals>>

---------------------------------------------------------------------------
(* A guard.                                                                 *)

StartRenew(c) ==
    /\ "renewal" \in Faults
    /\ stage[c] = "held" /\ deadline[c] > 0
    /\ ~ \E b \in beats : b.who = c
    /\ beats' = beats \cup {[who |-> c, at |-> 0, st |-> "sent"]}
    /\ UNCHANGED <<ahead, server, stage, since, answer, deadline, copies, arrivals>>

Owned(b) ==
    IF b.who \in Writers THEN writer = b.who
    ELSE b.who \in Unexpired(b.at + ahead[b.who])

\* single_renew by the server's clock, sem_renew by the one of the request.
ServeRenew(b) ==
    /\ b.st = "sent"
    /\ beats' = (beats \ {b}) \cup {[b EXCEPT !.st = IF Owned(b) THEN "ok" ELSE "no"]}
    /\ writerLeft' = IF writer = b.who THEN TTL ELSE writerLeft
    /\ readers' = IF b.who \in Readers /\ Owned(b)
                  THEN [readers EXCEPT ![b.who] = b.at + ahead[b.who] + TTL] ELSE readers
    /\ UNCHANGED <<ahead, writer, waiters, seen, queueLeft, stage, since, answer,
                   deadline, copies, arrivals>>

Confirms(b) == b.st = "ok" /\ deadline[b.who] > 0 /\ RequestExpiry(b.at) > 0

ReceiveRenew(b) ==
    /\ b.st # "sent"
    /\ beats' = beats \ {b}
    /\ deadline' = [deadline EXCEPT ![b.who] =
                       IF Confirms(b) THEN Max({@, RequestExpiry(b.at)}) ELSE 0]
    /\ UNCHANGED <<ahead, server, stage, since, answer, copies, arrivals>>

Unlock(c) ==
    /\ stage[c] = "held"
    /\ Go(c, "unlocking")
    /\ deadline' = [deadline EXCEPT ![c] = 0]
    /\ UNCHANGED <<ahead, server, since, answer, beats, copies, arrivals>>

\* Release, once the loop was joined; or the release of a late grant.
Release(c) ==
    /\ stage[c] \in {"unlocking", "discarding"}
    /\ ~ \E b \in beats : b.who = c
    /\ Remit(c)
    /\ Go(c, IF stage[c] = "unlocking" THEN "done" ELSE "failed")
    /\ UNCHANGED <<ahead, since, answer, deadline, beats, copies, arrivals>>

Returned == {"done", "canceled", "failed"}

\* A new call, some time after the last.  It has a new token: nothing of the
\* old one may be left.
Recycle(c) ==
    /\ stage[c] \in Returned /\ since[c] < 0
    /\ c \notin Range(waiters) \cup DOMAIN seen \cup DOMAIN readers \cup {writer}
    /\ \A p \in copies : p.who # c
    /\ Go(c, "idle")
    /\ since' = [since EXCEPT ![c] = 0]
    /\ UNCHANGED <<ahead, server, answer, deadline, beats, copies, arrivals>>

---------------------------------------------------------------------------
ServeCopy(p) ==
    /\ Script(p.who, p.at + ahead[p.who])
    /\ copies' = copies \ {p}
    /\ UNCHANGED <<ahead, stage, since, answer, deadline, beats, arrivals>>

\* One unit later.  What no script can tell apart any more stays where it is.
Later(x, floor) == IF x > floor THEN x - 1 ELSE floor

\* Backoffs end on time and requests do not take longer than MaxDelay.
Tick ==
    /\ \A c \in Contenders :
          /\ stage[c] = "asking" => since[c] > -MaxDelay
          /\ stage[c] = "queued" => since[c] > -Backoff
    /\ \A b \in beats : b.at > -MaxDelay
    /\ since' = [c \in Contenders |->
                    CASE stage[c] \in {"asking", "queued"} -> since[c] - 1
                      [] stage[c] \in Returned -> -1
                      [] OTHER -> 0]
    /\ deadline' = [c \in Contenders |-> Later(deadline[c], 0)]
    /\ beats' = {[b EXCEPT !.at = @ - 1] : b \in beats}
    /\ copies' = {[p EXCEPT !.at = @ - 1] : p \in {q \in copies : q.at > -MaxDelay}}
    /\ writerLeft' = Later(writerLeft, 0)
    /\ writer' = IF writerLeft = 1 THEN NoWriter ELSE writer
    /\ readers' = [r \in DOMAIN readers |-> Later(readers[r], -MaxDelay)]
    /\ queueLeft' = Later(queueLeft, 0)
    /\ waiters' = IF queueLeft = 1 THEN <<>> ELSE waiters
    /\ seen' = IF queueLeft = 1 THEN <<>>
               ELSE [m \in DOMAIN seen |-> Later(seen[m], -MaxDelay - WaiterTimeout - 1)]
    /\ UNCHANGED <<ahead, stage, answer, arrivals>>

Next ==
    \/ \E c \in Contenders :
          \/ Attempt(c) \/ Serve(c) \/ Resend(c)
          \/ ReceiveGrant(c) \/ ReceiveBusy(c)
          \/ CancelAttempt(c) \/ FailAttempt(c) \/ Crash(c)
          \/ GiveUp(c) \/ DequeueZRem(c) \/ DequeueHDel(c)
          \/ StartRenew(c) \/ Unlock(c) \/ Release(c) \/ Recycle(c)
    \/ \E b \in beats : ServeRenew(b) \/ ReceiveRenew(b)
    \/ \E p \in copies : ServeCopy(p)
    \/ Tick

Spec == Init /\ [][Next]_vars

(* Time passes, a waiter whose backoff ends tries again, the server executes  *)
(* requests, replies are read, commands return, and holders unlock.           *)
Fairness ==
    /\ WF_vars(Tick)
    /\ \A c \in Contenders :
          /\ WF_vars(stage[c] = "queued" /\ Attempt(c))
          /\ WF_vars(Serve(c)) /\ WF_vars(ReceiveGrant(c)) /\ WF_vars(ReceiveBusy(c))
          /\ WF_vars(DequeueZRem(c)) /\ WF_vars(DequeueHDel(c))
          /\ WF_vars(Unlock(c)) /\ WF_vars(Release(c))

FairSpec == Spec /\ Fairness

---------------------------------------------------------------------------
TypeOK ==
    /\ ahead \in [Contenders -> 0 .. MaxAhead]
    /\ writer \in Writers \cup {NoWriter} /\ writerLeft \in 0 .. TTL
    /\ (writer = NoWriter) = (writerLeft = 0)
    /\ DOMAIN readers \subseteq Readers
    /\ \A r \in DOMAIN readers : readers[r] \in -MaxDelay .. TTL + MaxAhead
    /\ Range(waiters) \subseteq Contenders /\ IsInjective(waiters)
    /\ DOMAIN seen \subseteq Contenders
    /\ queueLeft \in 0 .. WaiterTimeout
    /\ stage \in [Contenders -> Stages]
    /\ since \in [Contenders -> Int] /\ deadline \in [Contenders -> 0 .. TTL]
    /\ answer \in [Contenders -> {"none", "ok", "no"}]

\* The guard exists and its local deadline stands.
InUse(c) == stage[c] = "held" /\ deadline[c] > 0

(* A writer that may use the resource is alone with it: no reader and no      *)
(* other writer may, although writers expire by the server's clock and        *)
(* readers by the clocks of other processes.                                  *)
WriterExcludes ==
    \A c, d \in Contenders : InUse(c) /\ InUse(d) /\ c # d => {c, d} \subseteq Readers

\* Who is let in by this step, on behalf of a caller that still waits.
LetIn(c) ==
    /\ stage[c] = "asking" /\ answer[c] = "none"
    /\ \/ writer # c /\ writer' = c
       \/ c \in DOMAIN readers' \ Unexpired(Stamp(c)) /\ answer'[c] = "ok"

\* The live waiters that arrived before c.
Before(c) == {arrivals[i] : i \in {k \in DOMAIN arrivals : \A j \in 1 .. k : arrivals[j] # c}}

(* Strict FIFO among live contenders: nobody is let in before a writer, and   *)
(* no writer before anybody, that arrived earlier and still waits, whether by *)
(* its first attempt or a later one, and with waiters that crash, give up or  *)
(* are purged around them.                                                    *)
ArrivalOrder ==
    [][\A c \in Contenders : LetIn(c) =>
          \A d \in Before(c) : {c, d} \subseteq Readers]_vars

(* "A waiter that gives up (context canceled or failed Try* call) leaves the  *)
(* queue immediately": once its call has returned it is not in the queue.     *)
GaveUpLeaves ==
    \A c \in Contenders : stage[c] = "canceled" => c \notin Range(waiters)

(* "The queue can never be blocked by a ghost": whoever waits is let in, or   *)
(* gives up, if holders unlock, whatever becomes of the others in the queue.  *)
NoStarvation ==
    \A c \in Contenders : stage[c] = "queued" ~> stage[c] \notin {"asking", "queued"}
============================================================================
