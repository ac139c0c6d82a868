--------------------------- MODULE RWQueueProofs ---------------------------
(* Proofs about the queue of RWLock, under the assumptions of RWLockProofs:    *)
(* its types, who may stand in it, and the order in which it lets them in.     *)
EXTENDS RWLockProofs

---------------------------------------------------------------------------
(* What the scripts do to the queue.                                        *)

\* The types of the queue, and one entry for each waiter.
QueueShape ==
    /\ waiters \in Seq(Contenders) /\ IsInjective(waiters)
    /\ DOMAIN seen \subseteq Contenders /\ seen \in [DOMAIN seen -> Int]
    /\ queueLeft \in 0 .. WaiterTimeout

\* A script moves nobody: it adds c at the end, takes out c, or cuts off a head
\* of silent entries.
QueueKept(c, t) ==
    /\ Range(waiters') \subseteq Range(waiters) \cup {c}
    /\ \A d \in Range(waiters) \ {c} : ~Silent(d, seen, t) => d \in Range(waiters')
    /\ \A a, b \in Range(waiters') : Precedes(waiters, a, b) => Precedes(waiters', a, b)
    /\ DOMAIN seen' \subseteq DOMAIN seen \cup {c}
    /\ \A d \in DOMAIN seen' \ {c} : seen'[d] = seen[d]
    /\ queueLeft' >= queueLeft

\* What becomes of the place of c.
OwnPlace(c, t) ==
    /\ Recovers(c, t) => UNCHANGED <<waiters, seen, queueLeft>>
    /\ ~Recovers(c, t) /\ Grants(c, t) => c \notin Range(waiters')
    /\ ~Grants(c, t) =>
          /\ c \in Range(waiters') /\ queueLeft' = WaiterTimeout
          /\ c \in DOMAIN seen' /\ seen'[c] = t
          /\ c \notin Range(waiters) => \A a \in Range(waiters') \ {c} : Precedes(waiters', a, c)

(* Who joins comes last, who is there already keeps the place. *)
LEMMA JoinedFacts ==
    ASSUME QueueShape, NEW c \in Contenders
    PROVE  LET q == Joined(c)
           IN  /\ q \in Seq(Contenders) /\ IsInjective(q) /\ Range(q) = Range(waiters) \cup {c}
               /\ \A a, b : Precedes(waiters, a, b) => Precedes(q, a, b)
               /\ c \notin Range(waiters) => \A a \in Range(waiters) : Precedes(q, a, c)
<1>1. CASE c \in Range(waiters)
  <2>1. Joined(c) = waiters
    BY <1>1 DEF Joined, QueueShape
  <2> QED
    BY <1>1, <2>1 DEF QueueShape
<1>2. CASE c \notin Range(waiters)
  <2>1. Joined(c) = Append(waiters, c)
    BY <1>2 DEF Joined, QueueShape
  <2> HIDE DEF Joined
  <2> QED
    BY <1>2, <2>1, Appended DEF QueueShape
<1> QED
  BY <1>1, <1>2

(* The queue a script decides on: nobody who is not silent is cut off. *)
LEMMA QueueFacts ==
    ASSUME QueueShape, NEW c \in Contenders, NEW t \in Int
    PROVE  LET q == Queue(c, t)
           IN  /\ q \in Seq(Contenders) /\ IsInjective(q) /\ c \in Range(q) /\ q # <<>>
               /\ Range(q) \subseteq Range(waiters) \cup {c}
               /\ \A d \in Range(waiters) \ {c} : ~Silent(d, seen, t) => d \in Range(q)
               /\ \A a, b : Precedes(waiters, a, b) /\ a \in Range(q) => Precedes(q, a, b)
               /\ c \notin Range(waiters) => \A a \in Range(q) \ {c} : Precedes(q, a, c)
<1> USE RWAssumption
<1> DEFINE j == Joined(c)
           alive == {i \in DOMAIN j : ~Silent(j[i], Touched(c, t), t)}
           m == Min(alive)
           q == SubSeq(j, m, Len(j))
<1>1. /\ j \in Seq(Contenders) /\ IsInjective(j) /\ Range(j) = Range(waiters) \cup {c}
      /\ \A a, b : Precedes(waiters, a, b) => Precedes(j, a, b)
      /\ c \notin Range(waiters) => \A a \in Range(waiters) : Precedes(j, a, c)
  BY JoinedFacts
<1>2. Queue(c, t) = q
  BY DEF Queue
<1> HIDE DEF j
<1>3. DOMAIN j = 1 .. Len(j) /\ Len(j) \in Nat
  BY <1>1, Elements
<1>4. ~Silent(c, Touched(c, t), t)
  BY DEF Silent, Touched, WaiterTimeout
<1>5. \A d \in Range(waiters) \ {c} : Silent(d, Touched(c, t), t) => Silent(d, seen, t)
  BY DEF Silent, Touched
<1>6. \A d \in Range(j) : ~Silent(d, Touched(c, t), t) => \E i \in alive : j[i] = d
  BY DEF Range
<1>7. alive \in SUBSET Nat /\ alive # {} /\ alive \subseteq DOMAIN j
  BY <1>1, <1>3, <1>4, <1>6
<1>8. m \in alive /\ \A i \in alive : m <= i
  BY <1>7, MinIsLeast
<1>9. m \in 1 .. Len(j)
  BY <1>3, <1>7, <1>8
<1> HIDE DEF m
<1>10. /\ q \in Seq(Contenders) /\ IsInjective(q) /\ q # <<>>
       /\ Range(q) = {j[i] : i \in m .. Len(j)}
       /\ \A a, b : Precedes(j, a, b) /\ a \in Range(q) => Precedes(q, a, b)
  BY <1>1, <1>9, Suffix
<1> HIDE DEF q
<1>11. \A i \in alive : i \in m .. Len(j)
  BY <1>3, <1>7, <1>8, <1>9
<1> HIDE DEF alive
<1>12. \A d \in Range(j) : ~Silent(d, Touched(c, t), t) => d \in Range(q)
  BY <1>6, <1>10, <1>11
<1>13. Range(q) \subseteq Range(j)
  <2>1. m .. Len(j) \subseteq DOMAIN j
    BY <1>3, <1>9
  <2> QED
    BY <1>10, <2>1 DEF Range
<1>14. /\ c \in Range(q)
       /\ \A d \in Range(waiters) \ {c} : ~Silent(d, seen, t) => d \in Range(q)
  BY <1>1, <1>4, <1>5, <1>12
<1>15. c \notin Range(waiters) => \A a \in Range(q) \ {c} : Precedes(q, a, c)
  BY <1>1, <1>10, <1>13
<1> QED
  BY <1>1, <1>2, <1>10, <1>13, <1>14, <1>15

(* The timestamps a script leaves. *)
LEMMA StampsFacts ==
    ASSUME QueueShape, NEW c \in Contenders, NEW t \in Int
    PROVE  LET h == Stamps(c, t)
           IN  /\ c \in DOMAIN h /\ DOMAIN h \subseteq DOMAIN seen \cup {c}
               /\ h \in [DOMAIN h -> Int] /\ h[c] = t
               /\ \A d \in DOMAIN h \ {c} : h[d] = seen[d]
<1>1. c \in Range(Queue(c, t))
  BY QueueFacts
<1> DEFINE D == (DOMAIN seen \cup {c}) \ (Range(Joined(c)) \ Range(Queue(c, t)))
<1>2. DOMAIN Touched(c, t) = DOMAIN seen \cup {c}
  BY DEF Touched
<1>3. Stamps(c, t) = [m \in D |-> Touched(c, t)[m]]
  BY <1>2 DEF Stamps, Restrict
<1>4. c \in D /\ D \subseteq DOMAIN seen \cup {c}
  BY <1>1
<1> HIDE DEF D
<1>5. \A m \in D : Touched(c, t)[m] = IF m = c THEN t ELSE seen[m]
  BY <1>4 DEF Touched
<1>6. \A m \in D : Touched(c, t)[m] \in Int
  BY <1>4, <1>5 DEF QueueShape
<1> QED
  BY <1>3, <1>4, <1>5, <1>6

(* The script of c, executed with the clock reading t. *)
LEMMA ScriptQueue ==
    ASSUME QueueShape, NEW c \in Contenders, NEW t \in Int, Script(c, t)
    PROVE  QueueShape' /\ QueueKept(c, t) /\ OwnPlace(c, t)
<1> USE RWAssumption
<1> DEFINE q == Queue(c, t)
           h == Stamps(c, t)
           r == Without(q, c)
           g == Restrict(h, DOMAIN h \ {c})
<1>1. /\ q \in Seq(Contenders) /\ IsInjective(q) /\ c \in Range(q)
      /\ Range(q) \subseteq Range(waiters) \cup {c}
      /\ \A d \in Range(waiters) \ {c} : ~Silent(d, seen, t) => d \in Range(q)
      /\ \A a, b : Precedes(waiters, a, b) /\ a \in Range(q) => Precedes(q, a, b)
      /\ c \notin Range(waiters) => \A a \in Range(q) \ {c} : Precedes(q, a, c)
  BY QueueFacts, Zenon
<1>2. /\ c \in DOMAIN h /\ DOMAIN h \subseteq DOMAIN seen \cup {c} /\ h \in [DOMAIN h -> Int]
      /\ h[c] = t /\ \A d \in DOMAIN h \ {c} : h[d] = seen[d]
  BY StampsFacts
<1>3. WaiterTimeout \in 0 .. WaiterTimeout /\ queueLeft <= WaiterTimeout /\ queueLeft >= queueLeft
  BY DEF WaiterTimeout, QueueShape
<1>4. /\ Grants(c, t) <=> Recovers(c, t) \/ Admits(c, t)
      /\ Recovers(c, t) => UNCHANGED <<waiters, seen, queueLeft>>
      /\ ~Recovers(c, t) /\ Admits(c, t) => waiters' = r /\ seen' = g /\ queueLeft' = WaiterTimeout
      /\ ~Recovers(c, t) /\ ~Admits(c, t) => waiters' = q /\ seen' = h /\ queueLeft' = WaiterTimeout
  BY Zenon DEF Grants, Script, Grant, Refuse, server
<1> HIDE DEF q, h
<1>5. /\ r \in Seq(Contenders) /\ IsInjective(r) /\ Range(r) = Range(q) \ {c}
      /\ \A a, b : Precedes(r, a, b) <=> Precedes(q, a, b) /\ a # c /\ b # c
  BY <1>1, Removed
<1>6. /\ DOMAIN g = DOMAIN h \ {c} /\ g \in [DOMAIN g -> Int]
      /\ \A d \in DOMAIN g : g[d] = seen[d]
  BY <1>2 DEF Restrict
<1> HIDE DEF r, g
<1>7. CASE Recovers(c, t)
  BY <1>3, <1>4, <1>7 DEF QueueShape, QueueKept, OwnPlace
<1>8. CASE ~Recovers(c, t) /\ Admits(c, t)
  <2>1. QueueShape'
    BY <1>2, <1>3, <1>4, <1>5, <1>6, <1>8, Zenon DEF QueueShape, WaiterTimeout
  <2>2. QueueKept(c, t)
    BY <1>1, <1>2, <1>3, <1>4, <1>5, <1>6, <1>8 DEF QueueKept
  <2> QED
    BY <1>4, <1>5, <1>8, <2>1, <2>2 DEF OwnPlace
<1>9. CASE ~Recovers(c, t) /\ ~Admits(c, t)
  <2>1. QueueShape'
    BY <1>1, <1>2, <1>3, <1>4, <1>9, Zenon DEF QueueShape, WaiterTimeout
  <2>2. QueueKept(c, t)
    BY <1>1, <1>2, <1>3, <1>4, <1>9 DEF QueueKept
  <2> QED
    BY <1>1, <1>2, <1>4, <1>9, <2>1, <2>2, Zenon DEF OwnPlace
<1> QED
  BY <1>7, <1>8, <1>9

(* Nobody is admitted past a writer, and no writer past anybody, that came     *)
(* before it and is not silent.                                                *)
LEMMA AdmittedInTurn ==
    ASSUME QueueShape, NEW c \in Contenders, NEW t \in Int, Admits(c, t),
           NEW d \in Range(waiters) \ {c}, ~Silent(d, seen, t),
           Precedes(waiters, d, c) \/ c \notin Range(waiters)
    PROVE  {c, d} \subseteq Readers
<1> USE RWAssumption DEF Contenders
<1> DEFINE q == Queue(c, t)
<1>1. /\ q \in Seq(Contenders) /\ IsInjective(q) /\ q # <<>> /\ d \in Range(q) /\ Precedes(q, d, c)
  BY QueueFacts
<1> HIDE DEF q
<1>2. DOMAIN q = 1 .. Len(q) /\ Len(q) \in Nat
  BY <1>1, Elements
<1>3. PICK i \in DOMAIN q, k \in DOMAIN q : i < k /\ q[i] = d /\ q[k] = c
  BY <1>1 DEF Precedes
<1>4. \A n \in DOMAIN q : q[n] = c => n = k
  BY <1>1, <1>3 DEF IsInjective
<1>5. c \notin Writers
  <2>1. SUFFICES ASSUME c \in Writers PROVE FALSE
    OBVIOUS
  <2>2. Head(q) = c
    BY <2>1 DEF Admits, MayWrite, q
  <2>3. Head(q) = q[1] /\ 1 \in DOMAIN q
    BY <1>1, <1>2, <1>3
  <2> QED
    BY <1>2, <1>3, <1>4, <2>2, <2>3
<1>6. d \notin Writers
  <2>1. \A n \in 1 .. (CHOOSE p \in DOMAIN q : q[p] = c) - 1 : q[n] \notin Writers
    BY <1>5 DEF Admits, MayRead, q
  <2>2. (CHOOSE p \in DOMAIN q : q[p] = c) = k
    BY <1>3, <1>4
  <2>3. i \in 1 .. k - 1
    BY <1>2, <1>3
  <2> QED
    BY <1>3, <2>1, <2>2, <2>3
<1>7. d \in Contenders
  BY <1>1, <1>2, <1>3, Elements
<1> QED
  BY <1>5, <1>6, <1>7

---------------------------------------------------------------------------
(* Types, and waiters that give up.                                         *)

(* The clock readings of requests. *)
LEMMA ReadingTypes ==
    ASSUME SafeInv
    PROVE  /\ \A c \in Contenders : stage[c] = "asking" => Stamp(c) \in -MaxDelay .. MaxAhead
           /\ \A p \in copies : p.who \in Contenders /\ p.at + ahead[p.who] \in -MaxDelay .. MaxAhead
  BY RWAssumption DEF SafeInv, Shape, Copy, Stamp

\* The steps that leave the queue alone.
QueueStands == UNCHANGED <<waiters, seen, queueLeft>>

(* Only the scripts, the commands of Dequeue and time touch the queue. *)
LEMMA QueueSteps ==
    ASSUME [Next]_vars
    PROVE  \/ \E c \in Contenders : Serve(c) \/ DequeueZRem(c) \/ DequeueHDel(c)
           \/ \E p \in copies : ServeCopy(p)
           \/ Tick
           \/ QueueStands
<1>1. ASSUME NEW c \in Contenders,
             \/ Attempt(c) \/ Resend(c) \/ ReceiveGrant(c) \/ ReceiveBusy(c)
             \/ Crash(c) \/ GiveUp(c) \/ StartRenew(c) \/ Unlock(c) \/ Recycle(c)
      PROVE  QueueStands
  BY <1>1, Zenon DEF QueueStands, server, Attempt, Resend, ReceiveGrant, ReceiveBusy, Crash, GiveUp,
              StartRenew, Unlock, Recycle
<1>2. ASSUME NEW c \in Contenders, CancelAttempt(c) \/ FailAttempt(c) \/ Release(c)
      PROVE  QueueStands
  BY <1>2 DEF QueueStands, server, CancelAttempt, FailAttempt, Abort, Release, Remit
<1>3. ASSUME NEW b \in beats, ServeRenew(b) \/ ReceiveRenew(b)
      PROVE  QueueStands
  BY <1>3 DEF QueueStands, server, ServeRenew, ReceiveRenew
<1>4. CASE UNCHANGED vars
  BY <1>4 DEF QueueStands, vars, server
<1> QED
  BY <1>1, <1>2, <1>3, <1>4, Zenon DEF Next

(* Every step keeps the types of the queue. *)
LEMMA QueueShapeStep ==
    ASSUME SafeInv, QueueShape, [Next]_vars
    PROVE  QueueShape'
<1> USE RWAssumption
<1>1. ASSUME NEW c \in Contenders, Serve(c)
      PROVE  QueueShape'
  <2>1. Script(c, Stamp(c)) /\ Stamp(c) \in Int
    BY <1>1, ReadingTypes DEF Serve
  <2> QED
    BY <2>1, ScriptQueue
<1>2. ASSUME NEW p \in copies, ServeCopy(p)
      PROVE  QueueShape'
  <2>1. Script(p.who, p.at + ahead[p.who]) /\ p.who \in Contenders /\ p.at + ahead[p.who] \in Int
    BY <1>2, ReadingTypes DEF ServeCopy
  <2> QED
    BY <2>1, ScriptQueue
<1>3. ASSUME NEW c \in Contenders, DequeueZRem(c)
      PROVE  QueueShape'
  <2>1. waiters' \in {waiters, Without(waiters, c)} /\ UNCHANGED <<seen, queueLeft>>
    BY <1>3 DEF DequeueZRem
  <2>2. Without(waiters, c) \in Seq(Contenders) /\ IsInjective(Without(waiters, c))
    BY Removed DEF QueueShape
  <2> QED
    BY <2>1, <2>2 DEF QueueShape, WaiterTimeout
<1>4. ASSUME NEW c \in Contenders, DequeueHDel(c)
      PROVE  QueueShape'
  <2>1. seen' \in {seen, Restrict(seen, DOMAIN seen \ {c})} /\ UNCHANGED <<waiters, queueLeft>>
    BY <1>4 DEF DequeueHDel
  <2> QED
    BY <2>1 DEF QueueShape, WaiterTimeout, Restrict
<1>5. CASE Tick
  <2>1. /\ queueLeft' = Later(queueLeft, 0) /\ waiters' \in {waiters, <<>>}
        /\ seen' \in {<<>>, [m \in DOMAIN seen |-> Later(seen[m], -MaxDelay - WaiterTimeout - 1)]}
    BY <1>5 DEF Tick
  <2>2. <<>> \in Seq(Contenders) /\ IsInjective(<<>>) /\ DOMAIN <<>> = {} /\ <<>> \in [{} -> Int]
    BY DEF IsInjective
  <2>3. waiters' \in Seq(Contenders) /\ IsInjective(waiters')
    BY <2>1, <2>2, Zenon DEF QueueShape
  <2>4. queueLeft' \in 0 .. WaiterTimeout
    BY <2>1 DEF QueueShape, Later, WaiterTimeout
  <2>5. DOMAIN seen' \subseteq Contenders /\ seen' \in [DOMAIN seen' -> Int]
    <3>1. \A m \in DOMAIN seen : Later(seen[m], -MaxDelay - WaiterTimeout - 1) \in Int
      BY DEF QueueShape, Later, WaiterTimeout
    <3> QED
      BY <2>1, <2>2, <3>1, Zenon DEF QueueShape
  <2> QED
    BY <2>3, <2>4, <2>5, Zenon DEF QueueShape, WaiterTimeout
<1>6. CASE QueueStands
  BY <1>6 DEF QueueStands, QueueShape, WaiterTimeout
<1> QED
  BY <1>1, <1>2, <1>3, <1>4, <1>5, <1>6, QueueSteps, Zenon

\* A call that has given up is out of the queue from its first command on, and
\* no attempt of it is left to be executed.
GaveUpInv ==
    /\ \A c \in Contenders : stage[c] \in {"hdel", "canceled"} => c \notin Range(waiters)
    /\ \A p \in copies : stage[p.who] # "canceled"

(* Where the stages "hdel" and "canceled" and new copies come from. *)
LEMMA GaveUpSteps ==
    ASSUME SafeInv, [Next]_vars, {"cancel", "command"} \cap Faults = {}
    PROVE  /\ \A c \in Contenders : stage'[c] = "hdel" =>
                 stage[c] = "hdel" \/ DequeueZRem(c)
           /\ \A c \in Contenders : stage'[c] = "canceled" =>
                 stage[c] \in {"canceled", "hdel"}
           /\ \A p \in copies' : \/ \E o \in copies : o.who = p.who
                                 \/ stage'[p.who] = "failed"
<1> USE DEF SafeInv, Shape
<1>1. ASSUME NEW c \in Contenders, NEW st \in Stages, Go(c, st)
      PROVE  /\ \A d \in Contenders : d # c => stage'[d] = stage[d]
             /\ stage'[c] = st
  BY <1>1 DEF Go
<1>2. /\ "asking" \in Stages /\ "queued" \in Stages /\ "held" \in Stages /\ "discarding" \in Stages
      /\ "zrem" \in Stages /\ "hdel" \in Stages /\ "canceled" \in Stages /\ "failed" \in Stages
      /\ "done" \in Stages /\ "idle" \in Stages /\ "unlocking" \in Stages
  BY Zenon DEF Stages
<1> DEFINE Goal == /\ \A c \in Contenders : stage'[c] = "hdel" =>
                         stage[c] = "hdel" \/ DequeueZRem(c)
                   /\ \A c \in Contenders : stage'[c] = "canceled" =>
                         stage[c] \in {"canceled", "hdel"}
                   /\ \A p \in copies' : \/ \E o \in copies : o.who = p.who
                                         \/ stage'[p.who] = "failed"
<1>3. ASSUME NEW c \in Contenders, Attempt(c) \/ ReceiveBusy(c) \/ GiveUp(c) \/ Recycle(c)
      PROVE  Goal
  BY <1>1, <1>2, <1>3, Zenon DEF Attempt, ReceiveBusy, GiveUp, Recycle
<1>4. ASSUME NEW c \in Contenders, ReceiveGrant(c) \/ Crash(c) \/ Unlock(c) \/ Release(c)
      PROVE  Goal
  BY <1>1, <1>2, <1>4, Zenon DEF ReceiveGrant, Crash, Unlock, Release
<1>5. ASSUME NEW c \in Contenders, DequeueZRem(c) \/ DequeueHDel(c)
      PROVE  Goal
  <2>1. CASE DequeueZRem(c)
    BY <1>1, <1>2, <2>1, Zenon DEF DequeueZRem
  <2>2. CASE DequeueHDel(c)
    BY <1>1, <1>2, <2>2, Zenon DEF DequeueHDel
  <2> QED
    BY <1>5, <2>1, <2>2, Zenon
<1>6. ASSUME NEW c \in Contenders, Serve(c) \/ Resend(c) \/ StartRenew(c)
      PROVE  Goal
  BY <1>6 DEF Serve, Resend, StartRenew
<1>7. ASSUME NEW c \in Contenders, CancelAttempt(c) \/ FailAttempt(c)
      PROVE  Goal
  <2>1. FailAttempt(c)
    BY <1>7 DEF CancelAttempt
  <2>2. /\ Go(c, "failed")
        /\ copies' \subseteq copies \cup {[who |-> c, at |-> since[c]]}
    BY <2>1 DEF FailAttempt, Abort
  <2> QED
    BY <1>1, <1>2, <2>2
<1>8. ASSUME NEW b \in beats, ServeRenew(b) \/ ReceiveRenew(b)
      PROVE  Goal
  BY <1>8 DEF ServeRenew, ReceiveRenew
<1>9. ASSUME NEW p \in copies, ServeCopy(p)
      PROVE  Goal
  BY <1>9 DEF ServeCopy
<1>10. ASSUME Tick PROVE Goal
  <2>1. /\ stage' = stage
        /\ copies' = {[p EXCEPT !.at = @ - 1] : p \in {q \in copies : q.at > -MaxDelay}}
    BY <1>10 DEF Tick
  <2>2. \A p \in copies : [p EXCEPT !.at = @ - 1].who = p.who
    BY DEF Copy
  <2> QED
    BY <2>1, <2>2, Zenon
<1>11. ASSUME UNCHANGED vars PROVE Goal
  BY <1>11 DEF vars, client
<1> HIDE DEF Goal
<1>12. Goal
  BY <1>3, <1>4, <1>5, <1>6, <1>7, <1>8, <1>9, <1>10, <1>11 DEF Next
<1> QED
  BY <1>12 DEF Goal

(* Every step keeps given-up calls out of the queue. *)
LEMMA GaveUpStep ==
    ASSUME SafeInv, QueueShape, GaveUpInv, [Next]_vars, {"cancel", "command"} \cap Faults = {}
    PROVE  GaveUpInv'
<1> USE RWAssumption
<1>1. \A p \in copies : p.who \in Contenders /\ stage[p.who] = "failed"
  BY DEF SafeInv, Shape, Copy, CopyInv, GaveUpInv
<1>3. \A p \in copies' : stage'[p.who] # "canceled"
  BY <1>1, GaveUpSteps
<1>4. ASSUME NEW c \in Contenders, stage'[c] \in {"hdel", "canceled"}
      PROVE  c \notin Range(waiters')
  <2>1. CASE DequeueZRem(c)
    <3>1. waiters' = Without(waiters, c)
      BY <2>1 DEF DequeueZRem
    <3> QED
      BY <3>1, Removed DEF QueueShape
  <2>2. CASE ~DequeueZRem(c)
    <3>1. stage[c] \in {"hdel", "canceled"} /\ c \notin Range(waiters)
      BY <1>4, <2>2, GaveUpSteps, Zenon DEF GaveUpInv
    <3>2. ASSUME NEW d \in Contenders, Serve(d) PROVE c \notin Range(waiters')
      <4>1. Script(d, Stamp(d)) /\ Stamp(d) \in Int /\ d # c
        BY <3>1, <3>2, ReadingTypes DEF Serve
      <4> QED
        BY <3>1, <4>1, ScriptQueue DEF QueueKept
    <3>3. ASSUME NEW p \in copies, ServeCopy(p) PROVE c \notin Range(waiters')
      <4>1. /\ Script(p.who, p.at + ahead[p.who]) /\ p.who \in Contenders
            /\ p.at + ahead[p.who] \in Int /\ p.who # c
        BY <1>1, <3>1, <3>3, ReadingTypes DEF ServeCopy
      <4> QED
        BY <3>1, <4>1, ScriptQueue, Zenon DEF QueueKept
    <3>4. ASSUME NEW d \in Contenders, DequeueZRem(d) PROVE c \notin Range(waiters')
      <4>1. waiters' \in {waiters, Without(waiters, d)}
        BY <3>4 DEF DequeueZRem
      <4>2. Range(Without(waiters, d)) = Range(waiters) \ {d}
        BY Removed DEF QueueShape
      <4> QED
        BY <3>1, <4>1, <4>2, Zenon
    <3>5. CASE Tick
      <4>1. waiters' \in {waiters, <<>>} /\ Range(<<>>) = {}
        BY <3>5 DEF Tick, Range
      <4> QED
        BY <3>1, <4>1
    <3>6. ASSUME NEW d \in Contenders, DequeueHDel(d) PROVE c \notin Range(waiters')
      BY <3>1, <3>6 DEF DequeueHDel
    <3>7. CASE QueueStands
      BY <3>1, <3>7 DEF QueueStands
    <3> QED
      BY <3>2, <3>3, <3>4, <3>5, <3>6, <3>7, QueueSteps, Zenon
  <2> QED
    BY <2>1, <2>2
<1> QED
  BY <1>3, <1>4 DEF GaveUpInv

---------------------------------------------------------------------------
(* The order of arrival.  It is kept only while no live waiter can be taken  *)
(* for a crashed one: two requests and a backoff have to fit into the time   *)
(* after which an entry counts as silent, whatever the clocks.               *)

Prompt == 2 * MaxDelay + Backoff + MaxAhead < WaiterTimeout

\* The earliest time at which the last executed attempt of a waiter can have
\* started.
Fresh(d) ==
    since[d] - (IF stage[d] = "queued" THEN MaxDelay
                ELSE IF answer[d] = "no" THEN 0 ELSE MaxDelay + Backoff)

\* Who is counted as a live waiter is in the queue, with a timestamp that is
\* not silent, and the queue does not expire under it.
LiveInv ==
    /\ arrivals \in Seq(Contenders) /\ IsInjective(arrivals)
    /\ \A c \in Contenders : stage[c] = "queued" => since[c] \in -Backoff .. 0
    /\ \A d \in Range(arrivals) :
          /\ stage[d] \in {"asking", "queued"} /\ answer[d] # "ok" /\ d \in Range(waiters)
          /\ queueLeft >= WaiterTimeout + Fresh(d)
          /\ d \in DOMAIN seen => seen[d] >= Fresh(d) + ahead[d]

\* A caller has one place, which it gave up if it has an entry in the lock.
PlaceInv ==
    \A c \in Contenders :
       /\ c \in Range(waiters) /\ stage[c] \in {"idle", "asking", "queued"} => c \in Range(arrivals)
       /\ stage[c] = "asking" /\ Has(c) => c \notin Range(waiters)

OrderInv ==
    /\ LiveInv /\ PlaceInv
    /\ \A a, b \in Contenders : Precedes(arrivals, a, b) => Precedes(waiters, a, b)

(* No live waiter is silent for the script of any request. *)
LEMMA NotSilent ==
    ASSUME SafeInv, QueueShape, OrderInv, Prompt, NEW t \in -MaxDelay .. MaxAhead,
           NEW d \in Range(arrivals)
    PROVE  ~Silent(d, seen, t)
<1> USE RWAssumption
<1>1. d \in Contenders
  BY Elements DEF OrderInv, LiveInv, Range
<1>2. /\ stage[d] = "asking" => since[d] \in -MaxDelay .. 0
      /\ stage[d] = "queued" => since[d] \in -Backoff .. 0
      /\ ahead[d] \in 0 .. MaxAhead /\ stage[d] \in {"asking", "queued"}
  BY <1>1, Zenon DEF SafeInv, Shape, OrderInv, LiveInv
<1>3. Fresh(d) \in Int /\ Fresh(d) >= -2 * MaxDelay - Backoff
  BY <1>2 DEF Fresh
<1>4. d \in DOMAIN seen => seen[d] \in Int /\ seen[d] >= Fresh(d) + ahead[d]
  BY Zenon DEF OrderInv, LiveInv, QueueShape
<1> QED
  BY <1>2, <1>3, <1>4 DEF Silent, Prompt, WaiterTimeout

(* Who precedes somebody is in the sequence, and so is the other. *)
LEMMA PrecedesMembers ==
    ASSUME NEW s, NEW a, NEW b, Precedes(s, a, b)
    PROVE  a \in Range(s) /\ b \in Range(s)
  BY DEF Precedes, Range

(* A script, seen by the waiters other than its own. *)
LEMMA ScriptOrder ==
    ASSUME SafeInv, QueueShape, OrderInv, Prompt, NEW c \in Contenders,
           NEW t \in -MaxDelay .. MaxAhead, Script(c, t), UNCHANGED <<ahead, stage, since>>,
           \A d \in Contenders \ {c} : answer'[d] = answer[d]
    PROVE  /\ \A d \in Range(arrivals) \ {c} :
                 /\ stage'[d] \in {"asking", "queued"} /\ answer'[d] # "ok" /\ d \in Range(waiters')
                 /\ queueLeft' >= WaiterTimeout + Fresh(d)'
                 /\ d \in DOMAIN seen' => seen'[d] >= Fresh(d)' + ahead'[d]
           /\ \A d \in Contenders \ {c} :
                 /\ d \in Range(waiters') /\ stage'[d] \in {"idle", "asking", "queued"} =>
                       d \in Range(arrivals)
                 /\ stage'[d] = "asking" /\ Has(d)' => d \notin Range(waiters')
           /\ \A a, b \in Range(waiters') : Precedes(arrivals, a, b) => Precedes(waiters', a, b)
<1> USE RWAssumption
<1>1. QueueKept(c, t)
  BY ScriptQueue
<1>2. \A d \in Range(arrivals) : d \in Contenders /\ ~Silent(d, seen, t)
  <2>1. \A d \in Range(arrivals) : d \in Contenders
    BY Elements DEF OrderInv, LiveInv, Range
  <2> QED
    BY <2>1, NotSilent, Zenon
<1>3. \A d \in Contenders \ {c} : Fresh(d)' = Fresh(d)
  BY DEF Fresh
<1>4. \A d \in Contenders \ {c} : Has(d)' => Has(d)
  BY OthersCovered, Zenon
<1>5. \A d \in Range(arrivals) \ {c} :
         /\ stage[d] \in {"asking", "queued"} /\ answer[d] # "ok" /\ d \in Range(waiters)
         /\ queueLeft >= WaiterTimeout + Fresh(d)
         /\ d \in DOMAIN seen => seen[d] >= Fresh(d) + ahead[d]
  BY Zenon DEF OrderInv, LiveInv
<1>6. \A d \in Range(arrivals) \ {c} :
         /\ stage'[d] \in {"asking", "queued"} /\ answer'[d] # "ok" /\ d \in Range(waiters')
         /\ d \in DOMAIN seen' => seen'[d] >= Fresh(d)' + ahead'[d]
  BY <1>1, <1>2, <1>3, <1>5, Zenon DEF QueueKept
<1>7. ASSUME NEW d \in Range(arrivals) \ {c}
      PROVE  queueLeft' >= WaiterTimeout + Fresh(d)'
  <2>1. queueLeft' \in Int /\ queueLeft \in Int
    BY ScriptQueue DEF QueueShape
  <2>2. WaiterTimeout + Fresh(d) \in Int
    BY <1>2 DEF SafeInv, Shape, Fresh, WaiterTimeout
  <2> QED
    BY <1>1, <1>2, <1>3, <1>5, <2>1, <2>2 DEF QueueKept
<1>8. \A a, b \in Range(waiters') : Precedes(arrivals, a, b) => Precedes(waiters', a, b)
  BY <1>1, <1>2, PrecedesMembers, Zenon DEF QueueKept, OrderInv
<1>9. \A d \in Contenders \ {c} :
         /\ d \in Range(waiters') /\ stage'[d] \in {"idle", "asking", "queued"} => d \in Range(arrivals)
         /\ stage'[d] = "asking" /\ Has(d)' => d \notin Range(waiters')
  BY <1>1, <1>4 DEF QueueKept, OrderInv, PlaceInv
<1> QED
  BY <1>6, <1>7, <1>8, <1>9, Zenon

(* Serve keeps the order of arrival. *)
LEMMA ServeOrder ==
    ASSUME SafeInv, QueueShape, OrderInv, Prompt, NEW c \in Contenders, Serve(c)
    PROVE  OrderInv'
<1> USE RWAssumption
<1> DEFINE t == Stamp(c)
<1>1. /\ stage[c] = "asking" /\ answer[c] = "none" /\ Script(c, t)
      /\ answer' = [answer EXCEPT ![c] = IF Grants(c, t) THEN "ok" ELSE "no"]
      /\ UNCHANGED <<ahead, stage, since>>
  BY Zenon DEF Serve
<1>2. t \in -MaxDelay .. MaxAhead /\ t = since[c] + ahead[c] /\ since[c] \in -MaxDelay .. 0
  BY <1>1, ReadingTypes, Zenon DEF Stamp, SafeInv, Shape
<1>3. /\ Grants(c, t) => arrivals' = Without(arrivals, c)
      /\ ~Grants(c, t) => arrivals' = IF c \in Range(arrivals) THEN arrivals ELSE Append(arrivals, c)
  BY DEF Serve
<1> HIDE DEF t
<1>4. SafeInv'
  BY ServeSafe
<1>5. /\ answer'[c] = IF Grants(c, t) THEN "ok" ELSE "no"
      /\ \A d \in Contenders \ {c} : answer'[d] = answer[d]
  BY <1>1, Zenon DEF SafeInv, Shape
<1>6. /\ \A d \in Range(arrivals) \ {c} :
            /\ stage'[d] \in {"asking", "queued"} /\ answer'[d] # "ok" /\ d \in Range(waiters')
            /\ queueLeft' >= WaiterTimeout + Fresh(d)'
            /\ d \in DOMAIN seen' => seen'[d] >= Fresh(d)' + ahead'[d]
      /\ \A d \in Contenders \ {c} :
            /\ d \in Range(waiters') /\ stage'[d] \in {"idle", "asking", "queued"} =>
                  d \in Range(arrivals)
            /\ stage'[d] = "asking" /\ Has(d)' => d \notin Range(waiters')
      /\ \A a, b \in Range(waiters') : Precedes(arrivals, a, b) => Precedes(waiters', a, b)
  BY <1>1, <1>2, <1>5, ScriptOrder, Zenon
<1>7. OwnPlace(c, t)
  BY <1>1, <1>2, ScriptQueue
<1>8. arrivals \in Seq(Contenders) /\ IsInjective(arrivals)
  BY Zenon DEF OrderInv, LiveInv
<1>9. \A d \in Contenders : stage'[d] = "queued" => since'[d] \in -Backoff .. 0
  BY <1>1 DEF OrderInv, LiveInv
<1>10. CASE Grants(c, t)
  <2>1. /\ arrivals' \in Seq(Contenders) /\ IsInjective(arrivals')
        /\ Range(arrivals') = Range(arrivals) \ {c}
        /\ \A a, b : Precedes(arrivals', a, b) <=> Precedes(arrivals, a, b) /\ a # c /\ b # c
    BY <1>3, <1>8, <1>10, Removed
  <2>2. LiveInv'
    BY <1>6, <1>9, <2>1, Zenon DEF LiveInv, WaiterTimeout
  <2>3. c \notin Range(waiters')
    <3>1. CASE Recovers(c, t)
      <4>1. Has(c)
        BY <1>1, <1>2, <3>1, ShapeLock, ScriptOutcome, Zenon DEF SafeInv, OwnEntry
      <4> QED
        BY <1>1, <1>7, <3>1, <4>1, Zenon DEF OwnPlace, OrderInv, PlaceInv
    <3>2. CASE ~Recovers(c, t)
      BY <1>7, <1>10, <3>2, Zenon DEF OwnPlace
    <3> QED
      BY <3>1, <3>2, Zenon
  <2>4. PlaceInv'
    BY <1>6, <2>1, <2>3, Zenon DEF PlaceInv
  <2>5. ASSUME NEW a \in Contenders, NEW b \in Contenders, Precedes(arrivals', a, b)
        PROVE  Precedes(waiters', a, b)
    <3>1. a \in Range(arrivals) \ {c} /\ b \in Range(arrivals) \ {c} /\ Precedes(arrivals, a, b)
      BY <2>1, <2>5, PrecedesMembers, Zenon
    <3> QED
      BY <1>6, <3>1, Zenon
  <2>6. \A a, b \in Contenders : Precedes(arrivals, a, b)' => Precedes(waiters, a, b)'
    BY <2>5, Zenon DEF Precedes
  <2> QED
    BY <2>2, <2>4, <2>6, Zenon DEF OrderInv
<1>11. CASE ~Grants(c, t)
  <2>1. /\ c \in Range(waiters') /\ queueLeft' = WaiterTimeout /\ c \in DOMAIN seen' /\ seen'[c] = t
        /\ c \notin Range(waiters) => \A a \in Range(waiters') \ {c} : Precedes(waiters', a, c)
    BY <1>7, <1>11, Zenon DEF OwnPlace
  <2>2. answer'[c] = "no" /\ ~Has(c)'
    BY <1>4, <1>5, <1>11, Zenon DEF SafeInv, AskInv
  <2>3. Fresh(c)' = since[c]
    BY <1>1, <1>2, <2>2 DEF Fresh
  <2>4. /\ arrivals' \in Seq(Contenders) /\ IsInjective(arrivals')
        /\ Range(arrivals') = Range(arrivals) \cup {c}
        /\ \A a, b : Precedes(arrivals', a, b) =>
              Precedes(arrivals, a, b) \/ (c \notin Range(arrivals) /\ a \in Range(arrivals) /\ b = c)
    <3>1. CASE c \in Range(arrivals)
      <4>1. arrivals' = arrivals
        BY <1>3, <1>8, <1>11, <3>1, Zenon
      <4> QED
        BY <1>8, <3>1, <4>1, Zenon
    <3>2. CASE c \notin Range(arrivals)
      <4>1. arrivals' = Append(arrivals, c)
        BY <1>3, <1>8, <1>11, <3>2, Zenon
      <4> QED
        BY <1>8, <3>2, <4>1, Appended, Zenon
    <3> QED
      BY <3>1, <3>2
  <2>5. /\ stage'[c] \in {"asking", "queued"} /\ answer'[c] # "ok"
        /\ queueLeft' >= WaiterTimeout + Fresh(c)' /\ seen'[c] >= Fresh(c)' + ahead'[c]
    BY <1>1, <1>2, <2>1, <2>2, <2>3 DEF WaiterTimeout, SafeInv, Shape
  <2>6. LiveInv'
    BY <1>6, <1>9, <2>1, <2>4, <2>5, Zenon DEF LiveInv, WaiterTimeout
  <2>7. PlaceInv'
    BY <1>6, <2>2, <2>4, Zenon DEF PlaceInv
  <2>8. ASSUME NEW a \in Contenders, NEW b \in Contenders, Precedes(arrivals', a, b)
        PROVE  Precedes(waiters', a, b)
    <3>1. ASSUME Precedes(arrivals, a, b) PROVE Precedes(waiters', a, b)
      <4>1. a \in Range(waiters') /\ b \in Range(waiters')
        BY <1>6, <2>1, <3>1, PrecedesMembers, Zenon
      <4> QED
        BY <1>6, <3>1, <4>1, Zenon
    <3>2. ASSUME c \notin Range(arrivals), a \in Range(arrivals), b = c
          PROVE  Precedes(waiters', a, b)
      <4>1. c \notin Range(waiters) /\ a \in Range(waiters') \ {c}
        BY <1>1, <1>6, <3>2, Zenon DEF OrderInv, PlaceInv
      <4> QED
        BY <2>1, <3>2, <4>1, Zenon
    <3> QED
      BY <2>4, <2>8, <3>1, <3>2, Zenon
  <2>9. \A a, b \in Contenders : Precedes(arrivals, a, b)' => Precedes(waiters, a, b)'
    BY <2>8 DEF Precedes
  <2> QED
    BY <2>6, <2>7, <2>9 DEF OrderInv
<1> QED
  BY <1>10, <1>11, Zenon

(* ServeCopy keeps it: nobody waits for a copy, so none is a live waiter. *)
LEMMA ServeCopyOrder ==
    ASSUME SafeInv, QueueShape, OrderInv, Prompt, NEW p \in copies, ServeCopy(p)
    PROVE  OrderInv'
<1> USE RWAssumption
<1> DEFINE c == p.who
           t == p.at + ahead[p.who]
<1>1. Script(c, t) /\ UNCHANGED <<ahead, stage, since, answer, arrivals>>
  BY DEF ServeCopy
<1>2. c \in Contenders /\ t \in -MaxDelay .. MaxAhead /\ stage[c] \in {"failed", "canceled"}
  BY ReadingTypes, Zenon DEF SafeInv, CopyInv
<1> HIDE DEF c, t
<1>3. c \notin Range(arrivals)
  BY <1>2, Zenon DEF OrderInv, LiveInv
<1>4. /\ \A d \in Range(arrivals) \ {c} :
            /\ stage'[d] \in {"asking", "queued"} /\ answer'[d] # "ok" /\ d \in Range(waiters')
            /\ queueLeft' >= WaiterTimeout + Fresh(d)'
            /\ d \in DOMAIN seen' => seen'[d] >= Fresh(d)' + ahead'[d]
      /\ \A d \in Contenders \ {c} :
            /\ d \in Range(waiters') /\ stage'[d] \in {"idle", "asking", "queued"} =>
                  d \in Range(arrivals)
            /\ stage'[d] = "asking" /\ Has(d)' => d \notin Range(waiters')
      /\ \A a, b \in Range(waiters') : Precedes(arrivals, a, b) => Precedes(waiters', a, b)
  BY <1>1, <1>2, ScriptOrder, Zenon
<1>5. LiveInv'
  BY <1>1, <1>3, <1>4, Zenon DEF OrderInv, LiveInv, WaiterTimeout
<1>6. PlaceInv'
  BY <1>1, <1>2, <1>4, Zenon DEF PlaceInv
<1>7. ASSUME NEW a \in Contenders, NEW b \in Contenders, Precedes(arrivals, a, b)
      PROVE  Precedes(waiters', a, b)
  BY <1>3, <1>4, <1>7, PrecedesMembers, Zenon
<1>8. \A a, b \in Contenders : Precedes(arrivals, a, b)' => Precedes(waiters, a, b)'
  BY <1>1, <1>7 DEF Precedes
<1> QED
  BY <1>5, <1>6, <1>8 DEF OrderInv

\* A step of c after which it is no waiter: the queue loses at most its entries.
Leaves(c) ==
    /\ arrivals' \in {arrivals, Without(arrivals, c)} /\ c \notin Range(arrivals')
    /\ waiters' \in {waiters, Without(waiters, c)} /\ queueLeft' = queueLeft
    /\ DOMAIN seen' \subseteq DOMAIN seen /\ \A d \in DOMAIN seen' : seen'[d] = seen[d]
    /\ ahead' = ahead /\ \A d \in Contenders : Has(d)' => Has(d)
    /\ \A d \in Contenders \ {c} :
          stage'[d] = stage[d] /\ since'[d] = since[d] /\ answer'[d] = answer[d]
    /\ stage'[c] \notin {"asking", "queued"}
    /\ stage'[c] = "idle" => c \notin Range(waiters)

(* Such a step keeps the order of arrival. *)
LEMMA LeavesOrder ==
    ASSUME QueueShape, OrderInv, NEW c \in Contenders, Leaves(c)
    PROVE  OrderInv'
<1>1. /\ Without(arrivals, c) \in Seq(Contenders) /\ IsInjective(Without(arrivals, c))
      /\ Range(Without(arrivals, c)) = Range(arrivals) \ {c}
      /\ \A a, b : Precedes(Without(arrivals, c), a, b) =>
            Precedes(arrivals, a, b) /\ a # c /\ b # c
  BY Removed DEF OrderInv, LiveInv
<1>2. /\ Range(Without(waiters, c)) = Range(waiters) \ {c}
      /\ \A a, b : Precedes(waiters, a, b) /\ a # c /\ b # c => Precedes(Without(waiters, c), a, b)
  BY Removed, Zenon DEF QueueShape
<1>3. /\ arrivals' \in Seq(Contenders) /\ IsInjective(arrivals')
      /\ Range(arrivals') = Range(arrivals) \ {c}
  BY <1>1, Zenon DEF Leaves, OrderInv, LiveInv
<1>4. \A a, b : Precedes(arrivals', a, b) => Precedes(arrivals, a, b) /\ a # c /\ b # c
  <2>1. CASE arrivals' = Without(arrivals, c)
    BY <1>1, <2>1, Zenon
  <2>2. CASE arrivals' = arrivals
    BY <2>2, PrecedesMembers, Zenon DEF Leaves
  <2> QED
    BY <2>1, <2>2 DEF Leaves
<1>5. /\ Range(waiters') \subseteq Range(waiters)
      /\ \A d \in Range(waiters) : d # c => d \in Range(waiters')
      /\ \A a, b : Precedes(waiters, a, b) /\ a # c /\ b # c => Precedes(waiters', a, b)
  <2>1. CASE waiters' = Without(waiters, c)
    BY <1>2, <2>1
  <2>2. CASE waiters' = waiters
    BY <2>2
  <2> QED
    BY <2>1, <2>2 DEF Leaves
<1>6. \A d \in Range(arrivals') : d \in Contenders \ {c}
  BY <1>3, Elements DEF Range
<1>7. \A d \in Contenders \ {c} : Fresh(d)' = Fresh(d)
  BY DEF Fresh, Leaves
<1>8. LiveInv'
  <2>1. \A d \in Contenders : stage'[d] = "queued" => since'[d] \in -Backoff .. 0
    BY Zenon DEF Leaves, OrderInv, LiveInv
  <2>2. ASSUME NEW d \in Range(arrivals')
        PROVE  /\ stage'[d] \in {"asking", "queued"} /\ answer'[d] # "ok" /\ d \in Range(waiters')
               /\ queueLeft' >= WaiterTimeout + Fresh(d)'
               /\ d \in DOMAIN seen' => seen'[d] >= Fresh(d)' + ahead'[d]
    BY <1>3, <1>5, <1>6, <1>7, Zenon DEF Leaves, OrderInv, LiveInv
  <2> QED
    BY <1>3, <2>1, <2>2, Zenon DEF LiveInv, WaiterTimeout
<1>9. PlaceInv'
  BY <1>3, <1>5 DEF Leaves, OrderInv, PlaceInv
<1>10. \A a, b \in Contenders : Precedes(arrivals', a, b) => Precedes(waiters', a, b)
  BY <1>4, <1>5 DEF OrderInv
<1>11. \A a, b \in Contenders : Precedes(arrivals, a, b)' => Precedes(waiters, a, b)'
  BY <1>10, Zenon DEF Precedes
<1> QED
  BY <1>8, <1>9, <1>11, Zenon DEF OrderInv

\* A step of c between two of its attempts: its place and its entries stay.
Waits(c) ==
    /\ UNCHANGED <<ahead, arrivals, waiters, seen, queueLeft>>
    /\ \A d \in Contenders : Has(d)' => Has(d)
    /\ \A d \in Contenders \ {c} :
          stage'[d] = stage[d] /\ since'[d] = since[d] /\ answer'[d] = answer[d]
    /\ stage'[c] \in {"asking", "queued"} /\ answer'[c] # "ok"
    /\ Fresh(c) \in Int /\ Fresh(c)' \in Int /\ (c \in Range(arrivals) => Fresh(c)' <= Fresh(c))
    /\ stage'[c] = "queued" => since'[c] = 0
    /\ stage[c] \in {"idle", "asking", "queued"}
    /\ stage'[c] = "asking" => stage[c] = "asking" \/ ~Has(c)

(* So does such a step. *)
LEMMA WaitsOrder ==
    ASSUME SafeInv, QueueShape, OrderInv, NEW c \in Contenders, Waits(c)
    PROVE  OrderInv'
<1> USE RWAssumption
<1>1. \A d \in Contenders \ {c} : Fresh(d)' = Fresh(d)
  BY Zenon DEF Fresh, Waits
<1>2. \A d \in Range(arrivals) : d \in Contenders
  BY Elements DEF OrderInv, LiveInv, Range
<1>3. \A d \in Contenders : stage'[d] = "queued" => since'[d] \in -Backoff .. 0
  BY DEF Waits, OrderInv, LiveInv
<1>4. ASSUME NEW d \in Range(arrivals)
      PROVE  /\ stage'[d] \in {"asking", "queued"} /\ answer'[d] # "ok" /\ d \in Range(waiters')
             /\ queueLeft' >= WaiterTimeout + Fresh(d)'
             /\ d \in DOMAIN seen' => seen'[d] >= Fresh(d)' + ahead'[d]
  <2>1. /\ stage[d] \in {"asking", "queued"} /\ answer[d] # "ok" /\ d \in Range(waiters)
        /\ queueLeft >= WaiterTimeout + Fresh(d)
        /\ d \in DOMAIN seen => seen[d] >= Fresh(d) + ahead[d]
    BY Zenon DEF OrderInv, LiveInv
  <2>2. CASE d # c
    BY <1>1, <1>2, <2>1, <2>2, Zenon DEF Waits
  <2>3. CASE d = c
    <3>1. /\ Fresh(c) \in Int /\ Fresh(c)' \in Int /\ Fresh(c)' <= Fresh(c) /\ queueLeft \in Int
          /\ WaiterTimeout \in Int /\ ahead[c] \in Int /\ (c \in DOMAIN seen => seen[c] \in Int)
      BY <2>3, SMTT(30) DEF Waits, QueueShape, SafeInv, Shape, WaiterTimeout
    <3> QED
      BY <2>1, <2>3, <3>1 DEF Waits
  <2> QED
    BY <2>2, <2>3, Zenon
<1>5. LiveInv'
  BY <1>3, <1>4 DEF LiveInv, Waits, OrderInv, WaiterTimeout
<1>6. PlaceInv'
  BY DEF Waits, OrderInv, PlaceInv
<1> QED
  BY <1>5, <1>6 DEF Waits, OrderInv, Precedes

(* The steps that start, repeat or answer an attempt. *)
LEMMA AttemptOrder ==
    ASSUME SafeInv, QueueShape, OrderInv, NEW c \in Contenders,
           Attempt(c) \/ Resend(c) \/ ReceiveBusy(c)
    PROVE  OrderInv'
<1> USE RWAssumption
<1>1. /\ stage \in [Contenders -> Stages] /\ since \in [Contenders -> Int]
      /\ answer \in [Contenders -> {"none", "ok", "no"}]
      /\ answer[c] # "none" => stage[c] = "asking"
      /\ stage[c] \in {"idle", "queued"} => ~Has(c)
      /\ stage[c] = "asking" => since[c] \in -MaxDelay .. 0
      /\ stage[c] = "queued" => since[c] \in -Backoff .. 0
      /\ c \in Range(arrivals) => stage[c] # "idle"
  BY Zenon DEF SafeInv, Shape, AskInv, OrderInv, LiveInv
<1>2. /\ UNCHANGED <<ahead, arrivals, waiters, seen, queueLeft>>
      /\ \A d \in Contenders : Has(d)' => Has(d)
  BY DEF Attempt, Resend, ReceiveBusy, server, Has
<1>3. CASE Attempt(c)
  <2>1. /\ stage' = [stage EXCEPT ![c] = "asking"] /\ since' = [since EXCEPT ![c] = 0]
        /\ answer' = answer /\ answer[c] = "none" /\ stage[c] \in {"idle", "queued"}
    BY <1>1, <1>3, Zenon DEF Attempt, Go
  <2>2. stage'[c] = "asking" /\ since'[c] = 0
    BY <1>1, <2>1, Zenon
  <2>3. Fresh(c) \in Int /\ Fresh(c)' \in Int /\ (c \in Range(arrivals) => Fresh(c)' <= Fresh(c))
    BY <1>1, <2>1, <2>2 DEF Fresh
  <2>4. Waits(c)
    BY <1>1, <1>2, <2>1, <2>2, <2>3, Zenon DEF Waits
  <2> QED
    BY <2>4, WaitsOrder, Zenon
<1>4. CASE Resend(c)
  <2>1. /\ stage' = stage /\ since' = since /\ answer' = [answer EXCEPT ![c] = "none"]
        /\ stage[c] = "asking"
    BY <1>4, Zenon DEF Resend
  <2>2. answer'[c] = "none"
    BY <1>1, <2>1, Zenon
  <2>3. Fresh(c) \in Int /\ Fresh(c)' \in Int /\ (c \in Range(arrivals) => Fresh(c)' <= Fresh(c))
    BY <1>1, <2>1, <2>2 DEF Fresh
  <2>4. Waits(c)
    BY <1>1, <1>2, <2>1, <2>2, <2>3, Zenon DEF Waits
  <2> QED
    BY <2>4, WaitsOrder
<1>5. CASE ReceiveBusy(c)
  <2>1. /\ stage' = [stage EXCEPT ![c] = "queued"] /\ since' = [since EXCEPT ![c] = 0]
        /\ answer' = [answer EXCEPT ![c] = "none"] /\ stage[c] = "asking" /\ answer[c] = "no"
    BY <1>5, Zenon DEF ReceiveBusy, Go
  <2>2. stage'[c] = "queued" /\ since'[c] = 0 /\ answer'[c] = "none"
    BY <1>1, <2>1, Zenon
  <2>3. Fresh(c) \in Int /\ Fresh(c)' \in Int /\ (c \in Range(arrivals) => Fresh(c)' <= Fresh(c))
    BY <1>1, <2>1, <2>2 DEF Fresh
  <2>4. Waits(c)
    BY <1>1, <1>2, <2>1, <2>2, <2>3, Zenon DEF Waits
  <2> QED
    BY <2>4, WaitsOrder
<1> QED
  BY <1>3, <1>4, <1>5, Zenon

(* The steps after which the caller does not wait any more. *)
LEMMA CallOrder ==
    ASSUME SafeInv, QueueShape, OrderInv, NEW c \in Contenders,
           \/ ReceiveGrant(c) \/ CancelAttempt(c) \/ FailAttempt(c) \/ Crash(c) \/ GiveUp(c)
           \/ DequeueZRem(c) \/ DequeueHDel(c) \/ Unlock(c) \/ Release(c) \/ Recycle(c)
    PROVE  OrderInv'
<1> USE RWAssumption
<1>1. /\ stage \in [Contenders -> Stages] /\ since \in [Contenders -> Int]
      /\ answer \in [Contenders -> {"none", "ok", "no"}]
  BY Zenon DEF SafeInv, Shape
<1>2. /\ c \in Range(arrivals) => stage[c] \in {"asking", "queued"} /\ answer[c] # "ok"
      /\ c \notin Range(Without(arrivals, c))
  <2>1. arrivals \in Seq(Contenders) /\ IsInjective(arrivals)
    BY Zenon DEF OrderInv, LiveInv
  <2>2. Range(Without(arrivals, c)) = Range(arrivals) \ {c}
    BY <2>1, Removed, Zenon
  <2> QED
    BY <2>2, Zenon DEF OrderInv, LiveInv
<1>3. CASE ReceiveGrant(c)
  <2>1. Leaves(c)
    BY <1>1, <1>2, <1>3, Zenon DEF ReceiveGrant, Go, server, Leaves, Has
  <2> QED
    BY <2>1, LeavesOrder, Zenon
<1>4. CASE CancelAttempt(c) \/ FailAttempt(c)
  <2>1. PICK st \in {"canceled", "failed"} : Abort(c, st)
    BY <1>4, Zenon DEF CancelAttempt, FailAttempt
  <2>2. Leaves(c)
    BY <1>1, <1>2, <2>1, Zenon DEF Abort, Go, server, Leaves, Has
  <2> QED
    BY <2>2, LeavesOrder, Zenon
<1>5. CASE Crash(c)
  <2>1. Leaves(c)
    BY <1>1, <1>2, <1>5, Zenon DEF Crash, Go, server, Leaves, Has
  <2> QED
    BY <2>1, LeavesOrder
<1>6. CASE GiveUp(c)
  <2>1. Leaves(c)
    BY <1>1, <1>2, <1>6, Zenon DEF GiveUp, Go, server, Leaves, Has
  <2> QED
    BY <2>1, LeavesOrder
<1>7. CASE DequeueZRem(c)
  <2>1. Leaves(c)
    BY <1>1, <1>2, <1>7, Zenon DEF DequeueZRem, Go, Leaves, Has
  <2> QED
    BY <2>1, LeavesOrder
<1>8. CASE DequeueHDel(c)
  <2>1. DOMAIN seen' \subseteq DOMAIN seen /\ \A d \in DOMAIN seen' : seen'[d] = seen[d]
    BY <1>8, Zenon DEF DequeueHDel, Restrict
  <2>2. Leaves(c)
    BY <1>1, <1>2, <1>8, <2>1, Zenon DEF DequeueHDel, Go, Leaves, Has
  <2> QED
    BY <2>2, LeavesOrder
<1>9. CASE Unlock(c)
  <2>1. Leaves(c)
    BY <1>1, <1>2, <1>9, Zenon DEF Unlock, Go, server, Leaves, Has
  <2> QED
    BY <2>1, LeavesOrder
<1>10. CASE Release(c)
  <2>1. \A d \in Contenders : Has(d)' => Has(d)
    <3>1. /\ writer' \in {writer, NoWriter} /\ DOMAIN readers' \subseteq DOMAIN readers
          /\ \A d \in Contenders : d # NoWriter
      BY <1>10, Zenon DEF Release, Remit, Restrict, Contenders
    <3> QED
      BY <3>1, Zenon DEF Has
  <2>2. Leaves(c)
    BY <1>1, <1>2, <1>10, <2>1, Zenon DEF Release, Remit, Go, Leaves
  <2> QED
    BY <2>2, LeavesOrder
<1>11. CASE Recycle(c)
  <2>1. Leaves(c)
    BY <1>1, <1>2, <1>11, Zenon DEF Recycle, Returned, Go, server, Leaves, Has
  <2> QED
    BY <2>1, LeavesOrder
<1> QED
  BY <1>3, <1>4, <1>5, <1>6, <1>7, <1>8, <1>9, <1>10, <1>11, Zenon

(* Tick: the queue lives on while somebody waits in it. *)
LEMMA TickOrder ==
    ASSUME SafeInv, QueueShape, OrderInv, Prompt, Tick
    PROVE  OrderInv'
<1> USE RWAssumption
<1>1. /\ queueLeft' = Later(queueLeft, 0)
      /\ waiters' = IF queueLeft = 1 THEN <<>> ELSE waiters
      /\ seen' = IF queueLeft = 1 THEN <<>>
                 ELSE [m \in DOMAIN seen |-> Later(seen[m], -MaxDelay - WaiterTimeout - 1)]
      /\ UNCHANGED <<ahead, stage, answer, arrivals>>
      /\ \A c \in Contenders : /\ stage[c] = "asking" => since[c] > -MaxDelay
                               /\ stage[c] = "queued" => since[c] > -Backoff
  BY DEF Tick
<1>2. since \in [Contenders -> Int] /\ ahead \in [Contenders -> 0 .. MaxAhead]
  BY DEF SafeInv, Shape
<1>3. \A c \in Contenders : stage[c] \in {"asking", "queued"} => since'[c] = since[c] - 1
  BY <1>2, TickSince, Zenon
<1>4. \A c \in Contenders : stage[c] = "queued" => since'[c] \in -Backoff .. 0
  BY <1>1, <1>2, <1>3, SMTT(30) DEF OrderInv, LiveInv
<1>5. \A d \in Range(arrivals) : d \in Contenders
  BY Elements DEF OrderInv, LiveInv, Range
<1>6. ASSUME NEW d \in Range(arrivals)
      PROVE  /\ queueLeft > 1 /\ queueLeft' >= WaiterTimeout + Fresh(d)'
             /\ d \in DOMAIN seen => Later(seen[d], -MaxDelay - WaiterTimeout - 1) >= Fresh(d)' + ahead[d]
  <2>1. /\ d \in Contenders /\ stage[d] \in {"asking", "queued"}
        /\ queueLeft >= WaiterTimeout + Fresh(d)
        /\ d \in DOMAIN seen => seen[d] >= Fresh(d) + ahead[d]
    BY <1>5, Zenon DEF OrderInv, LiveInv
  <2>2. Fresh(d) \in Int /\ Fresh(d)' = Fresh(d) - 1
    <3> DEFINE k == IF stage[d] = "queued" THEN MaxDelay
                    ELSE IF answer[d] = "no" THEN 0 ELSE MaxDelay + Backoff
    <3>1. Fresh(d) = since[d] - k /\ Fresh(d)' = since'[d] - k
      BY <1>1 DEF Fresh
    <3>2. k \in Int
      OBVIOUS
    <3> HIDE DEF k
    <3> QED
      BY <1>2, <1>3, <2>1, <3>1, <3>2, SMTT(30)
  <2>3. Fresh(d) > -2 * MaxDelay - Backoff
    BY <1>1, <1>2, <2>1 DEF Fresh
  <2>4. queueLeft \in Int /\ queueLeft > 1
    BY <2>1, <2>2, <2>3, SMTT(30) DEF QueueShape, Prompt, WaiterTimeout
  <2>5. d \in DOMAIN seen => seen[d] \in Int
    BY DEF QueueShape
  <2> QED
    BY <1>1, <1>2, <2>1, <2>2, <2>4, <2>5, SMTT(30) DEF Later, WaiterTimeout
<1>7. LiveInv'
  <2>1. ASSUME NEW d \in Range(arrivals)
        PROVE  /\ stage'[d] \in {"asking", "queued"} /\ answer'[d] # "ok" /\ d \in Range(waiters')
               /\ queueLeft' >= WaiterTimeout + Fresh(d)'
               /\ d \in DOMAIN seen' => seen'[d] >= Fresh(d)' + ahead'[d]
    <3>1. /\ waiters' = waiters
          /\ seen' = [m \in DOMAIN seen |-> Later(seen[m], -MaxDelay - WaiterTimeout - 1)]
      BY <1>1, <1>6
    <3> QED
      BY <1>1, <1>6, <3>1 DEF OrderInv, LiveInv
  <2> QED
    BY <1>1, <1>4, <2>1, Zenon DEF OrderInv, LiveInv, WaiterTimeout
<1>8. PlaceInv'
  <2>1. Range(waiters') \subseteq Range(waiters)
    <3>1. Range(<<>>) = {}
      BY DEF Range
    <3> QED
      BY <1>1, <3>1, Zenon
  <2>2. \A c \in Contenders : Has(c)' => Has(c)
    <3>1. /\ writer' \in {writer, NoWriter} /\ DOMAIN readers' = DOMAIN readers
          /\ \A c \in Contenders : c # NoWriter
      BY DEF Tick, Contenders
    <3> QED
      BY <3>1 DEF Has
  <2> QED
    BY <1>1, <2>1, <2>2, Zenon DEF OrderInv, PlaceInv
<1>9. ASSUME NEW a \in Contenders, NEW b \in Contenders, Precedes(arrivals, a, b)
      PROVE  Precedes(waiters', a, b)
  <2>1. waiters' = waiters
    BY <1>1, <1>6, <1>9, PrecedesMembers
  <2> QED
    BY <1>9, <2>1, Zenon DEF OrderInv
<1>10. \A a, b \in Contenders : Precedes(arrivals, a, b)' => Precedes(waiters, a, b)'
  BY <1>1, <1>9 DEF Precedes
<1> QED
  BY <1>7, <1>8, <1>10, Zenon DEF OrderInv

(* Every step keeps the order of arrival. *)
LEMMA OrderStep ==
    ASSUME SafeInv, QueueShape, OrderInv, Prompt, [Next]_vars
    PROVE  OrderInv'
<1>1. ASSUME NEW c \in Contenders, Attempt(c) \/ Resend(c) \/ ReceiveBusy(c)
      PROVE  OrderInv'
  BY <1>1, AttemptOrder, Zenon
<1>2. ASSUME NEW c \in Contenders,
             \/ ReceiveGrant(c) \/ CancelAttempt(c) \/ FailAttempt(c) \/ Crash(c) \/ GiveUp(c)
             \/ DequeueZRem(c) \/ DequeueHDel(c) \/ Unlock(c) \/ Release(c) \/ Recycle(c)
      PROVE  OrderInv'
  BY <1>2, CallOrder
<1>3. ASSUME NEW c \in Contenders, Serve(c)
      PROVE  OrderInv'
  BY <1>3, ServeOrder
<1>4. ASSUME NEW p \in copies, ServeCopy(p)
      PROVE  OrderInv'
  BY <1>4, ServeCopyOrder, Zenon
<1>5. ASSUME UNCHANGED <<ahead, arrivals, waiters, seen, queueLeft, stage, since, answer, writer>>,
             DOMAIN readers' = DOMAIN readers
      PROVE  OrderInv'
  BY <1>5 DEF OrderInv, LiveInv, PlaceInv, Precedes, Fresh, Has, WaiterTimeout
<1>6. ASSUME NEW c \in Contenders, StartRenew(c)
      PROVE  OrderInv'
  BY <1>5, <1>6, Zenon DEF StartRenew, server
<1>7. ASSUME NEW b \in beats, ServeRenew(b) \/ ReceiveRenew(b)
      PROVE  OrderInv'
  BY <1>5, <1>7 DEF ServeRenew, ReceiveRenew, server
<1>8. CASE Tick
  BY <1>8, TickOrder, Zenon
<1>9. CASE UNCHANGED vars
  BY <1>5, <1>9, Zenon DEF vars, server, client
<1> QED
  BY <1>1, <1>2, <1>3, <1>4, <1>6, <1>7, <1>8, <1>9, Zenon DEF Next

(* Only its own attempt lets a contender in. *)
LEMMA LetInByServe ==
    ASSUME SafeInv, [Next]_vars, NEW c \in Contenders, LetIn(c)
    PROVE  Serve(c)
<1> USE RWAssumption
<1>1. stage[c] = "asking" /\ answer[c] = "none" /\ c # NoWriter
  BY Zenon DEF LetIn, Contenders
<1>2. (writer' = c /\ writer # c) \/ answer'[c] = "ok"
  BY Zenon DEF LetIn
<1>3. answer \in [Contenders -> {"none", "ok", "no"}]
  BY Zenon DEF SafeInv, Shape
<1>4. ASSUME NEW d \in Contenders,
             \/ Attempt(d) \/ Resend(d) \/ ReceiveGrant(d) \/ ReceiveBusy(d) \/ Crash(d)
             \/ GiveUp(d) \/ DequeueZRem(d) \/ DequeueHDel(d) \/ StartRenew(d) \/ Unlock(d)
             \/ Recycle(d)
      PROVE  FALSE
  BY <1>1, <1>2, <1>3, <1>4, Zenon DEF server, Attempt, Resend, ReceiveGrant, ReceiveBusy, Crash, GiveUp,
              DequeueZRem, DequeueHDel, StartRenew, Unlock, Recycle
<1>5. ASSUME NEW d \in Contenders, CancelAttempt(d) \/ FailAttempt(d) \/ Release(d)
      PROVE  FALSE
  BY <1>1, <1>2, <1>3, <1>5, Zenon DEF server, CancelAttempt, FailAttempt, Abort, Release, Remit
<1>6. ASSUME NEW b \in beats, ServeRenew(b) \/ ReceiveRenew(b)
      PROVE  FALSE
  BY <1>1, <1>2, <1>6, Zenon DEF server, ServeRenew, ReceiveRenew
<1>7. ASSUME NEW d \in Contenders, NEW t \in -MaxDelay .. MaxAhead, Script(d, t), d # c,
             answer'[c] = answer[c]
      PROVE  FALSE
  BY <1>1, <1>2, <1>7, ShapeLock, ScriptOutcome, Zenon DEF SafeInv, OthersKept
<1>8. ASSUME NEW d \in Contenders, Serve(d), d # c
      PROVE  FALSE
  <2>1. Script(d, Stamp(d)) /\ Stamp(d) \in -MaxDelay .. MaxAhead /\ answer'[c] = answer[c]
    BY <1>3, <1>8, ReadingTypes, Zenon DEF Serve
  <2> QED
    BY <1>7, <1>8, <2>1, Zenon
<1>9. ASSUME NEW p \in copies, ServeCopy(p)
      PROVE  FALSE
  <2>1. /\ Script(p.who, p.at + ahead[p.who]) /\ p.who \in Contenders
        /\ p.at + ahead[p.who] \in -MaxDelay .. MaxAhead /\ answer' = answer
        /\ stage[p.who] \in {"failed", "canceled"}
    BY <1>9, ReadingTypes, Zenon DEF ServeCopy, SafeInv, CopyInv
  <2>2. p.who # c
    BY <1>1, <2>1, Zenon
  <2> QED
    BY <1>7, <2>1, <2>2, Zenon
<1>10. CASE Tick
  BY <1>1, <1>2, <1>10, Zenon DEF Tick
<1>11. CASE UNCHANGED vars
  BY <1>1, <1>2, <1>11, Zenon DEF vars, server, client
<1> QED
  BY <1>4, <1>5, <1>6, <1>8, <1>9, <1>10, <1>11, Zenon DEF Next

(* A contender that is let in comes before nobody but readers that it shares   *)
(* the lock with.                                                              *)
LEMMA LetInOrder ==
    ASSUME SafeInv, QueueShape, OrderInv, Prompt, [Next]_vars,
           NEW c \in Contenders, LetIn(c), NEW d \in Before(c)
    PROVE  {c, d} \subseteq Readers
<1> USE RWAssumption
<1> DEFINE t == Stamp(c)
<1>1. /\ stage[c] = "asking" /\ Script(c, t)
      /\ answer' = [answer EXCEPT ![c] = IF Grants(c, t) THEN "ok" ELSE "no"]
  BY LetInByServe, Zenon DEF Serve
<1>2. t \in -MaxDelay .. MaxAhead
  BY <1>1, ReadingTypes, Zenon
<1>3. answer'[c] = IF Grants(c, t) THEN "ok" ELSE "no"
  BY <1>1, Zenon DEF SafeInv, Shape
<1>4. \/ writer # c /\ writer' = c
      \/ c \in DOMAIN readers' \ Unexpired(t) /\ answer'[c] = "ok"
  BY Zenon DEF LetIn
<1> HIDE DEF t
<1>5. OwnEntry(c, t) /\ DOMAIN readers \subseteq Readers /\ writer \in Writers \cup {NoWriter}
  BY <1>1, <1>2, ShapeLock, ScriptOutcome, Zenon DEF SafeInv, LockShape
<1>6. ~Recovers(c, t) /\ Grants(c, t)
  <2>1. Grants(c, t)
    BY <1>3, <1>4, <1>5, Zenon DEF OwnEntry
  <2>2. SUFFICES ASSUME Recovers(c, t) PROVE FALSE
    BY <2>1, Zenon
  <2>3. UNCHANGED <<writer, readers>>
    BY <1>5, <2>2, Zenon DEF OwnEntry
  <2>4. c \in DOMAIN readers \ Unexpired(t)
    BY <1>4, <2>3, Zenon
  <2> QED
    BY <1>5, <2>2, <2>4, Zenon DEF Recovers
<1>7. Admits(c, t)
  BY <1>6, Zenon DEF Grants
<1>8. PICK k \in DOMAIN arrivals : d = arrivals[k] /\ \A j \in 1 .. k : arrivals[j] # c
  BY Zenon DEF Before
<1>9. arrivals \in Seq(Contenders) /\ DOMAIN arrivals = 1 .. Len(arrivals) /\ Len(arrivals) \in Nat
  BY Elements, Zenon DEF OrderInv, LiveInv
<1>10. d \in Range(arrivals) /\ d # c /\ d \in Contenders
  BY <1>8, <1>9, Elements DEF Range
<1>11. d \in Range(waiters) /\ ~Silent(d, seen, t)
  BY <1>2, <1>10, NotSilent, Zenon DEF OrderInv, LiveInv
<1>12. Precedes(waiters, d, c) \/ c \notin Range(waiters)
  <2>1. CASE c \in Range(arrivals)
    <3>1. PICK j \in DOMAIN arrivals : arrivals[j] = c
      BY <2>1 DEF Range
    <3>2. k < j
      BY <1>8, <1>9, <3>1
    <3>3. Precedes(arrivals, d, c)
      BY <1>8, <3>1, <3>2, Zenon DEF Precedes
    <3> QED
      BY <1>10, <3>3, Zenon DEF OrderInv
  <2>2. CASE c \notin Range(arrivals)
    BY <1>1, <2>2 DEF OrderInv, PlaceInv
  <2> QED
    BY <2>1, <2>2, Zenon
<1> QED
  BY <1>2, <1>7, <1>10, <1>11, <1>12, AdmittedInTurn

---------------------------------------------------------------------------
(* The results about the queue.                                             *)
(* The types of the queue hold in every reachable state. *)
LEMMA QueueShapeHolds == Spec => []QueueShape
<1>1. Init => QueueShape
  <2>1. <<>> \in Seq(Contenders) /\ IsInjective(<<>>) /\ DOMAIN <<>> = {} /\ <<>> \in [{} -> Int]
    BY DEF IsInjective
  <2> QED
    BY <2>1, RWAssumption DEF Init, QueueShape, WaiterTimeout
<1> QED
  BY <1>1, QueueShapeStep, SafeInvHolds, PTL DEF Spec

(* The types of the model, with no waiter in the queue twice: a retry of the   *)
(* scripts keeps its place instead of taking another.                          *)
THEOREM RWTypes == Spec => []TypeOK
<1>1. SafeInv /\ QueueShape => TypeOK
  <2> SUFFICES ASSUME SafeInv, QueueShape PROVE TypeOK
    OBVIOUS
  <2>1. Range(waiters) \subseteq Contenders
    BY Elements DEF Range, QueueShape
  <2>2. (writer = NoWriter) = (writerLeft = 0)
    BY Zenon DEF SafeInv, Shape
  <2>3. /\ deadline \in [Contenders -> 0 .. TTL]
        /\ \A r \in DOMAIN readers : readers[r] \in -MaxDelay .. TTL + MaxAhead
    BY RWAssumption DEF SafeInv, Shape
  <2> QED
    BY <2>1, <2>2, <2>3 DEF TypeOK, SafeInv, Shape, QueueShape
<1> QED
  BY <1>1, SafeInvHolds, QueueShapeHolds, PTL

(* A waiter that gives up leaves the queue before its call returns, unless its *)
(* context ends during an attempt or the command that removes it fails.        *)
THEOREM GivingUpLeaves ==
    ASSUME {"cancel", "command"} \cap Faults = {}
    PROVE  Spec => []GaveUpLeaves
<1>1. Init => GaveUpInv
  BY DEF Init, GaveUpInv
<1>2. SafeInv /\ QueueShape /\ GaveUpInv /\ [Next]_vars => GaveUpInv'
  BY GaveUpStep, Zenon
<1>3. GaveUpInv => GaveUpLeaves
  BY Zenon DEF GaveUpInv, GaveUpLeaves
<1>4. Spec => []SafeInv /\ []QueueShape
  BY SafeInvHolds, QueueShapeHolds, PTL
<1> QED
  BY <1>1, <1>2, <1>3, <1>4, PTL DEF Spec

(* Strict FIFO: a contender is let in only when everybody that arrived before  *)
(* it and still waits is a reader, and so is it; whatever crashes, gives up,   *)
(* is renewed, sent again or left behind, so long as two requests and a        *)
(* backoff are shorter than the time after which the scripts purge a waiter.   *)
THEOREM FirstComeFirstServed ==
    ASSUME Prompt
    PROVE  Spec => ArrivalOrder
<1>1. Init => OrderInv
  <2>1. <<>> \in Seq(Contenders) /\ IsInjective(<<>>) /\ DOMAIN <<>> = {} /\ Range(<<>>) = {}
    BY DEF IsInjective, Range
  <2> SUFFICES ASSUME Init PROVE OrderInv
    OBVIOUS
  <2>2. waiters = <<>> /\ arrivals = <<>> /\ \A c \in Contenders : stage[c] = "idle"
    BY DEF Init
  <2> QED
    BY <2>1, <2>2 DEF OrderInv, LiveInv, PlaceInv, Precedes
<1>2. SafeInv /\ QueueShape /\ OrderInv /\ [Next]_vars => OrderInv'
  BY OrderStep
<1>3. SafeInv /\ QueueShape /\ OrderInv /\ [Next]_vars =>
         [\A c \in Contenders : LetIn(c) => \A d \in Before(c) : {c, d} \subseteq Readers]_vars
  BY LetInOrder
<1>4. Spec => []SafeInv /\ []QueueShape
  BY SafeInvHolds, QueueShapeHolds, PTL
<1> QED
  BY <1>1, <1>2, <1>3, <1>4, PTL DEF Spec, ArrivalOrder
=============================================================================
