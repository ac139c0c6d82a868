---------------------------- MODULE RWLockProofs ----------------------------
(* Proofs about RWLock, for any contenders, TTL, margin, backoff, delays and   *)
(* any clocks that are apart by no more than the margin.                       *)
EXTENDS RWLock, TLAPS

---------------------------------------------------------------------------
(* The inductive invariant behind WriterExcludes.  The queue has no part in  *)
(* it: who is next is decided there, who may enter is not.                   *)

Beat == [who : Contenders, at : -MaxDelay .. 0, st : {"sent", "ok", "no"}]
Copy == [who : Contenders, at : -MaxDelay .. 0]

\* Types, without the queue.
Shape ==
    /\ ahead \in [Contenders -> 0 .. MaxAhead]
    /\ writer \in Writers \cup {NoWriter} /\ writerLeft \in 0 .. TTL
    /\ writer = NoWriter <=> writerLeft = 0
    /\ DOMAIN readers \subseteq Readers
    /\ readers \in [DOMAIN readers -> -MaxDelay .. TTL + MaxAhead]
    /\ stage \in [Contenders -> Stages]
    /\ since \in [Contenders -> Int] /\ deadline \in [Contenders -> 0 .. TTL - Margin]
    /\ answer \in [Contenders -> {"none", "ok", "no"}]
    /\ beats \subseteq Beat /\ copies \subseteq Copy
    /\ \A c \in Contenders : stage[c] = "asking" => since[c] \in -MaxDelay .. 0

\* The server has an entry of c, whether or not it is over.
Has(c) == writer = c \/ c \in DOMAIN readers

\* The entry of c outlives the local deadline d by the margin; that of a reader
\* also by as much as its clock is ahead.
Covers(c, d) ==
    IF c \in Writers THEN writer = c /\ writerLeft >= d + Margin
    ELSE c \in DOMAIN readers /\ readers[c] >= d + Margin + ahead[c]

LeaseInv == \A c \in Contenders : InUse(c) => Covers(c, deadline[c])

\* A grant whose reply is still read, or was lost, is covered from the start of
\* the attempt; otherwise a contender that asks has nothing on the server.
AskInv ==
    \A c \in Contenders :
       /\ answer[c] # "none" => stage[c] = "asking"
       /\ stage[c] = "asking" /\ Has(c) => Covers(c, RequestExpiry(since[c]))
       /\ answer[c] = "ok" => Has(c) \/ RequestExpiry(since[c]) <= 0
       /\ answer[c] = "no" \/ stage[c] \in {"idle", "queued"} => ~Has(c)

\* One renewal per guard, never for an earlier deadline than was confirmed.
BeatInv ==
    /\ \A a, b \in beats : a.who = b.who => a = b
    /\ \A b \in beats :
          /\ stage[b.who] \in {"held", "unlocking"}
          /\ InUse(b.who) => /\ deadline[b.who] <= RequestExpiry(b.at)
                             /\ b.st = "ok" => Covers(b.who, RequestExpiry(b.at))

CopyInv == \A p \in copies : stage[p.who] \in {"failed", "canceled"}

\* A writer on the server has no reader beside it whose deadline stands, nor one
\* whose grant would still be accepted.
AloneInv ==
    writer # NoWriter =>
       \A r \in Readers :
          /\ ~InUse(r)
          /\ stage[r] = "asking" /\ (answer[r] = "ok" \/ r \in DOMAIN readers) =>
                RequestExpiry(since[r]) <= 0

SafeInv == Shape /\ LeaseInv /\ AskInv /\ BeatInv /\ CopyInv /\ AloneInv

---------------------------------------------------------------------------
(* What the scripts do to the lock, whatever the queue.                     *)

\* A script for c writes the lock of nobody else, and purges only what is over
\* at its clock reading t.
OthersKept(c, t) ==
    \A d \in Contenders \ {c} :
       /\ writer' = d <=> writer = d
       /\ writer = d => writerLeft' = writerLeft
       /\ d \in DOMAIN readers' => d \in DOMAIN readers /\ readers'[d] = readers[d]
       /\ d \in DOMAIN readers /\ readers[d] > t => d \in DOMAIN readers'

\* What becomes of the entry of c.
OwnEntry(c, t) ==
    /\ Recovers(c, t) => UNCHANGED <<writer, writerLeft, readers>> /\ Has(c)
    /\ ~Recovers(c, t) /\ Grants(c, t) =>
          /\ writer = NoWriter
          /\ c \in Writers => /\ writer' = c /\ writerLeft' = TTL
                              /\ \A r \in DOMAIN readers : readers[r] <= t
          /\ c \in Readers => /\ writer' = writer /\ c \in DOMAIN readers'
                              /\ readers'[c] = t + TTL
    /\ ~Grants(c, t) => /\ writer' = writer
                        /\ c \in DOMAIN readers' => c \in DOMAIN readers /\ readers[c] <= t

\* The types of what a script writes.
LockShape ==
    /\ writer \in Writers \cup {NoWriter} /\ writerLeft \in 0 .. TTL
    /\ writer = NoWriter <=> writerLeft = 0
    /\ DOMAIN readers \subseteq Readers
    /\ readers \in [DOMAIN readers -> -MaxDelay .. TTL + MaxAhead]

(* The script of c, executed with a clock reading of its process. *)
LEMMA ScriptOutcome ==
    ASSUME LockShape, NEW c \in Contenders, NEW t \in -MaxDelay .. MaxAhead, Script(c, t)
    PROVE  LockShape' /\ OthersKept(c, t) /\ OwnEntry(c, t)
<1> USE RWAssumption DEF Contenders
<1> DEFINE purged == Restrict(readers, Unexpired(t))
<1>1. /\ DOMAIN purged = {r \in DOMAIN readers : readers[r] > t}
      /\ \A r \in DOMAIN purged : purged[r] = readers[r]
      /\ DOMAIN purged \subseteq Readers
      /\ purged \in [DOMAIN purged -> -MaxDelay .. TTL + MaxAhead]
  BY DEF Restrict, Unexpired, LockShape
<1> HIDE DEF purged
<1>2. CASE Recovers(c, t)
  <2>1. UNCHANGED <<writer, writerLeft, readers>>
    BY <1>2 DEF Script, server
  <2> QED
    BY <1>2, <2>1 DEF LockShape, OthersKept, OwnEntry, Recovers, Grants, Unexpired, Has
<1>3. CASE ~Recovers(c, t) /\ Admits(c, t)
  <2>1. Grant(c, t) /\ Grants(c, t)
    BY <1>3 DEF Script, Grants
  <2>2. CASE c \in Writers
    <3>1. /\ writer = NoWriter /\ Unexpired(t) = {}
          /\ writer' = c /\ writerLeft' = TTL /\ readers' = purged
      BY <1>3, <2>1, <2>2 DEF Admits, MayWrite, Grant, purged
    <3>2. \A r \in DOMAIN readers : readers[r] <= t
      BY <3>1 DEF Unexpired, LockShape
    <3>3. LockShape'
      BY <1>1, <2>2, <3>1 DEF LockShape
    <3>4. OthersKept(c, t)
      BY <1>1, <3>1, <3>2 DEF OthersKept, LockShape
    <3>5. OwnEntry(c, t)
      BY <1>3, <2>1, <2>2, <3>1, <3>2 DEF OwnEntry
    <3> QED
      BY <3>3, <3>4, <3>5
  <2>3. CASE c \in Readers
    <3>1. /\ c \notin Writers /\ writer = NoWriter /\ writer' = writer /\ writerLeft' = writerLeft
          /\ readers' = [r \in DOMAIN readers \cup {c} |-> IF r = c THEN t + TTL ELSE readers[r]]
      BY <1>3, <2>1, <2>3 DEF Admits, MayRead, Grant
    <3>2. /\ DOMAIN readers' = DOMAIN readers \cup {c} /\ readers'[c] = t + TTL
          /\ \A r \in DOMAIN readers \ {c} : readers'[r] = readers[r]
      BY <3>1
    <3>3. readers' \in [DOMAIN readers' -> -MaxDelay .. TTL + MaxAhead]
      BY <3>1 DEF LockShape
    <3>4. LockShape' /\ OthersKept(c, t)
      BY <2>3, <3>1, <3>2, <3>3 DEF LockShape, OthersKept
    <3>5. OwnEntry(c, t)
      BY <1>3, <2>1, <3>1, <3>2 DEF OwnEntry
    <3> QED
      BY <3>4, <3>5
  <2> QED
    BY <2>2, <2>3
<1>4. CASE ~Recovers(c, t) /\ ~Admits(c, t)
  <2>1. /\ ~Grants(c, t) /\ writer' = writer /\ writerLeft' = writerLeft
        /\ readers' = readers \/ (readers' = purged /\ c \in Writers)
    BY <1>4 DEF Script, Grants, Refuse, purged
  <2>2. c \in DOMAIN readers => readers[c] <= t
    BY <1>4 DEF Recovers, Unexpired, LockShape
  <2>3. LockShape' /\ OthersKept(c, t)
    <3>1. CASE readers' = readers
      BY <2>1, <3>1 DEF LockShape, OthersKept
    <3>2. CASE readers' = purged
      BY <1>1, <2>1, <3>2 DEF LockShape, OthersKept
    <3> QED
      BY <2>1, <3>1, <3>2
  <2>4. OwnEntry(c, t)
    BY <1>1, <1>4, <2>1, <2>2 DEF OwnEntry
  <2> QED
    BY <2>3, <2>4
<1> QED
  BY <1>2, <1>3, <1>4

(* Unfolds the parts of Shape that the steps below need. *)
LEMMA ShapeLock == Shape => LockShape
BY DEF Shape, LockShape

(* A script leaves every other contender what it relies on: an entry that      *)
(* covers a standing deadline is not purged, whoever's clock the script uses.  *)
LEMMA OthersCovered ==
    ASSUME SafeInv, NEW c \in Contenders, NEW t \in -MaxDelay .. MaxAhead,
           Script(c, t), UNCHANGED <<ahead, since>>, NEW d \in Contenders, d # c
    PROVE  /\ Has(d)' => Has(d)
           /\ \A x \in Int : x > 0 /\ Covers(d, x) => Covers(d, x)'
           /\ stage[d] = "asking" /\ Has(d)' => Covers(d, RequestExpiry(since[d]))'
           /\ answer[d] = "ok" => Has(d)' \/ RequestExpiry(since[d]) <= 0
<1> USE RWAssumption DEF Contenders
<1>1. LockShape /\ LockShape' /\ OthersKept(c, t)
  BY ShapeLock, ScriptOutcome DEF SafeInv
<1>2. /\ ahead[d] \in 0 .. MaxAhead /\ since[d] \in Int
      /\ \A r \in DOMAIN readers : readers[r] \in Int
  BY DEF SafeInv, Shape
<1>3. Has(d)' => Has(d)
  BY <1>1 DEF OthersKept, Has
<1>4. ASSUME NEW x \in Int, x > 0, Covers(d, x)
      PROVE  Covers(d, x)'
  BY <1>1, <1>2, <1>4 DEF Covers, OthersKept, LockShape
<1>6. RequestExpiry(since[d]) \in Int
  BY <1>2 DEF RequestExpiry
<1>7. stage[d] = "asking" /\ Has(d)' => Covers(d, RequestExpiry(since[d]))'
  <2>1. ASSUME stage[d] = "asking", Has(d)' PROVE Covers(d, RequestExpiry(since[d]))
    BY <1>3, <2>1 DEF SafeInv, AskInv
  <2> QED
    BY <1>1, <1>2, <1>6, <2>1 DEF Covers, OthersKept, LockShape, Has, RequestExpiry
<1>8. ASSUME answer[d] = "ok", ~Has(d)' PROVE RequestExpiry(since[d]) <= 0
  <2>1. CASE Has(d)
    <3>1. Covers(d, RequestExpiry(since[d]))
      BY <1>8, <2>1 DEF SafeInv, AskInv
    <3> QED
      BY <1>1, <1>2, <1>6, <1>8, <2>1, <3>1 DEF Covers, OthersKept, LockShape, Has
  <2>2. CASE ~Has(d)
    BY <1>8, <2>2 DEF SafeInv, AskInv
  <2> QED
    BY <2>1, <2>2
<1> QED
  BY <1>3, <1>4, <1>7, <1>8

(* After a script no reader is, or would still become, a user beside a writer. *)
LEMMA ScriptAlone ==
    ASSUME SafeInv, NEW c \in Contenders, NEW t \in -MaxDelay .. MaxAhead,
           Script(c, t), writer' # NoWriter, NEW r \in Readers
    PROVE  /\ ~InUse(r)
           /\ stage[r] = "asking" /\ \/ answer[r] = "ok"
                                     \/ r \in DOMAIN readers'
                                     \/ r = c /\ Grants(c, t)
                 => RequestExpiry(since[r]) <= 0
<1> USE RWAssumption DEF Contenders
<1>1. LockShape /\ LockShape' /\ OthersKept(c, t) /\ OwnEntry(c, t)
  BY ShapeLock, ScriptOutcome DEF SafeInv
<1>2. /\ r \notin Writers /\ ahead[r] \in 0 .. MaxAhead /\ since[r] \in Int
      /\ deadline[r] \in Int /\ RequestExpiry(since[r]) \in Int
  BY DEF SafeInv, Shape, RequestExpiry
<1>3. CASE writer # NoWriter
  <2>1. ~InUse(r)
    BY <1>3 DEF SafeInv, AloneInv
  <2>2. r \in DOMAIN readers' => r \in DOMAIN readers
    BY <1>1, <1>3 DEF OthersKept, OwnEntry
  <2>3. r = c /\ Grants(c, t) => r \in DOMAIN readers
    BY <1>1, <1>2, <1>3 DEF OwnEntry, Has, LockShape
  <2> QED
    BY <1>3, <2>1, <2>2, <2>3 DEF SafeInv, AloneInv
<1>4. CASE writer = NoWriter
  <2>1. c \in Writers /\ \A x \in DOMAIN readers : readers[x] <= t
    BY <1>1, <1>4 DEF OthersKept, OwnEntry, LockShape
  <2>2. r \in DOMAIN readers => readers[r] \in Int /\ readers[r] <= MaxAhead
    BY <1>1, <2>1 DEF LockShape
  <2>3. ~InUse(r)
    <3>1. InUse(r) => Covers(r, deadline[r])
      BY DEF SafeInv, LeaseInv
    <3> QED
      BY <1>2, <2>2, <3>1 DEF Covers, InUse
  <2>4. r \in DOMAIN readers' => r \in DOMAIN readers
    BY <1>1, <1>2, <2>1 DEF OthersKept
  <2>5. ASSUME stage[r] = "asking", r \in DOMAIN readers
        PROVE  RequestExpiry(since[r]) <= 0
    <3>1. Covers(r, RequestExpiry(since[r]))
      BY <2>5 DEF SafeInv, AskInv, Has
    <3> QED
      BY <1>2, <2>2, <3>1 DEF Covers
  <2>6. ASSUME stage[r] = "asking", answer[r] = "ok", r \notin DOMAIN readers
        PROVE  RequestExpiry(since[r]) <= 0
    BY <1>1, <1>2, <2>6 DEF SafeInv, AskInv, Has, LockShape
  <2> QED
    BY <1>2, <2>1, <2>3, <2>4, <2>5, <2>6
<1> QED
  BY <1>3, <1>4

---------------------------------------------------------------------------
(* Every step keeps the invariant.                                          *)

(* Serve. *)
LEMMA ServeSafe ==
    ASSUME SafeInv, NEW c \in Contenders, Serve(c)
    PROVE  SafeInv'
<1> USE RWAssumption
<1> DEFINE t == Stamp(c)
<1>1. /\ stage[c] = "asking" /\ answer[c] = "none" /\ Script(c, t)
      /\ answer' = [answer EXCEPT ![c] = IF Grants(c, t) THEN "ok" ELSE "no"]
      /\ copies' \subseteq copies
      /\ UNCHANGED <<ahead, stage, since, deadline, beats>>
  BY DEF Serve
<1>2. since[c] \in -MaxDelay .. 0 /\ ahead[c] \in 0 .. MaxAhead /\ t \in -MaxDelay .. MaxAhead
  BY <1>1 DEF SafeInv, Shape, Stamp
<1>3. t = since[c] + ahead[c]
  BY DEF Stamp
<1> HIDE DEF t
<1>4. LockShape /\ LockShape' /\ OthersKept(c, t) /\ OwnEntry(c, t)
  BY <1>1, <1>2, ShapeLock, ScriptOutcome DEF SafeInv
<1>5. \A d \in Contenders : InUse(d)' = InUse(d)
  BY <1>1 DEF InUse
<1>6. /\ answer'[c] \in {"ok", "no"} /\ (answer'[c] = "ok" <=> Grants(c, t))
      /\ \A d \in Contenders \ {c} : answer'[d] = answer[d]
      /\ answer' \in [Contenders -> {"none", "ok", "no"}]
  BY <1>1 DEF SafeInv, Shape
<1>7. Shape'
  BY <1>1, <1>4, <1>6, Zenon DEF SafeInv, Shape, LockShape
<1>8. ASSUME NEW d \in Contenders, d # c
      PROVE  /\ Has(d)' => Has(d)
             /\ \A x \in Int : x > 0 /\ Covers(d, x) => Covers(d, x)'
             /\ stage[d] = "asking" /\ Has(d)' => Covers(d, RequestExpiry(since[d]))'
             /\ answer[d] = "ok" => Has(d)' \/ RequestExpiry(since[d]) <= 0
  BY <1>1, <1>2, <1>8, OthersCovered
<1>9. ~InUse(c)
  BY <1>1 DEF InUse
<1>10. LeaseInv'
  <2> SUFFICES ASSUME NEW d \in Contenders, InUse(d)
               PROVE  Covers(d, deadline[d])'
    BY <1>5 DEF LeaseInv
  <2>1. deadline[d] \in Int /\ deadline[d] > 0 /\ Covers(d, deadline[d]) /\ d # c
    BY <1>9 DEF SafeInv, Shape, LeaseInv, InUse
  <2>2. PICK x \in Int : x = deadline[d]
    BY <2>1
  <2>3. Covers(d, x)'
    BY <1>8, <2>1, <2>2
  <2> QED
    BY <1>1, <2>2, <2>3
<1>11. /\ Has(c)' => Covers(c, RequestExpiry(since[c]))'
       /\ Grants(c, t) => Has(c)'
       /\ ~Grants(c, t) => ~Has(c)'
  <2>1. Has(c) => Covers(c, RequestExpiry(since[c]))
    BY <1>1 DEF SafeInv, AskInv
  <2>2. CASE Recovers(c, t)
    <3>1. UNCHANGED <<writer, writerLeft, readers>> /\ Has(c) /\ Grants(c, t)
      BY <1>4, <2>2 DEF OwnEntry, Grants
    <3> QED
      BY <1>1, <2>1, <3>1 DEF Has, Covers, RequestExpiry
  <2>3. CASE ~Recovers(c, t) /\ Grants(c, t) /\ c \in Writers
    BY <1>1, <1>2, <1>4, <2>3 DEF OwnEntry, Has, Covers, RequestExpiry
  <2>4. CASE ~Recovers(c, t) /\ Grants(c, t) /\ c \in Readers
    BY <1>1, <1>2, <1>3, <1>4, <2>4 DEF OwnEntry, Has, Covers, RequestExpiry
  <2>5. CASE ~Grants(c, t)
    <3>1. ~Recovers(c, t)
      BY <2>5 DEF Grants
    <3>2. writer # c
      BY <1>4, <3>1 DEF Recovers, LockShape, Contenders
    <3>3. c \notin DOMAIN readers
      <4>1. SUFFICES ASSUME c \in DOMAIN readers PROVE FALSE
        OBVIOUS
      <4>2. c \in Readers /\ c \notin Writers /\ readers[c] \in Int
        BY <1>4, <4>1 DEF LockShape
      <4>3. readers[c] >= RequestExpiry(since[c]) + Margin + ahead[c]
        BY <2>1, <4>1, <4>2 DEF Has, Covers
      <4>4. readers[c] <= t
        BY <1>2, <3>1, <4>1, <4>2 DEF Recovers, Unexpired
      <4> QED
        BY <1>2, <1>3, <4>2, <4>3, <4>4 DEF RequestExpiry
    <3> QED
      BY <1>4, <2>5, <3>2, <3>3 DEF OwnEntry, Has
  <2> QED
    BY <2>2, <2>3, <2>4, <2>5 DEF Contenders
<1>12. AskInv'
  <2> SUFFICES ASSUME NEW d \in Contenders
               PROVE  /\ answer'[d] # "none" => stage[d] = "asking"
                      /\ stage[d] = "asking" /\ Has(d)' => Covers(d, RequestExpiry(since[d]))'
                      /\ answer'[d] = "ok" => Has(d)' \/ RequestExpiry(since[d]) <= 0
                      /\ answer'[d] = "no" \/ stage[d] \in {"idle", "queued"} => ~Has(d)'
    BY <1>1 DEF AskInv, RequestExpiry
  <2>1. CASE d = c
    BY <1>1, <1>6, <1>11, <2>1
  <2>2. CASE d # c
    BY <1>6, <1>8, <2>2 DEF SafeInv, AskInv
  <2> QED
    BY <2>1, <2>2
<1>13. BeatInv'
  <2>1. ASSUME NEW b \in beats, InUse(b.who), b.st = "ok"
        PROVE  Covers(b.who, RequestExpiry(b.at))'
    <3>1. /\ b.who \in Contenders /\ b.who # c /\ Covers(b.who, RequestExpiry(b.at))
          /\ deadline[b.who] <= RequestExpiry(b.at) /\ RequestExpiry(b.at) \in Int
          /\ deadline[b.who] \in Int /\ deadline[b.who] > 0
      BY <1>9, <2>1 DEF SafeInv, Shape, Beat, BeatInv, RequestExpiry, InUse
    <3>2. PICK x \in Int : x = RequestExpiry(b.at)
      BY <3>1
    <3>3. Covers(b.who, x)'
      BY <1>8, <3>1, <3>2
    <3> QED
      BY <3>2, <3>3 DEF RequestExpiry
  <2> QED
    BY <1>1, <1>5, <2>1 DEF SafeInv, Shape, Beat, BeatInv, RequestExpiry
<1>14. CopyInv'
  BY <1>1 DEF SafeInv, CopyInv
<1>15. AloneInv'
  <2> SUFFICES ASSUME writer' # NoWriter, NEW r \in Readers
               PROVE  /\ ~InUse(r)
                      /\ stage[r] = "asking" /\ (answer'[r] = "ok" \/ r \in DOMAIN readers') =>
                            RequestExpiry(since[r]) <= 0
    BY <1>1, <1>5 DEF AloneInv, RequestExpiry, Contenders
  <2> QED
    BY <1>1, <1>2, <1>6, ScriptAlone DEF Contenders
<1> QED
  BY <1>7, <1>10, <1>12, <1>13, <1>14, <1>15 DEF SafeInv

(* ServeCopy: the caller of the copy is gone, so its own entry covers nothing. *)
LEMMA ServeCopySafe ==
    ASSUME SafeInv, NEW p \in copies, ServeCopy(p)
    PROVE  SafeInv'
<1> USE RWAssumption
<1> DEFINE c == p.who
           t == p.at + ahead[p.who]
<1>1. /\ Script(c, t) /\ copies' \subseteq copies
      /\ UNCHANGED <<ahead, stage, since, answer, deadline, beats>>
  BY DEF ServeCopy
<1>2. c \in Contenders /\ t \in -MaxDelay .. MaxAhead /\ stage[c] \in {"failed", "canceled"}
  BY DEF SafeInv, Shape, Copy, CopyInv
<1> HIDE DEF c, t
<1>3. LockShape /\ LockShape'
  BY <1>1, <1>2, ShapeLock, ScriptOutcome DEF SafeInv
<1>4. \A d \in Contenders : InUse(d)' = InUse(d)
  BY <1>1 DEF InUse
<1>5. Shape'
  BY <1>1, <1>3, Zenon DEF SafeInv, Shape, LockShape
<1>6. ASSUME NEW d \in Contenders, d # c
      PROVE  /\ Has(d)' => Has(d)
             /\ \A x \in Int : x > 0 /\ Covers(d, x) => Covers(d, x)'
             /\ stage[d] = "asking" /\ Has(d)' => Covers(d, RequestExpiry(since[d]))'
             /\ answer[d] = "ok" => Has(d)' \/ RequestExpiry(since[d]) <= 0
  BY <1>1, <1>2, <1>6, OthersCovered
<1>7. ~InUse(c) /\ answer[c] = "none"
  BY <1>2 DEF SafeInv, Shape, AskInv, InUse
<1>8. LeaseInv'
  <2> SUFFICES ASSUME NEW d \in Contenders, InUse(d)
               PROVE  Covers(d, deadline[d])'
    BY <1>4 DEF LeaseInv
  <2>1. deadline[d] \in Int /\ deadline[d] > 0 /\ Covers(d, deadline[d]) /\ d # c
    BY <1>7 DEF SafeInv, Shape, LeaseInv, InUse
  <2>2. PICK x \in Int : x = deadline[d]
    BY <2>1
  <2>3. Covers(d, x)'
    BY <1>6, <2>1, <2>2
  <2> QED
    BY <1>1, <2>2, <2>3
<1>9. AskInv'
  <2> SUFFICES ASSUME NEW d \in Contenders
               PROVE  /\ answer[d] # "none" => stage[d] = "asking"
                      /\ stage[d] = "asking" /\ Has(d)' => Covers(d, RequestExpiry(since[d]))'
                      /\ answer[d] = "ok" => Has(d)' \/ RequestExpiry(since[d]) <= 0
                      /\ answer[d] = "no" \/ stage[d] \in {"idle", "queued"} => ~Has(d)'
    BY <1>1 DEF AskInv, RequestExpiry
  <2>1. CASE d = c
    BY <1>2, <1>7, <2>1, Zenon
  <2>2. CASE d # c
    BY <1>6, <2>2 DEF SafeInv, AskInv
  <2> QED
    BY <2>1, <2>2
<1>10. BeatInv'
  <2>1. ASSUME NEW b \in beats, InUse(b.who), b.st = "ok"
        PROVE  Covers(b.who, RequestExpiry(b.at))'
    <3>1. /\ b.who \in Contenders /\ b.who # c /\ Covers(b.who, RequestExpiry(b.at))
          /\ deadline[b.who] <= RequestExpiry(b.at) /\ RequestExpiry(b.at) \in Int
          /\ deadline[b.who] \in Int /\ deadline[b.who] > 0
      BY <1>7, <2>1 DEF SafeInv, Shape, Beat, BeatInv, RequestExpiry, InUse
    <3>2. PICK x \in Int : x = RequestExpiry(b.at)
      BY <3>1, Zenon
    <3>3. Covers(b.who, x)'
      BY <1>6, <3>1, <3>2
    <3> QED
      BY <3>2, <3>3 DEF RequestExpiry
  <2> QED
    BY <1>1, <1>4, <2>1 DEF SafeInv, Shape, Beat, BeatInv, RequestExpiry
<1>11. CopyInv'
  BY <1>1 DEF SafeInv, CopyInv
<1>12. AloneInv'
  <2> SUFFICES ASSUME writer' # NoWriter, NEW r \in Readers
               PROVE  /\ ~InUse(r)
                      /\ stage[r] = "asking" /\ (answer[r] = "ok" \/ r \in DOMAIN readers') =>
                            RequestExpiry(since[r]) <= 0
    BY <1>1, <1>4 DEF AloneInv, RequestExpiry, Contenders
  <2> QED
    BY <1>1, <1>2, ScriptAlone DEF Contenders
<1> QED
  BY <1>5, <1>8, <1>9, <1>10, <1>11, <1>12 DEF SafeInv

(* A step that leaves the server's keys alone moves no entry. *)
LEMMA EntriesStand ==
    ASSUME UNCHANGED <<ahead, writer, writerLeft, readers>>, NEW d
    PROVE  /\ Has(d)' = Has(d)
           /\ \A x : Covers(d, x)' = Covers(d, x)
  BY DEF Has, Covers

(* A step of c that touches neither its lease nor its entry. *)
Quiet(c) ==
    /\ UNCHANGED <<ahead, writer, writerLeft, readers, deadline, beats>>
    /\ stage[c] \notin {"held", "unlocking"} /\ stage'[c] \notin {"held", "unlocking"}
    /\ stage' \in [Contenders -> Stages] /\ since' \in [Contenders -> Int]
    /\ answer' \in [Contenders -> {"none", "ok", "no"}] /\ answer'[c] = "none"
    /\ \A d \in Contenders \ {c} :
          stage'[d] = stage[d] /\ since'[d] = since[d] /\ answer'[d] = answer[d]
    /\ stage'[c] = "asking" => since'[c] = 0
    /\ stage'[c] \in {"idle", "asking", "queued"} => ~Has(c)
    /\ copies' \subseteq Copy
    /\ \A p \in copies' : \/ p \in copies /\ p.who # c
                          \/ p.who = c /\ stage'[c] \in {"failed", "canceled"}

(* Such a step keeps the invariant. *)
LEMMA QuietSafe ==
    ASSUME SafeInv, NEW c \in Contenders, Quiet(c)
    PROVE  SafeInv'
<1> USE RWAssumption DEF Contenders, Quiet
<1>2. Shape'
  BY DEF SafeInv, Shape
<1>3. \A d \in Contenders : Has(d)' = Has(d) /\ \A x : Covers(d, x)' = Covers(d, x)
  BY EntriesStand, Zenon
<1>4. \A d \in Contenders : InUse(d)' = InUse(d)
  BY DEF InUse
<1>5. LeaseInv'
  BY <1>3, <1>4 DEF SafeInv, LeaseInv
<1>6. AskInv'
  <2> SUFFICES ASSUME NEW d \in Contenders
               PROVE  /\ answer'[d] # "none" => stage'[d] = "asking"
                      /\ stage'[d] = "asking" /\ Has(d) => Covers(d, RequestExpiry(since'[d]))
                      /\ answer'[d] = "ok" => Has(d) \/ RequestExpiry(since'[d]) <= 0
                      /\ answer'[d] = "no" \/ stage'[d] \in {"idle", "queued"} => ~Has(d)
    BY <1>3 DEF AskInv, RequestExpiry
  <2>1. CASE d = c
    BY <2>1
  <2>2. CASE d # c
    BY <2>2 DEF SafeInv, AskInv
  <2> QED
    BY <2>1, <2>2
<1>7. BeatInv'
  <2>1. \A b \in beats : b.who \in Contenders /\ b.who # c
    BY DEF SafeInv, Shape, Beat, BeatInv
  <2> QED
    BY <1>3, <1>4, <2>1 DEF SafeInv, BeatInv, RequestExpiry
<1>8. CopyInv'
  BY DEF SafeInv, Shape, Copy, CopyInv
<1>9. AloneInv'
  BY <1>4 DEF SafeInv, AloneInv, Has, RequestExpiry
<1> QED
  BY <1>2, <1>5, <1>6, <1>7, <1>8, <1>9 DEF SafeInv

(* The start of an attempt, a busy reply, the end of a call before it was      *)
(* granted, the commands of Dequeue, and the next call.                        *)
LEMMA CallSafe ==
    ASSUME SafeInv, NEW c \in Contenders,
           \/ Attempt(c) \/ ReceiveBusy(c) \/ CancelAttempt(c) \/ FailAttempt(c)
           \/ GiveUp(c) \/ DequeueZRem(c) \/ DequeueHDel(c) \/ Recycle(c)
    PROVE  SafeInv'
<1> USE RWAssumption
<1>1. /\ answer[c] # "none" => stage[c] = "asking"
      /\ stage[c] \in {"idle", "queued"} \/ answer[c] = "no" => ~Has(c)
  BY DEF SafeInv, AskInv
<1>2. /\ stage \in [Contenders -> Stages] /\ since \in [Contenders -> Int]
      /\ answer \in [Contenders -> {"none", "ok", "no"}]
      /\ copies \subseteq Copy /\ \A p \in copies : stage[p.who] \in {"failed", "canceled"}
  BY DEF SafeInv, Shape, CopyInv
<1>3. CASE Attempt(c)
  BY <1>1, <1>2, <1>3, QuietSafe DEF Attempt, Go, Stages, server, Quiet
<1>4. CASE ReceiveBusy(c)
  BY <1>1, <1>2, <1>4, QuietSafe DEF ReceiveBusy, Go, Stages, server, Quiet
<1>5. ASSUME NEW st \in {"canceled", "failed"}, stage[c] = "asking", Abort(c, st)
      PROVE  SafeInv'
  <2>1. [who |-> c, at |-> since[c]] \in Copy
    BY <1>5 DEF SafeInv, Shape, Copy
  <2> QED
    BY <1>1, <1>2, <1>5, <2>1, QuietSafe DEF Abort, Go, Stages, server, Quiet
<1>6. CASE CancelAttempt(c) \/ FailAttempt(c)
  BY <1>5, <1>6 DEF CancelAttempt, FailAttempt
<1>7. CASE GiveUp(c)
  BY <1>1, <1>2, <1>7, QuietSafe DEF GiveUp, Go, Stages, server, Quiet
<1>8. CASE DequeueZRem(c)
  BY <1>1, <1>2, <1>8, QuietSafe DEF DequeueZRem, Go, Stages, Quiet
<1>9. CASE DequeueHDel(c)
  BY <1>1, <1>2, <1>9, QuietSafe, SMTT(30) DEF DequeueHDel, Go, Stages, Quiet
<1>10. CASE Recycle(c)
  BY <1>1, <1>2, <1>10, QuietSafe DEF Recycle, Returned, Go, Stages, server, Has, Quiet
<1> QED
  BY <1>3, <1>4, <1>6, <1>7, <1>8, <1>9, <1>10, Zenon

(* Resend: the answer is forgotten, the entry it told of is not. *)
LEMMA ResendSafe ==
    ASSUME SafeInv, NEW c \in Contenders, Resend(c)
    PROVE  SafeInv'
<1> USE RWAssumption DEF Contenders
<1>1. /\ stage[c] = "asking" /\ answer' = [answer EXCEPT ![c] = "none"]
      /\ UNCHANGED <<ahead, writer, writerLeft, readers, stage, since, deadline, beats, copies>>
  BY DEF Resend, server
<1>2. /\ answer'[c] = "none" /\ \A d \in Contenders \ {c} : answer'[d] = answer[d]
      /\ answer' \in [Contenders -> {"none", "ok", "no"}]
  BY <1>1 DEF SafeInv, Shape
<1>3. \A d \in Contenders : InUse(d)' = InUse(d) /\ Has(d)' = Has(d) /\ \A x : Covers(d, x)' = Covers(d, x)
  BY <1>1 DEF Has, Covers, InUse
<1>4. Shape' /\ LeaseInv' /\ CopyInv'
  BY <1>1, <1>2, <1>3 DEF SafeInv, Shape, LeaseInv, CopyInv
<1>5. BeatInv'
  BY <1>1, <1>3 DEF SafeInv, Shape, Beat, BeatInv, RequestExpiry
<1>6. AskInv'
  BY <1>1, <1>2, <1>3, Zenon DEF SafeInv, AskInv, RequestExpiry
<1>7. AloneInv'
  BY <1>1, <1>2, <1>3 DEF SafeInv, AloneInv, RequestExpiry
<1> QED
  BY <1>4, <1>5, <1>6, <1>7 DEF SafeInv

(* ReceiveGrant: a deadline that stands is covered by the entry the grant left; *)
(* a late grant becomes no lease at all.                                        *)
LEMMA ReceiveGrantSafe ==
    ASSUME SafeInv, NEW c \in Contenders, ReceiveGrant(c)
    PROVE  SafeInv'
<1> USE RWAssumption DEF Contenders
<1> DEFINE d == RequestExpiry(since[c])
<1>1. /\ stage[c] = "asking" /\ answer[c] = "ok"
      /\ stage' = [stage EXCEPT ![c] = IF d > 0 THEN "held" ELSE "discarding"]
      /\ deadline' = [deadline EXCEPT ![c] = IF d > 0 THEN d ELSE 0]
      /\ answer' = [answer EXCEPT ![c] = "none"]
      /\ since' = [since EXCEPT ![c] = 0]
      /\ UNCHANGED <<ahead, writer, writerLeft, readers, beats, copies>>
  BY DEF ReceiveGrant, Go, server
<1>2. since[c] \in -MaxDelay .. 0 /\ d \in Int /\ d <= TTL - Margin
  BY <1>1 DEF SafeInv, Shape, RequestExpiry
<1>3. /\ Has(c) => Covers(c, d)
      /\ Has(c) \/ d <= 0
  BY <1>1 DEF SafeInv, AskInv
<1>4. /\ c \in Readers /\ writer # NoWriter => d <= 0
  BY <1>1 DEF SafeInv, AloneInv
<1> HIDE DEF d
<1>5. /\ stage'[c] = IF d > 0 THEN "held" ELSE "discarding"
      /\ deadline'[c] = IF d > 0 THEN d ELSE 0
      /\ answer'[c] = "none" /\ since'[c] = 0
      /\ \A e \in Contenders \ {c} : /\ stage'[e] = stage[e] /\ deadline'[e] = deadline[e]
                                     /\ answer'[e] = answer[e] /\ since'[e] = since[e]
  BY <1>1, Zenon DEF SafeInv, Shape
<1>6. Shape'
  <2>1. deadline' \in [Contenders -> 0 .. TTL - Margin]
    BY <1>1, <1>2 DEF SafeInv, Shape
  <2>2. stage' \in [Contenders -> Stages]
    BY <1>1 DEF SafeInv, Shape, Stages
  <2> QED
    BY <1>1, <1>5, <2>1, <2>2 DEF SafeInv, Shape
<1>7. \A e \in Contenders : Has(e)' = Has(e) /\ \A x : Covers(e, x)' = Covers(e, x)
  BY <1>1 DEF Has, Covers
<1>8. /\ \A e \in Contenders \ {c} : InUse(e)' = InUse(e)
      /\ InUse(c)' => d > 0
  BY <1>2, <1>5, Zenon DEF InUse
<1>9. LeaseInv'
  BY <1>2, <1>3, <1>5, <1>7, <1>8 DEF SafeInv, LeaseInv
<1>10. AskInv'
  BY <1>5, <1>7, Zenon DEF SafeInv, AskInv, RequestExpiry
<1>11. BeatInv' /\ CopyInv'
  <2>1. \A b \in beats : b.who \in Contenders /\ b.who # c
    BY <1>1 DEF SafeInv, Shape, Beat, BeatInv
  <2>2. \A p \in copies : p.who \in Contenders /\ p.who # c
    BY <1>1 DEF SafeInv, Shape, Copy, CopyInv
  <2> QED
    BY <1>1, <1>5, <1>7, <1>8, <2>1, <2>2 DEF SafeInv, BeatInv, CopyInv, RequestExpiry
<1>12. AloneInv'
  BY <1>1, <1>2, <1>4, <1>5, <1>8 DEF SafeInv, AloneInv, RequestExpiry
<1> QED
  BY <1>6, <1>9, <1>10, <1>11, <1>12 DEF SafeInv

(* Crash and Unlock: a lease ends, whatever is left of it on the server. *)
LEMMA EndSafe ==
    ASSUME SafeInv, NEW c \in Contenders, Crash(c) \/ Unlock(c)
    PROVE  SafeInv'
<1> USE RWAssumption
<1>1. /\ UNCHANGED <<ahead, writer, writerLeft, readers, copies>>
      /\ stage[c] \notin {"idle", "canceled", "failed", "done", "hdel"}
      /\ stage' = [stage EXCEPT ![c] = stage'[c]] /\ deadline' = [deadline EXCEPT ![c] = 0]
      /\ stage'[c] = "failed" \/ (stage[c] = "held" /\ stage'[c] = "unlocking")
      /\ answer' = [answer EXCEPT ![c] = "none"]
      /\ since' = [since EXCEPT ![c] = since'[c]] /\ since'[c] \in Int
      /\ beats' \subseteq beats /\ (stage'[c] = "failed" => \A b \in beats' : b.who # c)
  <2>1. CASE Crash(c)
    BY <2>1 DEF Crash, Go, server, SafeInv, Shape
  <2>2. CASE Unlock(c)
    <3>1. answer[c] = "none"
      BY <2>2 DEF Unlock, SafeInv, Shape, AskInv
    <3> QED
      BY <2>2, <3>1 DEF Unlock, Go, server, SafeInv, Shape
  <2> QED
    BY <2>1, <2>2
<1>2. /\ deadline'[c] = 0 /\ answer'[c] = "none"
      /\ \A d \in Contenders \ {c} : /\ stage'[d] = stage[d] /\ deadline'[d] = deadline[d]
                                     /\ answer'[d] = answer[d] /\ since'[d] = since[d]
  BY <1>1, Zenon DEF SafeInv, Shape
<1>3. Shape'
  <2>1. /\ stage' \in [Contenders -> Stages] /\ deadline' \in [Contenders -> 0 .. TTL - Margin]
        /\ since' \in [Contenders -> Int] /\ answer' \in [Contenders -> {"none", "ok", "no"}]
    BY <1>1 DEF SafeInv, Shape, Stages
  <2> QED
    BY <1>1, <1>2, <2>1 DEF SafeInv, Shape
<1>4. \A d \in Contenders : Has(d)' = Has(d) /\ \A x : Covers(d, x)' = Covers(d, x)
  BY <1>1, EntriesStand, Zenon
<1>5. ~InUse(c)' /\ \A d \in Contenders \ {c} : InUse(d)' = InUse(d)
  BY <1>2 DEF InUse
<1>6. LeaseInv'
  BY <1>2, <1>4, <1>5 DEF SafeInv, LeaseInv
<1>7. AskInv'
  BY <1>1, <1>2, <1>4 DEF SafeInv, AskInv, RequestExpiry
<1>8. BeatInv'
  <2>1. \A b \in beats : b.who \in Contenders
    BY Zenon DEF SafeInv, Shape, Beat
  <2> QED
    BY <1>1, <1>2, <1>4, <1>5, <2>1 DEF SafeInv, BeatInv, RequestExpiry
<1>9. CopyInv'
  <2>1. \A p \in copies : p.who \in Contenders /\ p.who # c
    BY <1>1, Zenon DEF SafeInv, Shape, Copy, CopyInv
  <2> QED
    BY <1>1, <1>2, <2>1 DEF SafeInv, CopyInv
<1>10. AloneInv'
  BY <1>1, <1>2, <1>5, Zenon DEF SafeInv, AloneInv, RequestExpiry, Contenders
<1> QED
  BY <1>3, <1>6, <1>7, <1>8, <1>9, <1>10, Zenon DEF SafeInv

(* Release: the entry of c goes, and no other. *)
LEMMA ReleaseSafe ==
    ASSUME SafeInv, NEW c \in Contenders, Release(c)
    PROVE  SafeInv'
<1> USE RWAssumption DEF Contenders
<1>1. /\ stage[c] \in {"unlocking", "discarding"} /\ \A b \in beats : b.who # c
      /\ writer' = IF writer = c THEN NoWriter ELSE writer
      /\ writerLeft' = IF writer = c THEN 0 ELSE writerLeft
      /\ stage' = [stage EXCEPT ![c] = stage'[c]] /\ stage'[c] \in {"done", "failed"}
      /\ UNCHANGED <<ahead, since, answer, deadline, beats, copies>>
  BY Zenon DEF Release, Remit, Go, SafeInv, Shape
<1>2. /\ DOMAIN readers' = DOMAIN readers \ {c}
      /\ \A r \in DOMAIN readers \ {c} : readers'[r] = readers[r]
      /\ readers' = [r \in DOMAIN readers \ {c} |-> readers[r]]
  BY DEF Release, Remit, Restrict
<1>3. \A d \in Contenders \ {c} : stage'[d] = stage[d]
  BY <1>1 DEF SafeInv, Shape
<1>4. Shape'
  <2>1. readers' \in [DOMAIN readers' -> -MaxDelay .. TTL + MaxAhead]
    BY <1>2 DEF SafeInv, Shape
  <2>2. stage' \in [Contenders -> Stages]
    BY <1>1 DEF SafeInv, Shape, Stages
  <2> QED
    BY <1>1, <1>2, <1>3, <2>1, <2>2 DEF SafeInv, Shape
<1>5. /\ \A d \in Contenders : Has(d)' => Has(d)
      /\ \A d \in Contenders \ {c} : Has(d)' = Has(d) /\ \A x : Covers(d, x)' = Covers(d, x)
  BY <1>1, <1>2 DEF Has, Covers
<1>6. ~InUse(c)' /\ ~InUse(c) /\ \A d \in Contenders \ {c} : InUse(d)' = InUse(d)
  BY <1>1, <1>3, Zenon DEF InUse
<1>7. LeaseInv'
  BY <1>1, <1>5, <1>6, Zenon DEF SafeInv, LeaseInv
<1>8. AskInv'
  BY <1>1, <1>3, <1>5, Zenon DEF SafeInv, AskInv, RequestExpiry
<1>9. BeatInv' /\ CopyInv'
  <2>1. \A b \in beats : b.who \in Contenders
    BY DEF SafeInv, Shape, Beat
  <2>2. \A p \in copies : p.who \in Contenders /\ p.who # c
    BY <1>1, Zenon DEF SafeInv, Shape, Copy, CopyInv
  <2> QED
    BY <1>1, <1>3, <1>5, <1>6, <2>1, <2>2 DEF SafeInv, BeatInv, CopyInv, RequestExpiry
<1>10. AloneInv'
  BY <1>1, <1>2, <1>3, <1>6 DEF SafeInv, AloneInv, RequestExpiry
<1> QED
  BY <1>4, <1>7, <1>8, <1>9, <1>10 DEF SafeInv

(* StartRenew: a renewal sent now asks for no less than was confirmed. *)
LEMMA StartRenewSafe ==
    ASSUME SafeInv, NEW c \in Contenders, StartRenew(c)
    PROVE  SafeInv'
<1> USE RWAssumption
<1> DEFINE n == [who |-> c, at |-> 0, st |-> "sent"]
<1>1. /\ stage[c] = "held" /\ \A b \in beats : b.who # c
      /\ beats' = beats \cup {n}
      /\ UNCHANGED <<ahead, writer, writerLeft, readers, stage, since, answer, deadline, copies>>
  BY DEF StartRenew, server
<1>2. n \in Beat /\ n.who = c /\ n.at = 0 /\ n.st = "sent"
  BY DEF Beat
<1> HIDE DEF n
<1>3. \A d \in Contenders : InUse(d)' = InUse(d) /\ Has(d)' = Has(d) /\ \A x : Covers(d, x)' = Covers(d, x)
  BY <1>1, EntriesStand, Zenon DEF InUse
<1>4. Shape' /\ LeaseInv' /\ AskInv' /\ CopyInv'
  BY <1>1, <1>2, <1>3 DEF SafeInv, Shape, LeaseInv, AskInv, CopyInv, RequestExpiry
<1>5. BeatInv'
  <2>1. \A b \in beats : b.who \in Contenders
    BY DEF SafeInv, Shape, Beat
  <2>2. deadline[c] <= RequestExpiry(0)
    BY DEF SafeInv, Shape, RequestExpiry
  <2> QED
    BY <1>1, <1>2, <1>3, <2>1, <2>2 DEF SafeInv, BeatInv, RequestExpiry
<1>6. AloneInv'
  BY <1>1, <1>3 DEF SafeInv, AloneInv, RequestExpiry, Contenders
<1> QED
  BY <1>4, <1>5, <1>6, Zenon DEF SafeInv

(* ServeRenew: an entry of its owner is extended from the start of the renewal. *)
LEMMA ServeRenewSafe ==
    ASSUME SafeInv, NEW b \in beats, ServeRenew(b)
    PROVE  SafeInv'
<1> USE RWAssumption DEF Contenders
<1> DEFINE c == b.who
           n == [b EXCEPT !.st = IF Owned(b) THEN "ok" ELSE "no"]
<1>1. /\ beats' = (beats \ {b}) \cup {n}
      /\ writerLeft' = IF writer = c THEN TTL ELSE writerLeft
      /\ readers' = IF c \in Readers /\ Owned(b)
                    THEN [readers EXCEPT ![c] = b.at + ahead[c] + TTL] ELSE readers
      /\ UNCHANGED <<ahead, writer, stage, since, answer, deadline, copies>>
  BY DEF ServeRenew
<1>2. /\ c \in Contenders /\ b.at \in -MaxDelay .. 0 /\ ahead[c] \in 0 .. MaxAhead
      /\ n \in Beat /\ n.who = c /\ n.at = b.at /\ (n.st = "ok" <=> Owned(b))
      /\ stage[c] \in {"held", "unlocking"}
  BY DEF SafeInv, Shape, Beat, BeatInv
<1>3. \A d \in beats \ {b} : d.who # c /\ d.who \in Contenders
  BY DEF SafeInv, Shape, Beat, BeatInv
<1>4. /\ writer \in Writers \cup {NoWriter} /\ DOMAIN readers \subseteq Readers
      /\ readers \in [DOMAIN readers -> -MaxDelay .. TTL + MaxAhead]
  BY DEF SafeInv, Shape
<1> HIDE DEF c, n
<1>5. Owned(b) => IF c \in Writers THEN writer = c ELSE c \in DOMAIN readers
  BY DEF Owned, Unexpired, c
<1>6. /\ DOMAIN readers' = DOMAIN readers
      /\ \A r \in DOMAIN readers \ {c} : readers'[r] = readers[r]
      /\ readers' \in [DOMAIN readers -> -MaxDelay .. TTL + MaxAhead]
      /\ c \in Readers /\ Owned(b) => readers'[c] = b.at + ahead[c] + TTL
      /\ ~Owned(b) => readers' = readers
      /\ c \in Writers => readers' = readers
  BY <1>1, <1>2, <1>4, <1>5
<1>7. Shape'
  BY <1>1, <1>2, <1>4, <1>6 DEF SafeInv, Shape
<1>8. \A d \in Contenders : InUse(d)' = InUse(d) /\ Has(d)' = Has(d)
  BY <1>1, <1>6 DEF Has, InUse
<1>9. \A d \in Contenders \ {c} : \A x : Covers(d, x)' = Covers(d, x)
  BY <1>1, <1>6 DEF Covers
<1>10. Owned(b) => Covers(c, RequestExpiry(b.at))'
  BY <1>1, <1>2, <1>5, <1>6 DEF Covers, RequestExpiry
<1>11. ~Owned(b) => \A x : Covers(c, x)' = Covers(c, x)
  <2>1. ~Owned(b) => writer # c
    BY <1>2, <1>4 DEF Owned, c
  <2> QED
    BY <1>1, <1>6, <2>1, Zenon DEF Covers
<1>12. LeaseInv'
  <2> SUFFICES ASSUME NEW d \in Contenders, InUse(d)
               PROVE  Covers(d, deadline[d])'
    BY <1>8 DEF LeaseInv
  <2>1. Covers(d, deadline[d]) /\ deadline[d] \in Int
    BY DEF SafeInv, LeaseInv, Shape
  <2>2. CASE d # c \/ ~Owned(b)
    BY <1>1, <1>9, <1>11, <2>1, <2>2, Zenon
  <2>3. CASE d = c /\ Owned(b)
    <3>1. deadline[c] <= RequestExpiry(b.at) /\ RequestExpiry(b.at) \in Int
      BY <1>2, <2>3 DEF SafeInv, BeatInv, RequestExpiry, c
    <3> QED
      BY <1>1, <1>2, <1>6, <1>7, <1>10, <2>1, <2>3, <3>1 DEF Covers, Shape, RequestExpiry
  <2> QED
    BY <2>2, <2>3
<1>13. AskInv'
  <2>1. answer[c] = "none"
    BY <1>2, Zenon DEF SafeInv, Shape, AskInv
  <2> QED
    BY <1>1, <1>2, <1>8, <1>9, <2>1 DEF SafeInv, AskInv, RequestExpiry
<1>14. BeatInv'
  <2>1. InUse(c) => deadline[c] <= RequestExpiry(b.at)
    BY Zenon DEF SafeInv, BeatInv, c
  <2>2. ASSUME NEW d \in beats'
        PROVE  /\ stage[d.who] \in {"held", "unlocking"}
               /\ InUse(d.who) => /\ deadline[d.who] <= RequestExpiry(d.at)
                                  /\ d.st = "ok" => Covers(d.who, RequestExpiry(d.at))'
    <3>1. CASE d = n
      BY <1>2, <1>10, <2>1, <3>1, Zenon DEF RequestExpiry
    <3>2. CASE d \in beats \ {b}
      BY <1>3, <1>9, <3>2, Zenon DEF SafeInv, BeatInv, RequestExpiry
    <3> QED
      BY <1>1, <3>1, <3>2, Zenon
  <2>3. \A d \in beats' : d.who \in Contenders
    BY <1>1, <1>2, <1>3, Zenon
  <2>4. \A d, e \in beats' : d.who = e.who => d = e
    BY <1>1, <1>2, <1>3, Zenon DEF SafeInv, BeatInv
  <2> QED
    BY <1>1, <1>8, <2>2, <2>3, <2>4, Zenon DEF BeatInv, RequestExpiry
<1>15. CopyInv'
  BY <1>1, Zenon DEF SafeInv, CopyInv
<1>16. AloneInv'
  BY <1>1, <1>6, <1>8 DEF SafeInv, AloneInv, RequestExpiry
<1> QED
  BY <1>7, <1>12, <1>13, <1>14, <1>15, <1>16 DEF SafeInv

(* ReceiveRenew: what it confirms is covered; a failed renewal ends the lease. *)
LEMMA ReceiveRenewSafe ==
    ASSUME SafeInv, NEW b \in beats, ReceiveRenew(b)
    PROVE  SafeInv'
<1> USE RWAssumption DEF Contenders
<1> DEFINE c == b.who
           d == RequestExpiry(b.at)
<1>1. /\ beats' = beats \ {b}
      /\ deadline' = [deadline EXCEPT ![c] = IF Confirms(b) THEN Max({deadline[c], d}) ELSE 0]
      /\ UNCHANGED <<ahead, writer, writerLeft, readers, stage, since, answer, copies>>
  BY DEF ReceiveRenew, server, SafeInv, Shape, Beat
<1>2. /\ c \in Contenders /\ b.at \in -MaxDelay .. 0 /\ deadline[c] \in 0 .. TTL - Margin
      /\ d \in Int /\ d <= TTL - Margin
  BY DEF SafeInv, Shape, Beat, RequestExpiry
<1>3. Confirms(b) => b.st = "ok" /\ deadline[c] > 0 /\ d > 0
  BY DEF Confirms
<1>4. InUse(c) => deadline[c] <= d /\ (b.st = "ok" => Covers(c, d))
  BY DEF SafeInv, BeatInv
<1> HIDE DEF c, d
<1>5. /\ Max({deadline[c], d}) \in {deadline[c], d}
      /\ Max({deadline[c], d}) >= deadline[c] /\ Max({deadline[c], d}) >= d
  <2>1. \E m \in {deadline[c], d} : \A k \in {deadline[c], d} : m >= k
    BY <1>2
  <2> QED
    BY <2>1 DEF Max
<1>6. /\ deadline'[c] \in 0 .. TTL - Margin /\ deadline'[c] > 0 => Confirms(b)
      /\ deadline'[c] = IF Confirms(b) THEN Max({deadline[c], d}) ELSE 0
      /\ \A e \in Contenders \ {c} : deadline'[e] = deadline[e]
      /\ deadline' \in [Contenders -> 0 .. TTL - Margin]
  BY <1>1, <1>2, <1>3, <1>5 DEF SafeInv, Shape
<1>7. /\ \A e \in Contenders \ {c} : InUse(e)' = InUse(e)
      /\ InUse(c)' => InUse(c) /\ b.st = "ok" /\ deadline'[c] = d
  <2>1. InUse(c)' => InUse(c) /\ b.st = "ok" /\ deadline'[c] = Max({deadline[c], d})
    BY <1>1, <1>2, <1>3, <1>6 DEF InUse
  <2> QED
    BY <1>1, <1>2, <1>4, <1>5, <1>6, <2>1 DEF InUse
<1>8. \A e \in Contenders : Has(e)' = Has(e) /\ \A x : Covers(e, x)' = Covers(e, x)
  BY <1>1, EntriesStand, Zenon
<1>9. Shape'
  BY <1>1, <1>6, Zenon DEF SafeInv, Shape
<1>10. LeaseInv'
  BY <1>4, <1>6, <1>7, <1>8, Zenon DEF SafeInv, LeaseInv
<1>11. AskInv' /\ CopyInv'
  BY <1>1, <1>8, Zenon DEF SafeInv, AskInv, CopyInv, RequestExpiry
<1>12. BeatInv'
  <2>1. \A e \in beats' : e \in beats /\ e.who \in Contenders /\ e.who # c
    BY <1>1, Zenon DEF SafeInv, Shape, Beat, BeatInv, c
  <2> QED
    BY <1>1, <1>6, <1>7, <1>8, <2>1 DEF SafeInv, BeatInv, RequestExpiry
<1>13. AloneInv'
  BY <1>1, <1>7 DEF SafeInv, AloneInv, RequestExpiry
<1> QED
  BY <1>9, <1>10, <1>11, <1>12, <1>13, Zenon DEF SafeInv

(* Tick moves the start of every attempt and of every backoff. *)
LEMMA TickSince ==
    ASSUME since \in [Contenders -> Int], Tick
    PROVE  /\ since' \in [Contenders -> Int]
           /\ \A c \in Contenders : stage[c] \in {"asking", "queued"} => since'[c] = since[c] - 1
<1>1. since' = [c \in Contenders |->
                   CASE stage[c] \in {"asking", "queued"} -> since[c] - 1
                     [] stage[c] \in Returned -> -1
                     [] OTHER -> 0]
  BY DEF Tick
<1>2. ASSUME NEW c \in Contenders
      PROVE  since'[c] \in Int /\ (stage[c] \in {"asking", "queued"} => since'[c] = since[c] - 1)
  <2>1. CASE stage[c] \in {"asking", "queued"}
    <3>1. stage[c] \notin Returned
      BY <2>1 DEF Returned
    <3>2. since'[c] = since[c] - 1
      BY <1>1, <2>1, <3>1, Zenon
    <3> QED
      BY <3>2
  <2>2. CASE stage[c] \in Returned
    <3>1. stage[c] \notin {"asking", "queued"}
      BY <2>2 DEF Returned
    <3>2. since'[c] = -1
      BY <1>1, <2>2, <3>1, Zenon
    <3> QED
      BY <3>1, <3>2
  <2>3. CASE stage[c] \notin {"asking", "queued"} /\ stage[c] \notin Returned
    <3>1. since'[c] = 0
      BY <1>1, <2>3, Zenon
    <3> QED
      BY <2>3, <3>1
  <2> QED
    BY <2>1, <2>2, <2>3
<1> QED
  BY <1>1, <1>2

(* Tick: a deadline and the entry that covers it move together, and an entry   *)
(* never moves further than time does.                                         *)
LEMMA TickSafe ==
    ASSUME SafeInv, Tick
    PROVE  SafeInv'
<1> USE RWAssumption
<1>1. /\ deadline' = [c \in Contenders |-> Later(deadline[c], 0)]
      /\ beats' = {[b EXCEPT !.at = @ - 1] : b \in beats}
      /\ copies' = {[p EXCEPT !.at = @ - 1] : p \in {q \in copies : q.at > -MaxDelay}}
      /\ writerLeft' = Later(writerLeft, 0)
      /\ writer' = IF writerLeft = 1 THEN NoWriter ELSE writer
      /\ readers' = [r \in DOMAIN readers |-> Later(readers[r], -MaxDelay)]
      /\ UNCHANGED <<ahead, stage, answer>>
  BY DEF Tick
<1>2. /\ \A c \in Contenders : stage[c] = "asking" => since[c] > -MaxDelay
      /\ \A b \in beats : b.at > -MaxDelay
  BY Zenon DEF Tick
<1>3. /\ ahead \in [Contenders -> 0 .. MaxAhead]
      /\ writer \in Writers \cup {NoWriter} /\ writerLeft \in 0 .. TTL
      /\ (writer = NoWriter <=> writerLeft = 0)
      /\ DOMAIN readers \subseteq Readers
      /\ readers \in [DOMAIN readers -> -MaxDelay .. TTL + MaxAhead]
      /\ since \in [Contenders -> Int] /\ deadline \in [Contenders -> 0 .. TTL - Margin]
      /\ beats \subseteq Beat /\ copies \subseteq Copy
      /\ \A c \in Contenders : stage[c] = "asking" => since[c] \in -MaxDelay .. 0
  BY DEF SafeInv, Shape
<1>4. since' \in [Contenders -> Int] /\ \A c \in Contenders : stage[c] = "asking" => since'[c] = since[c] - 1
  BY <1>3, TickSince
<1>5. \A c \in Contenders : /\ deadline'[c] = Later(deadline[c], 0)
                            /\ deadline'[c] \in 0 .. TTL - Margin
                            /\ deadline'[c] > 0 => deadline[c] > 1 /\ deadline'[c] = deadline[c] - 1
  BY <1>1, <1>3 DEF Later
<1>6. /\ DOMAIN readers' = DOMAIN readers
      /\ readers' \in [DOMAIN readers -> -MaxDelay .. TTL + MaxAhead]
      /\ \A r \in DOMAIN readers : readers'[r] >= readers[r] - 1
  BY <1>1, <1>3 DEF Later
<1>7. /\ writerLeft' \in 0 .. TTL /\ (writer' = NoWriter <=> writerLeft' = 0)
      /\ writerLeft > 1 => writer' = writer /\ writerLeft' = writerLeft - 1
      /\ writer' # NoWriter => writer' = writer /\ writerLeft > 1
  BY <1>1, <1>3 DEF Later
<1>8. \A b \in beats : [b EXCEPT !.at = @ - 1] \in Beat
  BY <1>2, <1>3 DEF Beat
<1>9. \A p \in copies : p.at > -MaxDelay => [p EXCEPT !.at = @ - 1] \in Copy
  BY <1>3 DEF Copy
<1>10. Shape'
  <2>1. beats' \subseteq Beat /\ copies' \subseteq Copy
    BY <1>1, <1>8, <1>9
  <2>2. \A c \in Contenders : stage[c] = "asking" => since'[c] \in -MaxDelay .. 0
    BY <1>2, <1>3, <1>4
  <2>3. deadline' \in [Contenders -> 0 .. TTL - Margin]
    BY <1>1, <1>5, Zenon
  <2> QED
    BY <1>1, <1>4, <1>6, <1>7, <2>1, <2>2, <2>3 DEF SafeInv, Shape
<1>11. \A c \in Contenders : /\ InUse(c)' => InUse(c) /\ deadline[c] > 1 /\ deadline'[c] = deadline[c] - 1
                             /\ Has(c)' => Has(c)
  <2>1. \A c \in Contenders : c # NoWriter
    BY DEF Contenders
  <2>2. \A c \in Contenders : Has(c)' => Has(c)
    BY <1>6, <1>7, <2>1 DEF Has
  <2>3. \A c \in Contenders : InUse(c)' => deadline'[c] > 0 /\ stage[c] = "held"
    BY <1>1 DEF InUse
  <2>4. \A c \in Contenders : deadline[c] > 1 => deadline[c] > 0
    BY <1>3
  <2> QED
    BY <1>5, <2>2, <2>3, <2>4 DEF InUse
<1>12. ASSUME NEW c \in Contenders, NEW x \in Int, Covers(c, x), x > 1 \/ Has(c)'
       PROVE  \A y \in Int : y <= x - 1 => Covers(c, y)'
  <2>1. CASE c \in Writers
    BY <1>1, <1>3, <1>6, <1>7, <1>12, <2>1 DEF Covers, Has
  <2>2. CASE c \notin Writers
    BY <1>1, <1>3, <1>6, <1>12, <2>2 DEF Covers
  <2> QED
    BY <2>1, <2>2
<1>13. LeaseInv'
  <2> SUFFICES ASSUME NEW c \in Contenders, InUse(c)'
               PROVE  Covers(c, deadline[c])'
    BY DEF LeaseInv
  <2>1. /\ Covers(c, deadline[c]) /\ deadline[c] > 1 /\ deadline'[c] = deadline[c] - 1
        /\ deadline[c] \in Int /\ deadline'[c] \in Int
    BY <1>3, <1>11 DEF SafeInv, LeaseInv
  <2>2. PICK y \in Int : y = deadline'[c]
    BY <2>1, Zenon
  <2>3. Covers(c, y)'
    BY <1>12, <2>1, <2>2
  <2> QED
    BY <2>2, <2>3
<1>14. AskInv'
  <2> SUFFICES ASSUME NEW c \in Contenders
               PROVE  /\ answer[c] # "none" => stage[c] = "asking"
                      /\ stage[c] = "asking" /\ Has(c)' => Covers(c, RequestExpiry(since[c]))'
                      /\ answer[c] = "ok" => Has(c)' \/ RequestExpiry(since'[c]) <= 0
                      /\ answer[c] = "no" \/ stage[c] \in {"idle", "queued"} => ~Has(c)'
    BY <1>1, Zenon DEF AskInv, RequestExpiry
  <2>1. /\ answer[c] # "none" => stage[c] = "asking"
        /\ stage[c] = "asking" /\ Has(c) => Covers(c, RequestExpiry(since[c]))
        /\ answer[c] = "ok" => Has(c) \/ RequestExpiry(since[c]) <= 0
        /\ answer[c] = "no" \/ stage[c] \in {"idle", "queued"} => ~Has(c)
    BY DEF SafeInv, AskInv
  <2>2. /\ RequestExpiry(since[c]) \in Int
        /\ stage[c] = "asking" => RequestExpiry(since'[c]) = RequestExpiry(since[c]) - 1
    BY <1>3, <1>4 DEF RequestExpiry
  <2>3. ASSUME stage[c] = "asking", Has(c)'
        PROVE  Covers(c, RequestExpiry(since[c]))'
    <3>1. Covers(c, RequestExpiry(since[c]))
      BY <1>11, <2>1, <2>3, Zenon
    <3>2. PICK y \in Int : y = RequestExpiry(since'[c])
      BY <2>2, <2>3
    <3>3. Covers(c, y)'
      BY <1>12, <2>2, <2>3, <3>1, <3>2
    <3> QED
      BY <3>2, <3>3, Zenon DEF RequestExpiry
  <2>4. ASSUME answer[c] = "ok", Has(c), ~Has(c)'
        PROVE  RequestExpiry(since'[c]) <= 0
    <3>1. writer = c /\ writerLeft = 1
      BY <1>1, <1>3, <1>6, <1>7, <2>4, Zenon DEF Has, Contenders
    <3>2. c \in Writers
      BY <1>3, <3>1, Zenon DEF Contenders
    <3> QED
      BY <2>1, <2>2, <2>4, <3>1, <3>2 DEF Covers
  <2> QED
    BY <1>11, <2>1, <2>2, <2>3, <2>4
<1>15. BeatInv'
  <2>1. \A b \in beats : LET n == [b EXCEPT !.at = @ - 1]
                         IN  /\ n.who = b.who /\ n.at = b.at - 1 /\ n.st = b.st
                             /\ b.who \in Contenders /\ b.at \in Int
    BY <1>3 DEF Beat
  <2>2. \A m, n \in beats' : m.who = n.who => m = n
    <3> SUFFICES ASSUME NEW m \in beats', NEW n \in beats', m.who = n.who
                 PROVE  m = n
      OBVIOUS
    <3>1. PICK a \in beats : m = [a EXCEPT !.at = @ - 1]
      BY <1>1
    <3>2. PICK b \in beats : n = [b EXCEPT !.at = @ - 1]
      BY <1>1
    <3>3. a.who = b.who
      BY <2>1, <3>1, <3>2, Zenon
    <3>4. a = b
      BY <3>3 DEF SafeInv, BeatInv
    <3> QED
      BY <3>1, <3>2, <3>4
  <2>3. ASSUME NEW n \in beats'
        PROVE  /\ stage'[n.who] \in {"held", "unlocking"}
               /\ InUse(n.who)' => /\ deadline'[n.who] <= RequestExpiry(n.at)
                                   /\ n.st = "ok" => Covers(n.who, RequestExpiry(n.at))'
    <3>1. PICK b \in beats : n = [b EXCEPT !.at = @ - 1]
      BY <1>1
    <3>2. /\ n.who = b.who /\ n.at = b.at - 1 /\ n.st = b.st /\ b.who \in Contenders /\ b.at \in Int
      BY <2>1, <3>1, Zenon
    <3>3. /\ stage[b.who] \in {"held", "unlocking"}
          /\ InUse(b.who) => /\ deadline[b.who] <= RequestExpiry(b.at)
                             /\ b.st = "ok" => Covers(b.who, RequestExpiry(b.at))
      BY Zenon DEF SafeInv, BeatInv
    <3>4. RequestExpiry(b.at) \in Int /\ RequestExpiry(n.at) = RequestExpiry(b.at) - 1
      BY <3>2 DEF RequestExpiry
    <3>5. ASSUME InUse(n.who)'
          PROVE  /\ deadline'[n.who] <= RequestExpiry(n.at)
                 /\ n.st = "ok" => Covers(n.who, RequestExpiry(n.at))'
      <4>1. /\ deadline[b.who] <= RequestExpiry(b.at) /\ deadline[b.who] > 1
            /\ deadline'[b.who] = deadline[b.who] - 1 /\ deadline[b.who] \in Int
            /\ b.st = "ok" => Covers(b.who, RequestExpiry(b.at))
        BY <1>3, <1>11, <3>2, <3>3, <3>5
      <4>2. PICK y \in Int : y = RequestExpiry(n.at)
        BY <3>4
      <4>3. n.st = "ok" => Covers(b.who, y)'
        BY <1>12, <3>2, <3>4, <4>1, <4>2
      <4> QED
        BY <3>2, <3>4, <4>1, <4>2, <4>3 DEF RequestExpiry
    <3> QED
      BY <1>1, <3>2, <3>3, <3>5
  <2> QED
    BY <2>2, <2>3 DEF BeatInv, RequestExpiry
<1>16. CopyInv'
  <2>1. \A p \in copies : [p EXCEPT !.at = @ - 1].who = p.who
    BY <1>3 DEF Copy
  <2> QED
    BY <1>1, <2>1, Zenon DEF SafeInv, CopyInv
<1>17. AloneInv'
  <2> SUFFICES ASSUME writer' # NoWriter, NEW r \in Readers
               PROVE  /\ ~InUse(r)'
                      /\ stage[r] = "asking" /\ (answer[r] = "ok" \/ r \in DOMAIN readers) =>
                            RequestExpiry(since'[r]) <= 0
    BY <1>1, <1>6 DEF AloneInv, RequestExpiry
  <2>1. writer # NoWriter /\ r \in Contenders
    BY <1>3, <1>7 DEF Contenders
  <2>2. stage[r] = "asking" => RequestExpiry(since'[r]) = RequestExpiry(since[r]) - 1
                               /\ RequestExpiry(since[r]) \in Int
    BY <1>3, <1>4, <2>1 DEF RequestExpiry
  <2> QED
    BY <1>11, <2>1, <2>2 DEF SafeInv, AloneInv
<1> QED
  BY <1>10, <1>13, <1>14, <1>15, <1>16, <1>17 DEF SafeInv

(* The invariant holds in every reachable state. *)
LEMMA SafeInvHolds == Spec => []SafeInv
<1> USE RWAssumption
<1>1. Init => SafeInv
  <2> SUFFICES ASSUME Init PROVE SafeInv
    OBVIOUS
  <2>1. DOMAIN readers = {} /\ \A c \in Contenders : c # NoWriter
    BY DEF Init, Contenders
  <2> QED
    BY <2>1 DEF Init, SafeInv, Shape, LeaseInv, AskInv, BeatInv, CopyInv, AloneInv, Has, InUse,
                Stages
<1>2. SafeInv /\ [Next]_vars => SafeInv'
  <2> SUFFICES ASSUME SafeInv, [Next]_vars PROVE SafeInv'
    OBVIOUS
  <2>1. ASSUME NEW c \in Contenders,
               \/ Attempt(c) \/ ReceiveBusy(c) \/ CancelAttempt(c) \/ FailAttempt(c)
               \/ GiveUp(c) \/ DequeueZRem(c) \/ DequeueHDel(c) \/ Recycle(c)
        PROVE  SafeInv'
    BY <2>1, CallSafe
  <2>2. ASSUME NEW c \in Contenders,
               \/ Serve(c) \/ Resend(c) \/ ReceiveGrant(c) \/ Crash(c) \/ StartRenew(c)
               \/ Unlock(c) \/ Release(c)
        PROVE  SafeInv'
    BY <2>2, ServeSafe, ResendSafe, ReceiveGrantSafe, EndSafe, StartRenewSafe, ReleaseSafe
  <2>3. ASSUME NEW b \in beats, ServeRenew(b) \/ ReceiveRenew(b)
        PROVE  SafeInv'
    BY <2>3, ServeRenewSafe, ReceiveRenewSafe
  <2>4. ASSUME NEW p \in copies, ServeCopy(p)
        PROVE  SafeInv'
    BY <2>4, ServeCopySafe
  <2>5. CASE Tick
    BY <2>5, TickSafe, Zenon
  <2>6. CASE UNCHANGED vars
    BY <2>6, Zenon DEF vars, server, client, SafeInv, Shape, LeaseInv, AskInv, BeatInv, CopyInv,
                AloneInv, Has, Covers, InUse, RequestExpiry
  <2> QED
    BY <2>1, <2>2, <2>3, <2>4, <2>5, <2>6 DEF Next
<1> QED
  BY <1>1, <1>2, PTL DEF Spec

(* A writer that may use the resource is alone with it, whatever fails, and    *)
(* however the clocks differ within the margin that requestExpiry takes off:   *)
(* a writer's entry expires by the server's clock, a reader's is purged by the *)
(* clock reading of whichever process asks.                                    *)
THEOREM WriterIsAlone == Spec => []WriterExcludes
<1> USE RWAssumption
<1>1. SafeInv => WriterExcludes
  <2> SUFFICES ASSUME SafeInv, NEW c \in Contenders, NEW d \in Contenders,
                      InUse(c), InUse(d), c # d, c \in Writers
               PROVE  FALSE
    BY Zenon DEF WriterExcludes, Contenders
  <2>1. writer = c
    BY DEF SafeInv, LeaseInv, Covers
  <2>2. CASE d \in Writers
    BY <2>1, <2>2, Zenon DEF SafeInv, LeaseInv, Covers
  <2>3. CASE d \in Readers
    BY <2>1, <2>3 DEF SafeInv, AloneInv, Contenders
  <2> QED
    BY <2>2, <2>3 DEF Contenders
<1> QED
  BY <1>1, SafeInvHolds, PTL

---------------------------------------------------------------------------
(* Lemmas for the queue: the order of a sequence without repetitions, and    *)
(* what happens to it when an element joins, leaves, or the head is cut off. *)

INSTANCE WellFoundedInduction

Precedes(s, a, b) == \E i, j \in DOMAIN s : i < j /\ s[i] = a /\ s[j] = b

(* A sequence is a function on 1 .. Len into its set. *)
LEMMA Elements ==
    ASSUME NEW S, NEW s \in Seq(S)
    PROVE  Len(s) \in Nat /\ DOMAIN s = 1 .. Len(s) /\ \A i \in 1 .. Len(s) : s[i] \in S
OBVIOUS

(* The empty sequence has no element. *)
LEMMA Nothing == Len(<<>>) = 0
OBVIOUS

(* What SubSeq takes. *)
LEMMA Slice ==
    ASSUME NEW S, NEW s, NEW a \in Int, NEW b \in Int, \A i \in a .. b : s[i] \in S
    PROVE  LET q == SubSeq(s, a, b)
           IN  /\ q \in Seq(S) /\ Len(q) = IF a <= b THEN b - a + 1 ELSE 0
               /\ \A i \in 1 .. b - a + 1 : q[i] = s[a + i - 1]
OBVIOUS

(* What Append adds. *)
LEMMA Extension ==
    ASSUME NEW S, NEW s \in Seq(S), NEW e \in S
    PROVE  LET q == Append(s, e)
           IN  /\ q \in Seq(S) /\ Len(q) = Len(s) + 1 /\ q[Len(s) + 1] = e
               /\ \A i \in 1 .. Len(s) : q[i] = s[i]
OBVIOUS

(* What a concatenation holds. *)
LEMMA Joint ==
    ASSUME NEW S, NEW u \in Seq(S), NEW v \in Seq(S)
    PROVE  LET q == u \o v
           IN  /\ q \in Seq(S) /\ Len(q) = Len(u) + Len(v)
               /\ \A i \in 1 .. Len(u) + Len(v) :
                     q[i] = IF i <= Len(u) THEN u[i] ELSE v[i - Len(u)]
OBVIOUS

(* A set of naturals that is not empty has a least element, and Min is it. *)
LEMMA MinIsLeast ==
    ASSUME NEW T \in SUBSET Nat, T # {}
    PROVE  Min(T) \in T /\ \A n \in T : Min(T) <= n
<1> DEFINE R == {p \in Nat \X Nat : p[1] < p[2]}
<1>1. IsWellFoundedOn(R, Nat)
  BY NatLessThanWellFounded DEF OpToRel
<1> HIDE DEF R
<1>2. PICK x \in T : \A y \in T : ~(<<y, x>> \in R)
  BY <1>1, WFMin, Zenon
<1>3. \A n \in T : ~(n < x)
  BY <1>2, Zenon DEF R
<1>4. x \in Nat /\ \A n \in T : n \in Nat
  OBVIOUS
<1>5. \A n \in T : x <= n
  BY <1>3, <1>4
<1> QED
  BY <1>5, Zenon DEF Min

(* What is left when the first elements are cut off. *)
LEMMA Suffix ==
    ASSUME NEW S, NEW s \in Seq(S), IsInjective(s), NEW m \in 1 .. Len(s)
    PROVE  LET q == SubSeq(s, m, Len(s))
           IN  /\ q \in Seq(S) /\ IsInjective(q) /\ q # <<>> /\ Head(q) = s[m]
               /\ Range(q) = {s[i] : i \in m .. Len(s)}
               /\ \A a, b : Precedes(s, a, b) /\ a \in Range(q) => Precedes(q, a, b)
<1> DEFINE q == SubSeq(s, m, Len(s))
<1>1. DOMAIN s = 1 .. Len(s) /\ Len(s) \in Nat /\ \A i \in 1 .. Len(s) : s[i] \in S
  BY Elements
<1>2. /\ q \in Seq(S) /\ Len(q) = Len(s) - m + 1
      /\ \A i \in 1 .. Len(s) - m + 1 : q[i] = s[m + i - 1]
  BY <1>1, Slice
<1>3. Head(q) = s[m] /\ q # <<>>
  <2>1. Len(q) >= 1 /\ q[1] = s[m]
    BY <1>1, <1>2
  <2>2. q # <<>>
    BY <2>1, Nothing
  <2> HIDE DEF q
  <2> QED
    BY <1>2, <2>1, <2>2
<1> HIDE DEF q
<1>4. DOMAIN q = 1 .. Len(s) - m + 1
  BY <1>2, Elements
<1>5. IsInjective(q)
  <2> SUFFICES ASSUME NEW i \in DOMAIN q, NEW j \in DOMAIN q, q[i] = q[j]
               PROVE  i = j
    BY Zenon DEF IsInjective
  <2>1. m + i - 1 \in DOMAIN s /\ m + j - 1 \in DOMAIN s /\ s[m + i - 1] = s[m + j - 1]
    <3>1. i \in 1 .. Len(s) - m + 1 /\ j \in 1 .. Len(s) - m + 1
      BY <1>4, Zenon
    <3>2. q[i] = s[m + i - 1] /\ q[j] = s[m + j - 1]
      BY <1>2, <3>1, Zenon
    <3>3. m + i - 1 \in 1 .. Len(s) /\ m + j - 1 \in 1 .. Len(s)
      BY <1>1, <3>1
    <3> QED
      BY <1>1, <3>2, <3>3, Zenon
  <2>2. m + i - 1 = m + j - 1
    BY <2>1 DEF IsInjective
  <2> QED
    BY <1>1, <1>4, <2>2
<1>6. \A i \in m .. Len(s) : i - m + 1 \in DOMAIN q /\ q[i - m + 1] = s[i]
  <2> TAKE i \in m .. Len(s)
  <2>1. i - m + 1 \in 1 .. Len(s) - m + 1 /\ m + (i - m + 1) - 1 = i
    BY <1>1
  <2> QED
    BY <1>2, <1>4, <2>1
<1>7. Range(q) = {s[i] : i \in m .. Len(s)}
  <2>1. \A x \in Range(q) : x \in {s[i] : i \in m .. Len(s)}
    <3> TAKE x \in Range(q)
    <3>1. PICK i \in DOMAIN q : x = q[i]
      BY DEF Range
    <3>2. m + i - 1 \in m .. Len(s) /\ x = s[m + i - 1]
      BY <1>1, <1>2, <1>4, <3>1
    <3> QED
      BY <3>2
  <2> QED
    BY <1>6, <2>1, Zenon DEF Range
<1>8. ASSUME NEW a, NEW b, Precedes(s, a, b), a \in Range(q)
      PROVE  Precedes(q, a, b)
  <2>1. PICK i \in DOMAIN s, j \in DOMAIN s : i < j /\ s[i] = a /\ s[j] = b
    BY <1>8 DEF Precedes
  <2>2. PICK k \in m .. Len(s) : a = s[k]
    BY <1>7, <1>8
  <2>3. i = k
    BY <1>1, <2>1, <2>2 DEF IsInjective
  <2>4. i \in m .. Len(s) /\ j \in m .. Len(s) /\ i - m + 1 < j - m + 1
    BY <1>1, <2>1, <2>2, <2>3
  <2> QED
    BY <1>6, <2>1, <2>4, Zenon DEF Precedes
<1> QED
  BY <1>2, <1>3, <1>5, <1>7, <1>8 DEF q

(* A new element comes last. *)
LEMMA Appended ==
    ASSUME NEW S, NEW s \in Seq(S), IsInjective(s), NEW e \in S, e \notin Range(s)
    PROVE  LET q == Append(s, e)
           IN  /\ q \in Seq(S) /\ IsInjective(q) /\ Range(q) = Range(s) \cup {e}
               /\ \A a, b : Precedes(q, a, b) <=> Precedes(s, a, b) \/ (a \in Range(s) /\ b = e)
<1> DEFINE q == Append(s, e)
<1>1. DOMAIN s = 1 .. Len(s) /\ Len(s) \in Nat
  BY Elements
<1>2. /\ q \in Seq(S) /\ Len(q) = Len(s) + 1 /\ q[Len(s) + 1] = e
      /\ \A i \in 1 .. Len(s) : q[i] = s[i]
  BY Extension
<1> HIDE DEF q
<1>3. DOMAIN q = 1 .. Len(s) + 1
  BY <1>2, Elements, Zenon
<1>4. \A i \in DOMAIN s : i \in DOMAIN q /\ q[i] = s[i] /\ s[i] # e /\ i < Len(s) + 1
  BY <1>1, <1>2, <1>3 DEF Range
<1>5. \A i \in DOMAIN q : i \in DOMAIN s \/ (i = Len(s) + 1 /\ q[i] = e)
  BY <1>1, <1>2, <1>3
<1>6. Len(s) + 1 \in DOMAIN q
  BY <1>1, <1>3
<1>7. IsInjective(q)
  BY <1>4, <1>5 DEF IsInjective
<1>8. Range(q) = Range(s) \cup {e}
  BY <1>2, <1>4, <1>5, <1>6, Zenon DEF Range
<1>9. ASSUME NEW a, NEW b, Precedes(q, a, b)
      PROVE  Precedes(s, a, b) \/ (a \in Range(s) /\ b = e)
  <2>1. PICK i \in DOMAIN q, j \in DOMAIN q : i < j /\ q[i] = a /\ q[j] = b
    BY <1>9 DEF Precedes
  <2>2. i \in DOMAIN s
    BY <1>1, <1>3, <2>1
  <2> QED
    BY <1>4, <1>5, <2>1, <2>2, Zenon DEF Precedes, Range
<1>10. ASSUME NEW a, NEW b, Precedes(s, a, b)
       PROVE  Precedes(q, a, b)
  BY <1>4, <1>10, Zenon DEF Precedes
<1>11. ASSUME NEW a \in Range(s)
       PROVE  Precedes(q, a, e)
  BY <1>2, <1>4, <1>6, Zenon DEF Precedes, Range
<1> QED
  BY <1>2, <1>7, <1>8, <1>9, <1>10, <1>11, Zenon DEF q

(* Whoever leaves changes the order of nobody else. *)
LEMMA Removed ==
    ASSUME NEW S, NEW s \in Seq(S), IsInjective(s), NEW e
    PROVE  LET q == Without(s, e)
           IN  /\ q \in Seq(S) /\ IsInjective(q) /\ Range(q) = Range(s) \ {e}
               /\ \A a, b : Precedes(q, a, b) <=> Precedes(s, a, b) /\ a # e /\ b # e
<1> DEFINE q == Without(s, e)
<1>1. DOMAIN s = 1 .. Len(s) /\ Len(s) \in Nat /\ \A i \in 1 .. Len(s) : s[i] \in S
  BY Elements, Zenon
<1>2. CASE \A i \in 1 .. Len(s) : s[i] # e
  <2>1. q = s
    BY <1>1, <1>2, Zenon DEF Without, Range
  <2> QED
    BY <1>1, <1>2, <2>1, Zenon DEF Range, Precedes
<1>3. CASE \E i \in 1 .. Len(s) : s[i] = e
  <2> DEFINE m == CHOOSE k \in DOMAIN s : s[k] = e
  <2>1. m \in 1 .. Len(s) /\ s[m] = e
    BY <1>1, <1>3, Zenon
  <2>2. q = SubSeq(s, 1, m - 1) \o SubSeq(s, m + 1, Len(s))
    BY <1>1, <1>3, Zenon DEF Without, Range
  <2> HIDE DEF m, q
  <2>3. /\ SubSeq(s, 1, m - 1) \in Seq(S) /\ Len(SubSeq(s, 1, m - 1)) = m - 1
        /\ \A i \in 1 .. m - 1 : SubSeq(s, 1, m - 1)[i] = s[i]
    <3>1. 1 \in Int /\ m - 1 \in Int /\ \A i \in 1 .. m - 1 : s[i] \in S
      BY <1>1, <2>1
    <3>2. /\ SubSeq(s, 1, m - 1) \in Seq(S)
          /\ Len(SubSeq(s, 1, m - 1)) = IF 1 <= m - 1 THEN (m - 1) - 1 + 1 ELSE 0
          /\ \A i \in 1 .. (m - 1) - 1 + 1 : SubSeq(s, 1, m - 1)[i] = s[1 + i - 1]
      BY <3>1, Slice
    <3> QED
      BY <1>1, <2>1, <3>2
  <2>4. /\ SubSeq(s, m + 1, Len(s)) \in Seq(S) /\ Len(SubSeq(s, m + 1, Len(s))) = Len(s) - m
        /\ \A i \in 1 .. Len(s) - m : SubSeq(s, m + 1, Len(s))[i] = s[m + i]
    <3>1. m + 1 \in Int /\ Len(s) \in Int /\ \A i \in m + 1 .. Len(s) : s[i] \in S
      BY <1>1, <2>1
    <3> DEFINE v == SubSeq(s, m + 1, Len(s))
    <3>2. /\ v \in Seq(S)
          /\ Len(v) = IF m + 1 <= Len(s) THEN Len(s) - (m + 1) + 1 ELSE 0
          /\ \A i \in 1 .. Len(s) - (m + 1) + 1 : v[i] = s[m + 1 + i - 1]
      BY <3>1, Slice
    <3> HIDE DEF v
    <3>3. v \in Seq(S) /\ Len(v) = Len(s) - m
      <4>1. m \in Nat /\ m <= Len(s) /\ Len(s) \in Nat
        BY <1>1, <2>1
      <4>2. CASE ~(m + 1 <= Len(s))
        <5>1. Len(v) = 0
          BY <3>2, <4>2, Zenon
        <5> QED
          BY <3>2, <4>1, <4>2, <5>1
      <4>3. CASE m + 1 <= Len(s)
        <5>1. Len(v) = Len(s) - (m + 1) + 1
          BY <3>2, <4>3, Zenon
        <5> QED
          BY <3>2, <4>1, <5>1
      <4> QED
        BY <4>1, <4>2, <4>3
    <3>4. ASSUME NEW i \in 1 .. Len(s) - m PROVE v[i] = s[m + i]
      <4>1. i \in 1 .. Len(s) - (m + 1) + 1 /\ m + 1 + i - 1 = m + i
        BY <1>1, <2>1
      <4> QED
        BY <3>2, <4>1
    <3> QED
      BY <3>3, <3>4, SMTT(30) DEF v
  <2>5. /\ q \in Seq(S) /\ Len(q) = Len(s) - 1
        /\ \A i \in 1 .. Len(s) - 1 : q[i] = IF i < m THEN s[i] ELSE s[i + 1]
    <3> DEFINE u == SubSeq(s, 1, m - 1)
               v == SubSeq(s, m + 1, Len(s))
    <3>1. /\ u \in Seq(S) /\ Len(u) = m - 1 /\ \A i \in 1 .. m - 1 : u[i] = s[i]
          /\ v \in Seq(S) /\ Len(v) = Len(s) - m /\ \A i \in 1 .. Len(s) - m : v[i] = s[m + i]
          /\ q = u \o v
      BY <2>2, <2>3, <2>4, Zenon
    <3> HIDE DEF u, v
    <3>2. /\ q \in Seq(S) /\ Len(q) = Len(u) + Len(v)
          /\ \A i \in 1 .. Len(u) + Len(v) : q[i] = IF i <= Len(u) THEN u[i] ELSE v[i - Len(u)]
      BY <3>1, Joint, Zenon
    <3> QED
      BY <1>1, <2>1, <3>1, <3>2
  <2>6. DOMAIN q = 1 .. Len(s) - 1
    BY <2>5, Elements
  <2> DEFINE from(i) == IF i < m THEN i ELSE i + 1
             to(i) == IF i < m THEN i ELSE i - 1
  <2>7. \A i \in DOMAIN q : from(i) \in DOMAIN s /\ q[i] = s[from(i)] /\ from(i) # m
    BY <1>1, <2>1, <2>5, <2>6
  <2>8. \A i \in DOMAIN s : i # m => to(i) \in DOMAIN q /\ q[to(i)] = s[i]
    BY <1>1, <2>1, <2>5, <2>6
  <2>9. \A i, j \in DOMAIN q : (i < j => from(i) < from(j)) /\ (from(i) = from(j) => i = j)
    BY <1>1, <2>1, <2>6
  <2>10. \A i, j \in DOMAIN s : i < j /\ i # m /\ j # m => to(i) < to(j)
    BY <1>1, <2>1
  <2> HIDE DEF from, to
  <2>11. \A i \in DOMAIN s : s[i] = e <=> i = m
    BY <1>1, <2>1, Zenon DEF IsInjective
  <2>12. IsInjective(q)
    BY <2>7, <2>9, Zenon DEF IsInjective
  <2>13. Range(q) = Range(s) \ {e}
    BY <2>7, <2>8, <2>11 DEF Range
  <2>14. ASSUME NEW a, NEW b
         PROVE  Precedes(q, a, b) <=> Precedes(s, a, b) /\ a # e /\ b # e
    <3>1. ASSUME Precedes(q, a, b) PROVE Precedes(s, a, b) /\ a # e /\ b # e
      BY <2>7, <2>9, <2>11, <3>1, Zenon DEF Precedes
    <3>2. ASSUME Precedes(s, a, b), a # e, b # e PROVE Precedes(q, a, b)
      BY <2>8, <2>10, <2>11, <3>2 DEF Precedes
    <3> QED
      BY <3>1, <3>2, Zenon
  <2> QED
    BY <2>5, <2>12, <2>13, <2>14 DEF q
<1> QED
  BY <1>2, <1>3
=============================================================================
