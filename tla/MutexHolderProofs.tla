------------------------- MODULE MutexHolderProofs -------------------------
(* Proofs about MutexHolder, for any number of calls on the Mutex and any     *)
(* number of failing releases.                                                *)
EXTENDS MutexHolder, TLAPS

Stages == {"asking", "granted", "held", "releasing", "clearing", "returned"}

\* The calls whose guard was recorded, at some time, in the field.
Recorded == {c \in Calls : pc[c] \notin {"asking", "granted"}}

TypeOK ==
    /\ owner \in Calls \cup {Nil} /\ holder \in Calls \cup {Nil}
    /\ done \in [Calls -> BOOLEAN]
    /\ pc \in [Calls -> Stages]
    /\ target \in [Calls -> Calls \cup {Nil}]
    /\ failures \in Nat

\* Who is granted the lease owns it until the guard is recorded, and the field
\* and the targets only name recorded guards.
Granted ==
    /\ \A c \in Calls : pc[c] = "granted" => owner = c
    /\ \A c \in Calls : owner = c => pc[c] # "asking"
    /\ holder # Nil => holder \in Recorded
    /\ \A c \in Calls : target[c] # Nil => target[c] \in Recorded

\* A guard is done once its lease is gone for good, and only such a guard is
\* cleared.
Done ==
    /\ \A c \in Calls : done[c] => owner # c /\ c \in Recorded
    /\ \A c \in Calls : pc[c] \in {"releasing", "clearing"} => target[c] # Nil
    /\ \A c \in Calls : pc[c] = "clearing" => done[target[c]]

\* A Lock call that owns the lease has the field, releases its own guard, and
\* has not returned.
Held ==
    \A c \in Calls \ Onces : owner = c =>
        /\ pc[c] \in {"granted", "held", "releasing"}
        /\ pc[c] # "granted" => holder = c
        /\ pc[c] = "releasing" => target[c] = c

IInv == TypeOK /\ Granted /\ Done /\ Held

\* Without lost replies and expiries, whoever is between its grant and the end
\* of its release owns the lease, and releases its own guard.
Owns ==
    \A c \in Calls : pc[c] \in {"granted", "held", "releasing"} =>
        owner = c /\ (pc[c] = "releasing" => target[c] = c)

---------------------------------------------------------------------------
\* Init establishes the invariant.
LEMMA InitIInv == Init => IInv
  BY HolderAssumption
  DEF Init, IInv, TypeOK, Granted, Done, Held, Stages, Recorded

\* Every step of every call preserves the invariant when leases do not expire
\* under a call that still runs.
LEMMA NextIInv ==
  ASSUME "expiry" \notin Faults, IInv, [Next]_vars
  PROVE  IInv'
<1> USE HolderAssumption DEF IInv, Stages, Go
<1>1. ASSUME NEW c \in Calls, Acquire(c)  PROVE IInv'
  BY <1>1 DEF Acquire, TypeOK, Granted, Done, Held, Recorded
<1>2. ASSUME NEW c \in Calls, SetHolder(c)  PROVE IInv'
  BY <1>2 DEF SetHolder, TypeOK, Granted, Done, Held, Recorded
<1>3. ASSUME NEW c \in Calls, ReadHolder(c)  PROVE IInv'
  BY <1>3 DEF ReadHolder, TypeOK, Granted, Done, Held, Recorded
<1>4. ASSUME NEW c \in Calls, OnceUnlock(c)  PROVE IInv'
  BY <1>4 DEF OnceUnlock, TypeOK, Granted, Done, Held, Recorded
<1>5. ASSUME NEW c \in Calls, GuardUnlock(c)  PROVE IInv'
  <2>1. target[c] \in Calls
    BY <1>5 DEF GuardUnlock, TypeOK, Done
  <2>2. TypeOK'
    BY <1>5, <2>1 DEF GuardUnlock, TypeOK
  <2>3. Granted'
    BY <1>5, <2>1 DEF GuardUnlock, TypeOK, Granted, Recorded
  <2>4. Done'
    BY <1>5, <2>1 DEF GuardUnlock, TypeOK, Granted, Done, Recorded
  <2>5. Held'
    BY <1>5, <2>1 DEF GuardUnlock, TypeOK, Done, Held
  <2> QED  BY <2>2, <2>3, <2>4, <2>5
<1>6. ASSUME NEW c \in Calls, Fail(c)  PROVE IInv'
  BY <1>6 DEF Fail, TypeOK, Granted, Done, Held, Recorded
<1>7. ASSUME NEW c \in Calls, ClearHolder(c)  PROVE IInv'
  BY <1>7 DEF ClearHolder, TypeOK, Granted, Done, Held, Recorded
<1>8. CASE Expire
  BY <1>8 DEF Expire, TypeOK, Granted, Done, Held, Recorded
<1>9. CASE UNCHANGED vars
  BY <1>9 DEF vars, TypeOK, Granted, Done, Held, Recorded
<1> QED
  BY <1>1, <1>2, <1>3, <1>4, <1>5, <1>6, <1>7, <1>8, <1>9 DEF Next, Finished

\* The inductive invariant holds throughout.
LEMMA IInvHolds ==
  ASSUME "expiry" \notin Faults
  PROVE  Spec => []IInv
<1>1. IInv /\ [Next]_vars => IInv'
  BY NextIInv
<1> QED  BY InitIInv, <1>1, PTL DEF Spec

(* The field holder of a Mutex is kept while it is needed: Lock's SetHolder,   *)
(* the reads of Unlock and the conditional clearing after a release leave the  *)
(* guard of the Lock call that owns the lease in it, whatever releases fail.   *)
THEOREM HolderIsKept ==
  ASSUME "expiry" \notin Faults
  PROVE  Spec => []HolderKept
<1>0. Spec => []IInv
  BY IInvHolds
<1>1. IInv => HolderKept
  BY DEF IInv, Held, HolderKept
<1> QED  BY <1>0, <1>1, PTL

(* An Unlock that has returned leaves no lease of its goroutine behind.        *)
THEOREM UnlockReleases ==
  ASSUME "expiry" \notin Faults
  PROVE  Spec => []ReturnedIsReleased
<1>0. Spec => []IInv
  BY IInvHolds
<1>1. IInv => ReturnedIsReleased
  BY DEF IInv, Held, ReturnedIsReleased
<1> QED  BY <1>0, <1>1, PTL

(* As long as no reply is lost and no lease expires, Mutex.Unlock releases the *)
(* lock its goroutine acquired and no other: these two are the only ways by    *)
(* which the shared field can lead it to another goroutine's guard.            *)
THEOREM SafeUnlock ==
  ASSUME {"reply", "expiry"} \cap Faults = {}
  PROVE  Spec => []NoForeignUnlock
<1>0. Spec => []IInv
  BY IInvHolds
<1>1. Init => Owns
  BY DEF Init, Owns
<1>2. IInv /\ Owns /\ [Next]_vars => Owns'
  <2> SUFFICES ASSUME IInv, Owns, [Next]_vars  PROVE Owns'
    OBVIOUS
  <2> USE HolderAssumption DEF IInv, TypeOK, Stages, Go, Owns
  <2>1. ASSUME NEW c \in Calls, Acquire(c)  PROVE Owns'
    BY <2>1 DEF Acquire
  <2>2. ASSUME NEW c \in Calls, SetHolder(c)  PROVE Owns'
    BY <2>2 DEF SetHolder
  <2>3. ASSUME NEW c \in Calls, ReadHolder(c)  PROVE Owns'
    BY <2>3 DEF ReadHolder, Held
  <2>4. ASSUME NEW c \in Calls, OnceUnlock(c)  PROVE Owns'
    BY <2>4 DEF OnceUnlock
  <2>5. ASSUME NEW c \in Calls, GuardUnlock(c)  PROVE Owns'
    BY <2>5 DEF GuardUnlock
  <2>6. ASSUME NEW c \in Calls, Fail(c)  PROVE Owns'
    BY <2>6 DEF Fail
  <2>7. ASSUME NEW c \in Calls, ClearHolder(c)  PROVE Owns'
    BY <2>7 DEF ClearHolder
  <2>8. CASE Expire
    BY <2>8 DEF Expire
  <2>9. CASE UNCHANGED vars
    BY <2>9 DEF vars
  <2> QED
    BY <2>1, <2>2, <2>3, <2>4, <2>5, <2>6, <2>7, <2>8, <2>9 DEF Next, Finished
<1>3. Owns => NoForeignUnlock
  BY DEF Owns, NoForeignUnlock
<1> QED  BY <1>0, <1>1, <1>2, <1>3, PTL DEF Spec
=============================================================================
