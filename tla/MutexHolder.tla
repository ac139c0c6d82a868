---------------------------- MODULE MutexHolder ----------------------------
(* The convenience methods of one Mutex value shared by several goroutines:   *)
(* Lock and TryLock record the guard they return in the field holder, and     *)
(* Mutex.Unlock releases the guard it finds there.  Once locks the same value *)
(* and releases its guard directly.  RWMutex.Unlock is the same code over     *)
(* writeHolder.                                                               *)
(*                                                                            *)
(* Each acquisition has an owner token and a guard of its own: a member of    *)
(* Calls stands for the call, its token and its guard.                        *)
EXTENDS Naturals

CONSTANTS
    Calls,      \* Lock, TryLock and Once calls, with the Unlock that follows
    Onces,      \* those of them made by Once
    Nil,        \* no guard
    Faults,     \* what happens: "command" fails, "reply" is lost, "expiry"
    MaxRetries  \* bound: the number of failing releases

ASSUME HolderAssumption ==
    /\ Onces \subseteq Calls /\ Nil \notin Calls
    /\ Faults \subseteq {"command", "reply", "expiry"} /\ MaxRetries \in Nat

VARIABLES
    owner,      \* the owner token in Redis
    holder,     \* the field of the Mutex
    done,       \* done[c]: releaseDone of the guard
    pc,         \* where each call is
    target,     \* target[c]: the guard Unlock is about to release
    failures    \* failing releases so far

vars == <<owner, holder, done, pc, target, failures>>

Init ==
    /\ owner = Nil /\ holder = Nil
    /\ done = [c \in Calls |-> FALSE]
    /\ pc = [c \in Calls |-> "asking"]
    /\ target = [c \in Calls |-> Nil]
    /\ failures = 0

Go(c, p) == pc' = [pc EXCEPT ![c] = p]

\* A busy Lock asks again after a pause, a busy TryLock returns: nothing changes.
Acquire(c) ==
    /\ pc[c] = "asking" /\ owner = Nil
    /\ owner' = c
    /\ Go(c, "granted")
    /\ UNCHANGED <<holder, done, target, failures>>

SetHolder(c) ==
    /\ pc[c] = "granted"
    /\ holder' = c
    /\ Go(c, "held")
    /\ UNCHANGED <<owner, done, target, failures>>

\* Mutex.Unlock reads the field under holderMu; without a guard it returns nil.
ReadHolder(c) ==
    /\ pc[c] = "held" /\ c \notin Onces
    /\ target' = [target EXCEPT ![c] = holder]
    /\ Go(c, IF holder = Nil THEN "returned" ELSE "releasing")
    /\ UNCHANGED <<owner, holder, done, failures>>

\* The deferred guard.Unlock of Once, when fn has returned or panicked.
OnceUnlock(c) ==
    /\ pc[c] = "held" /\ c \in Onces
    /\ target' = [target EXCEPT ![c] = c]
    /\ Go(c, "releasing")
    /\ UNCHANGED <<owner, holder, done, failures>>

\* guard.Unlock: nothing when released before, else compare-and-delete.
GuardUnlock(c) ==
    /\ pc[c] = "releasing"
    /\ LET g == target[c]
       IN  /\ done' = [done EXCEPT ![g] = TRUE]
           /\ owner' = IF ~done[g] /\ owner = g THEN Nil ELSE owner
    /\ Go(c, IF c \in Onces THEN "returned" ELSE "clearing")
    /\ UNCHANGED <<holder, target, failures>>

\* Mutant: the guard is forgotten although its release may be retried.
FailForgetful(c) ==
    /\ pc[c] = "releasing" /\ ~done[target[c]] /\ failures < MaxRetries
    /\ "command" \in Faults
    /\ failures' = failures + 1
    /\ holder' = IF holder = target[c] THEN Nil ELSE holder
    /\ Go(c, IF c \in Onces THEN "returned" ELSE "held")
    /\ UNCHANGED <<owner, done, target>>

\* The release fails, before or after it was executed: holder stays, and the
\* caller calls Unlock again.  Once drops the error.
Fail(c) ==
    /\ pc[c] = "releasing" /\ ~done[target[c]] /\ failures < MaxRetries
    /\ failures' = failures + 1
    /\ \/ "command" \in Faults /\ owner' = owner
       \/ "reply" \in Faults /\ owner = target[c] /\ owner' = Nil
    /\ Go(c, IF c \in Onces THEN "returned" ELSE "held")
    /\ UNCHANGED <<holder, done, target>>

\* Mutant: whatever the field holds by now is forgotten.
ClearAnyway(c) ==
    /\ pc[c] = "clearing"
    /\ holder' = Nil
    /\ Go(c, "returned")
    /\ UNCHANGED <<owner, done, target, failures>>

ClearHolder(c) ==
    /\ pc[c] = "clearing"
    /\ holder' = IF holder = target[c] THEN Nil ELSE holder
    /\ Go(c, "returned")
    /\ UNCHANGED <<owner, done, target, failures>>

\* The lease of a holder that does not renew it, or of a guard Once dropped.
Expire ==
    /\ owner # Nil
    /\ "expiry" \in Faults \/ pc[owner] = "returned"
    /\ owner' = Nil
    /\ UNCHANGED <<holder, done, pc, target, failures>>

\* Every call has returned and its lease is gone.
Finished ==
    /\ owner = Nil /\ \A c \in Calls : pc[c] = "returned"
    /\ UNCHANGED vars

Next ==
    \/ \E c \in Calls :
          \/ Acquire(c) \/ SetHolder(c) \/ ReadHolder(c) \/ OnceUnlock(c)
          \/ GuardUnlock(c) \/ Fail(c) \/ ClearHolder(c)
    \/ Expire
    \/ Finished

Spec == Init /\ [][Next]_vars

---------------------------------------------------------------------------
(* The field is never lost while it is needed: the guard of a Lock call that   *)
(* still owns the lease is the holder, also while an earlier Unlock is         *)
(* clearing the field and after a release that failed.                         *)
HolderKept ==
    \A c \in Calls \ Onces : owner = c /\ pc[c] \in {"held", "releasing"} => holder = c

(* "Safe unlock": a call of Unlock releases the lock its goroutine acquired,   *)
(* never one that another goroutine acquired after it.                         *)
NoForeignUnlock ==
    \A c \in Calls : pc[c] = "releasing" /\ owner = target[c] => target[c] = c

(* Unlock returns nil or ErrLost only when the lease is gone.                  *)
ReturnedIsReleased ==
    \A c \in Calls \ Onces : pc[c] = "returned" => owner # c
=============================================================================
