-------------------------- MODULE LeaderElection ---------------------------
(* Leader: the calls of Run and TryRun on several Leader values, of which one *)
(* may serve several calls at once, the state IsLeader and FencingToken read, *)
(* and the cleanup at the end of runHeld.                                     *)
(*                                                                            *)
(* The lease is the one of SingleOwner, with what is shown there: the server  *)
(* frees the key of a lease that was not released only after its local        *)
(* validity has ended, and each grant has a larger fencing token.  Nothing    *)
(* says when a process gets to run: its deadline timer may fire long after    *)
(* the key has passed to another leader.                                      *)
EXTENDS Integers

CONSTANTS
    Runs,       \* calls of Run and TryRun
    Leaders,    \* Leader values
    HandleOf,   \* the Leader value of each call
    Nobody,     \* no lease
    Loop,       \* does a heartbeat or a watchdog run?
    Stalls,     \* may a call be suspended for a TTL before fn starts?
    MaxToken    \* bound: the number of grants

ASSUME LeaderAssumption ==
    /\ HandleOf \in [Runs -> Leaders] /\ Nobody \notin Runs
    /\ {Loop, Stalls} \subseteq BOOLEAN /\ MaxToken \in Nat

VARIABLES
    owner,      \* who the server takes for the leader
    counter,    \* the fencing counter
    pc,         \* where each call is
    valid,      \* valid[r]: the local deadline of the lease has not passed
    lost,       \* lost[r]: lostCtx is canceled
    canceled,   \* canceled[r]: leadCtx, the one fn was given, is canceled
    token,      \* token[r]: the fencing token of the lease
    active,     \* active[l]: the field of the Leader value
    fence,      \* fence[l]: the field of the Leader value
    result,     \* result[r]: the errors runHeld joins to the one of fn
    overtaken   \* history: another call was granted leadership while fn ran

vars == <<owner, counter, pc, valid, lost, canceled, token, active, fence,
          result, overtaken>>

Init ==
    /\ owner = Nobody /\ counter = 0
    /\ pc = [r \in Runs |-> "idle"]
    /\ valid = [r \in Runs |-> FALSE]
    /\ lost = [r \in Runs |-> FALSE]
    /\ canceled = [r \in Runs |-> FALSE]
    /\ token = [r \in Runs |-> 0]
    /\ active = [l \in Leaders |-> Nobody]
    /\ fence = [l \in Leaders |-> 0]
    /\ result = [r \in Runs |-> {}]
    /\ overtaken = [r \in Runs |-> FALSE]

Go(r, p) == pc' = [pc EXCEPT ![r] = p]

Joined(r, error) == [result EXCEPT ![r] = @ \cup {error}]

---------------------------------------------------------------------------
(* Acquisition.                                                             *)

Call(r) ==
    /\ pc[r] = "idle"
    /\ Go(r, "asking")
    /\ UNCHANGED <<owner, counter, valid, lost, canceled, token, active, fence, result, overtaken>>

Grant(r) ==
    /\ pc[r] = "asking" /\ owner = Nobody /\ counter < MaxToken
    /\ owner' = r
    /\ counter' = counter + 1
    /\ token' = [token EXCEPT ![r] = counter + 1]
    /\ valid' = [valid EXCEPT ![r] = TRUE]
    /\ lost' = [lost EXCEPT ![r] = FALSE]
    /\ canceled' = [canceled EXCEPT ![r] = FALSE]
    /\ overtaken' = [q \in Runs |-> overtaken[q] \/ pc[q] = "leading"]
    /\ Go(r, "granted")
    /\ UNCHANGED <<active, fence, result>>

\* TryRun finds another leader; the context of Run ends; or the request fails.
GiveUp(r) ==
    /\ pc[r] = "asking"
    /\ Go(r, "idle")
    /\ UNCHANGED <<owner, counter, valid, lost, canceled, token, active, fence, result, overtaken>>

\* The request fails although the server granted it: the key is nobody's.
LoseGrant(r) ==
    /\ pc[r] = "asking" /\ owner = Nobody /\ counter < MaxToken
    /\ owner' = r
    /\ counter' = counter + 1
    /\ Go(r, "idle")
    /\ UNCHANGED <<valid, lost, canceled, token, active, fence, result, overtaken>>

---------------------------------------------------------------------------
(* runHeld.                                                                 *)

Register(r) ==
    /\ pc[r] = "granted"
    /\ active' = [active EXCEPT ![HandleOf[r]] = r]
    /\ fence' = [fence EXCEPT ![HandleOf[r]] = token[r]]
    /\ Go(r, "registered")
    /\ UNCHANGED <<owner, counter, valid, lost, canceled, token, result, overtaken>>

\* The loop is started, which checks the deadline once, and fn is called.
Begin(r) ==
    /\ pc[r] = "registered"
    /\ lost' = [lost EXCEPT ![r] = Loop /\ ~valid[r]]
    /\ Go(r, "leading")
    /\ UNCHANGED <<owner, counter, valid, canceled, token, active, fence, result, overtaken>>

\* The deadline timer of the handle, or a renewal that was refused.
Notice(r) ==
    /\ Loop /\ pc[r] \in {"leading", "stopping"} /\ ~valid[r] /\ ~lost[r]
    /\ lost' = [lost EXCEPT ![r] = TRUE]
    /\ UNCHANGED <<owner, counter, pc, valid, canceled, token, active, fence, result, overtaken>>

\* Mutant: only the end of the parent context reaches fn.
RelayNothing(r) == FALSE /\ UNCHANGED vars

\* AfterFunc on lostCtx.
Relay(r) ==
    /\ pc[r] = "leading" /\ lost[r] /\ ~canceled[r]
    /\ canceled' = [canceled EXCEPT ![r] = TRUE]
    /\ UNCHANGED <<owner, counter, pc, valid, lost, token, active, fence, result, overtaken>>

\* The context given to Run ends.
CancelParent(r) ==
    /\ pc[r] = "leading" /\ ~canceled[r]
    /\ canceled' = [canceled EXCEPT ![r] = TRUE]
    /\ UNCHANGED <<owner, counter, pc, valid, lost, token, active, fence, result, overtaken>>

\* fn returns, at any time; lostCtx decides on ErrLeadershipLost.
Return(r) ==
    /\ pc[r] = "leading"
    /\ result' = IF lost[r] THEN Joined(r, "leadership lost") ELSE result
    /\ Go(r, "stopping")
    /\ UNCHANGED <<owner, counter, valid, lost, canceled, token, active, fence, overtaken>>

\* Mutant: the heartbeat goes on after fn has returned.
StopLeaksLoop(r) ==
    /\ pc[r] = "stopping"
    /\ lost' = [lost EXCEPT ![r] = TRUE]
    /\ canceled' = [canceled EXCEPT ![r] = TRUE]
    /\ Go(r, "releasing")
    /\ UNCHANGED <<owner, counter, valid, token, active, fence, result, overtaken>>

\* The deferred functions, in the reverse order: stop, release, clear.
Stop(r) ==
    /\ pc[r] = "stopping"
    /\ valid' = [valid EXCEPT ![r] = FALSE]
    /\ lost' = [lost EXCEPT ![r] = TRUE]
    /\ canceled' = [canceled EXCEPT ![r] = TRUE]
    /\ Go(r, "releasing")
    /\ UNCHANGED <<owner, counter, token, active, fence, result, overtaken>>

\* Mutant: the key is deleted without a look at whose it is.
ReleaseAnyones(r) ==
    /\ pc[r] = "releasing"
    /\ \/ owner' = Nobody /\ result' \in {result, Joined(r, "release")}
       \/ owner' = owner /\ result' = Joined(r, "release")
    /\ Go(r, "clearing")
    /\ UNCHANGED <<counter, valid, lost, canceled, token, active, fence, overtaken>>

\* Mutant: what release returns is dropped.
ReleaseSilently(r) ==
    /\ pc[r] = "releasing"
    /\ owner' \in {owner, IF owner = r THEN Nobody ELSE owner}
    /\ Go(r, "clearing")
    /\ UNCHANGED <<counter, valid, lost, canceled, token, active, fence, result, overtaken>>

\* The key is deleted if it is still ours, and the reply may be lost.  Otherwise
\* ErrLost, or the error of a command that was not executed, is returned.
Release(r) ==
    /\ pc[r] = "releasing"
    /\ \/ owner = r /\ owner' = Nobody /\ result' \in {result, Joined(r, "release")}
       \/ owner' = owner /\ result' = Joined(r, "release")
    /\ Go(r, "clearing")
    /\ UNCHANGED <<counter, valid, lost, canceled, token, active, fence, overtaken>>

\* Mutant: a newer leadership is forgotten too.
ClearAlways(r) ==
    /\ pc[r] = "clearing"
    /\ active' = [active EXCEPT ![HandleOf[r]] = Nobody]
    /\ fence' = [fence EXCEPT ![HandleOf[r]] = 0]
    /\ Go(r, "idle")
    /\ result' = [result EXCEPT ![r] = {}]
    /\ overtaken' = [overtaken EXCEPT ![r] = FALSE]
    /\ UNCHANGED <<owner, counter, valid, lost, canceled, token>>

\* The last deferred function, after which the call is over.
Clear(r) ==
    /\ pc[r] = "clearing"
    /\ LET l == HandleOf[r]
       IN  IF active[l] = r
           THEN /\ active' = [active EXCEPT ![l] = Nobody]
                /\ fence' = [fence EXCEPT ![l] = 0]
           ELSE UNCHANGED <<active, fence>>
    /\ Go(r, "idle")
    /\ result' = [result EXCEPT ![r] = {}]
    /\ overtaken' = [overtaken EXCEPT ![r] = FALSE]
    /\ UNCHANGED <<owner, counter, valid, lost, canceled, token>>

---------------------------------------------------------------------------
(* The lease.                                                               *)

\* The local deadline passes: no renewal was confirmed in time.
Expire(r) ==
    /\ valid[r] /\ pc[r] \in {"granted", "registered", "leading", "stopping"}
    /\ pc[r] \in {"granted", "registered"} => Stalls
    /\ valid' = [valid EXCEPT ![r] = FALSE]
    /\ UNCHANGED <<owner, counter, pc, lost, canceled, token, active, fence, result, overtaken>>

\* The process dies, and its Leader value with it.
Crash(r) ==
    /\ pc[r] \in {"granted", "registered", "leading", "stopping", "releasing"}
    /\ \A q \in Runs \ {r} : HandleOf[q] # HandleOf[r]
    /\ Go(r, "crashed")
    /\ valid' = [valid EXCEPT ![r] = FALSE]
    /\ active' = [active EXCEPT ![HandleOf[r]] = Nobody]
    /\ fence' = [fence EXCEPT ![HandleOf[r]] = 0]
    /\ UNCHANGED <<owner, counter, lost, canceled, token, result, overtaken>>

\* The key expires, after the local deadline.  The process may not have run since.
ServerExpire ==
    /\ owner # Nobody /\ ~valid[owner]
    /\ owner' = Nobody
    /\ UNCHANGED <<counter, pc, valid, lost, canceled, token, active, fence, result, overtaken>>

Next ==
    \/ \E r \in Runs :
          \/ Call(r) \/ Grant(r) \/ GiveUp(r) \/ LoseGrant(r)
          \/ Register(r) \/ Begin(r) \/ Notice(r) \/ Relay(r) \/ CancelParent(r)
          \/ Return(r) \/ Stop(r) \/ Release(r) \/ Clear(r)
          \/ Expire(r) \/ Crash(r)
    \/ ServerExpire

Spec == Init /\ [][Next]_vars

(* The goroutines run, timers fire, keys expire, and a callback returns once  *)
(* its context is canceled.                                                   *)
Fairness ==
    /\ WF_vars(ServerExpire)
    /\ \A r \in Runs :
          /\ WF_vars(Grant(r)) /\ WF_vars(Register(r)) /\ WF_vars(Begin(r))
          /\ WF_vars(Notice(r)) /\ WF_vars(Relay(r)) /\ WF_vars(canceled[r] /\ Return(r))
          /\ WF_vars(Stop(r)) /\ WF_vars(Release(r)) /\ WF_vars(Clear(r))

FairSpec == Spec /\ Fairness

---------------------------------------------------------------------------
IsLeader(l) == active[l] # Nobody /\ ~lost[active[l]]

FencingToken(l) == IF IsLeader(l) THEN fence[l] ELSE 0

(* While fn runs and its lease stands, the Leader value says so and gives out  *)
(* the token of that very leadership, although earlier calls on the same value *)
(* may still be cleaning up after theirs.                                      *)
LeaderKnown ==
    \A r \in Runs : pc[r] = "leading" /\ valid[r] =>
        IsLeader(HandleOf[r]) /\ FencingToken(HandleOf[r]) = token[r]

(* Several Leader values may claim to lead at once: one whose lease has run    *)
(* out claims it until its process gets to run the timer.  Their tokens tell   *)
(* them apart: they differ, the leader the server knows gives out the largest, *)
(* and none of the others has a lease that stands.                             *)
ClaimsAreFenced ==
    \A l, m \in Leaders : l # m /\ IsLeader(l) /\ IsLeader(m) =>
        /\ FencingToken(l) # FencingToken(m)
        /\ active[l] = owner => FencingToken(m) < FencingToken(l) /\ ~valid[active[m]]

(* A call whose fn was overtaken by another leader never returns as if nothing *)
(* had happened, with or without a loop and however late the timer is: when    *)
(* the look at lostCtx comes too early to see the loss, release reports it.    *)
TakeoverSurfaces ==
    \A r \in Runs : overtaken[r] /\ pc[r] = "clearing" => result[r] # {}

(* "If the lease was lost before fn completed, its error also matches          *)
(* ErrLeadershipLost": at least when another leader took over meanwhile.  This *)
(* is more than the code gives.                                                *)
TakeoverReported ==
    \A r \in Runs : overtaken[r] /\ pc[r] = "clearing" => "leadership lost" \in result[r]

Places == {"idle", "asking", "granted", "registered", "leading", "stopping",
           "releasing", "clearing", "crashed"}

TypeOK ==
    /\ owner \in Runs \cup {Nobody} /\ counter \in Nat
    /\ pc \in [Runs -> Places]
    /\ valid \in [Runs -> BOOLEAN] /\ lost \in [Runs -> BOOLEAN]
    /\ canceled \in [Runs -> BOOLEAN] /\ overtaken \in [Runs -> BOOLEAN]
    /\ token \in [Runs -> Nat]
    /\ active \in [Leaders -> Runs \cup {Nobody}] /\ fence \in [Leaders -> Nat]
    /\ result \in [Runs -> SUBSET {"leadership lost", "release"}]

LeaseKept(r) ==
    /\ valid[r] => owner = r /\ pc[r] \in {"granted", "registered", "leading", "stopping"}
    /\ pc[r] = "granted" => ~lost[r]
    /\ pc[r] \in {"releasing", "clearing"} => lost[r]

FieldKept(l) ==
    active[l] # Nobody =>
        /\ HandleOf[active[l]] = l
        /\ pc[active[l]] \in {"registered", "leading", "stopping", "releasing", "clearing"}
        /\ fence[l] = token[active[l]]

Prompt(r) ==
    /\ pc[r] \in {"granted", "registered"} => valid[r]
    /\ pc[r] \in {"registered", "leading"} /\ valid[r] =>
          active[HandleOf[r]] = r /\ fence[HandleOf[r]] = token[r] /\ ~lost[r]

Held == {"granted", "registered", "leading", "stopping", "releasing", "clearing"}

TokenKept(r) ==
    /\ token[r] <= counter
    /\ pc[r] \in Held => token[r] > 0 /\ (owner = r => token[r] = counter)
    /\ \A q \in Runs \ {r} : token[q] = token[r] => token[r] = 0

Told(r) ==
    overtaken[r] =>
        /\ pc[r] \notin {"idle", "asking", "granted", "registered"}
        /\ pc[r] \in {"leading", "stopping", "releasing"} => owner # r
        /\ pc[r] = "clearing" => result[r] # {}

(* The inductive invariant: a lease that stands is the server's; a field that  *)
(* is set has the token of its call, no two calls have the same one, and the   *)
(* server's leader has the newest; the key of whoever was overtaken is gone    *)
(* until release has said so; and while no call is suspended before it         *)
(* registers, the field active is that of the standing lease.                  *)
LeaderInv ==
    /\ TypeOK
    /\ \A l \in Leaders : FieldKept(l)
    /\ \A r \in Runs :
          /\ LeaseKept(r) /\ TokenKept(r) /\ Told(r)
          /\ ~Stalls => Prompt(r)

(* A callback whose lease is over has its context canceled, and returns.       *)
LossEndsWork ==
    \A r \in Runs : (pc[r] = "leading" /\ ~valid[r]) ~> (pc[r] # "leading")

(* Whoever asks to lead does so in the end, gives up, or is kept out by a      *)
(* leader whose lease stands: no failed release, crash or lost lease leaves    *)
(* the role vacant.                                                            *)
NoVacancy ==
    \A r \in Runs :
        pc[r] = "asking" ~> \/ pc[r] # "asking" \/ counter = MaxToken
                            \/ \E q \in Runs : pc[q] = "leading" /\ valid[q]
=============================================================================
