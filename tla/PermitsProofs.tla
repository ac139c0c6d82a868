--------------------------- MODULE PermitsProofs ---------------------------
(* Proofs about Permits, for any leases, needs, capacity, TTL, margin, drift *)
(* and time.                                                                 *)
EXTENDS Permits, TLAPS

---------------------------------------------------------------------------
(* The steps that execute no script.                                        *)

(* A lease has at most one renewal under way. *)
LEMMA OneRenewal ==
    ASSUME IndInv, SingleRenewer, NEW c \in calls, NEW d \in calls,
           c.op = "renew", d.op = "renew", c.lease = d.lease
    PROVE  c = d
<1>1. /\ c.by \in Callers /\ d.by \in Callers /\ c.lease \in Leases
      /\ c.by = "user" \/ Heartbeat[c.lease] = "renew"
      /\ d.by = "user" \/ Heartbeat[c.lease] = "renew"
  BY DEF IndInv, CallInv, TypeOK, Call
<1>2. c.by = d.by
  BY <1>1, CallAssumption, Zenon DEF SingleRenewer
<1> QED
  BY <1>2 DEF IndInv, CallInv

(* SendCall keeps the invariant: the deadline of a renewal that is sent now    *)
(* is not before the one that stands.                                          *)
LEMMA SendCallKeeps ==
    ASSUME IndInv, ~Overtaking, SingleRenewer, NEW c \in calls, SendCall(c)
    PROVE  IndInv'
<1> USE PermitAssumption, CallAssumption
<1> DEFINE d == [c EXCEPT !.at = clock[c.lease], !.st = "sent"]
           l == c.lease
<1>1. /\ c \in Call /\ c.st = "checked" /\ l \in Leases /\ clock[l] \in Nat
      /\ UNCHANGED <<now, clock, score, stage, expiresAt, ghosts>>
  BY DEF IndInv, TypeOK, Call, SendCall
<1>2. c.by # "main"
  BY <1>1 DEF Call, IndInv, CallInv
<1>3. /\ d \in Call /\ d.lease = l /\ d.by = c.by /\ d.op = c.op
      /\ d.at = clock[l] /\ d.st = "sent"
  BY <1>1, Zenon DEF Call
<1>4. CASE HasTokens(l)
  <2>1. calls' = (calls \ {c}) \cup {d} /\ lost' = lost
    BY <1>4 DEF SendCall
  <2> HIDE DEF d
  <2>2. TypeOK'
    BY <1>1, <1>3, <2>1 DEF IndInv, TypeOK
  <2>3. ClockInv' /\ SetInv'
    BY <1>1 DEF IndInv, ClockInv, SetInv, Tokens
  <2>4. CallInv'
    BY <1>1, <1>3, <2>1 DEF IndInv, TypeOK, CallInv
  <2>5. GhostInv'
    BY <1>1, <1>3, <2>1 DEF IndInv, CallInv, GhostInv
  <2>6. GrantInv'
    BY <1>1, <1>3, <2>1 DEF IndInv, CallInv, GrantInv, Idle, InUse, Expired, Deadline, Tokens
  <2>7. RenewInv'
    BY <1>1, <1>3, <2>1 DEF IndInv, TypeOK, CallInv, RenewInv, InUse, Expired, Deadline, Tokens
  <2>8. VerdictIsFinal'
    BY <1>1, <1>3, <2>1 DEF IndInv, VerdictIsFinal, InUse, Expired
  <2> QED
    BY <2>2, <2>3, <2>4, <2>5, <2>6, <2>7, <2>8 DEF IndInv
<1>5. CASE ~HasTokens(l)
  <2>1. calls' = calls \ {c} /\ lost' = lost \cup {l}
    BY <1>5 DEF SendCall
  <2>2. TypeOK' /\ ClockInv' /\ SetInv'
    BY <1>1, <2>1 DEF IndInv, TypeOK, ClockInv, SetInv, Tokens
  <2>3. CallInv'
    BY <1>1, <2>1 DEF IndInv, CallInv
  <2>4. GhostInv'
    BY <1>1, <2>1 DEF IndInv, CallInv, GhostInv
  <2>5. GrantInv'
    BY <1>1, <1>2, <2>1 DEF IndInv, CallInv, GrantInv, Idle, InUse, Expired, Deadline, Tokens
  <2>6. RenewInv'
    BY <1>1, <2>1 DEF IndInv, RenewInv, InUse, Expired, Deadline, Tokens
  <2>7. VerdictIsFinal'
    BY <1>1, <2>1 DEF IndInv, VerdictIsFinal, InUse, Expired
  <2> QED
    BY <2>2, <2>3, <2>4, <2>5, <2>6, <2>7 DEF IndInv
<1> QED
  BY <1>4, <1>5

(* ReceiveGrant keeps the invariant: a grant in time is in the sorted set,      *)
(* with a score that outlives the new deadline by the margin.                   *)
LEMMA ReceiveGrantKeeps ==
    ASSUME IndInv, ~Overtaking, SingleRenewer, NEW c \in calls, ReceiveGrant(c)
    PROVE  IndInv'
<1> USE PermitAssumption, CallAssumption
<1> DEFINE l == c.lease
           intime == Deadline(c) > clock[l]
<1>1. /\ c \in Call /\ l \in Leases /\ c.at \in Nat /\ c.op = "acquire" /\ c.st = "ok"
      /\ stage[l] = "waiting" /\ c.by = "main" /\ c.at <= clock[l] /\ clock[l] \in Nat
  BY DEF IndInv, TypeOK, CallInv, Call, ReceiveGrant
<1>2. /\ calls' = calls \ {c} /\ UNCHANGED <<now, clock, score, lost, ghosts>>
      /\ stage' = [stage EXCEPT ![l] = IF intime THEN "held" ELSE "discarding"]
      /\ expiresAt' = IF intime THEN [expiresAt EXCEPT ![l] = Deadline(c)] ELSE expiresAt
  BY DEF ReceiveGrant
<1>3. Deadline(c) \in Int /\ (intime => Deadline(c) \in Nat) /\ Deadline(c) + Margin = c.at + TTL
  BY <1>1 DEF Deadline
<1>4. \A d \in calls : d.lease = l => d = c
  <2> SUFFICES ASSUME NEW d \in calls, d.lease = l PROVE d.by = "main"
    BY <1>1 DEF IndInv, CallInv
  <2>1. d.op \in {"acquire", "renew", "held", "release"}
    BY DEF IndInv, TypeOK, Call
  <2> QED
    BY <1>1, <2>1 DEF IndInv, CallInv, Guarded
<1>5. \A g \in ghosts : g.lease # l
  <2> SUFFICES ASSUME NEW g \in ghosts, g.lease = l PROVE FALSE
    OBVIOUS
  <2>1. g.op \in {"acquire", "renew", "release"}
    BY DEF IndInv, TypeOK, Request
  <2> QED
    BY <1>1, <1>4, <2>1 DEF IndInv, GhostInv, Guarded
<1>6. \A m \in Leases : m # l => /\ stage'[m] = stage[m] /\ expiresAt'[m] = expiresAt[m]
                                 /\ InUse(m)' = InUse(m)
  BY <1>1, <1>2 DEF IndInv, TypeOK, InUse, Expired
<1>7. /\ stage'[l] \in {"held", "discarding"}
      /\ stage'[l] = "held" => intime
      /\ intime => expiresAt'[l] = Deadline(c)
      /\ ~intime => expiresAt'[l] = expiresAt[l]
  BY <1>1, <1>2 DEF IndInv, TypeOK
<1>8. TypeOK'
  <2>1. stage' \in [Leases -> Stages]
    BY <1>1, <1>2 DEF IndInv, TypeOK, Stages
  <2>2. expiresAt' \in [Leases -> Nat]
    BY <1>1, <1>2, <1>3 DEF IndInv, TypeOK
  <2> QED
    BY <1>2, <2>1, <2>2 DEF IndInv, TypeOK, Tokens
<1>9. ClockInv' /\ SetInv'
  BY <1>2 DEF IndInv, ClockInv, SetInv, Tokens
<1>10. CallInv'
  BY <1>2, <1>4, <1>6, <1>7 DEF IndInv, TypeOK, Call, CallInv
<1>11. GhostInv'
  BY <1>2, <1>4, <1>5, <1>6 DEF IndInv, TypeOK, Request, GhostInv
<1>12. GrantInv'
  BY <1>1, <1>2, <1>3, <1>4, <1>6, <1>7
     DEF IndInv, TypeOK, Call, GrantInv, Idle, InUse, Deadline, Tokens
<1>13. RenewInv'
  <2>1. \A m \in Leases : expiresAt'[m] + Margin <= clock'[m] + TTL
    BY <1>1, <1>2, <1>3, <1>6, <1>7 DEF IndInv, RenewInv
  <2>2. \A d \in calls' : d \in calls /\ d.lease \in Leases /\ d.lease # l
    BY <1>2, <1>4 DEF IndInv, TypeOK, Call
  <2>3. \A g \in ghosts' : g \in ghosts /\ g.lease \in Leases /\ g.lease # l
    BY <1>2, <1>5 DEF IndInv, TypeOK, Request
  <2> QED
    BY <1>2, <1>6, <2>1, <2>2, <2>3 DEF IndInv, RenewInv, Deadline, Tokens
<1>14. VerdictIsFinal'
  BY <1>2, <1>4, <1>6 DEF IndInv, TypeOK, Call, VerdictIsFinal
<1> QED
  BY <1>8, <1>9, <1>10, <1>11, <1>12, <1>13, <1>14 DEF IndInv

(* ReceiveRenew keeps the invariant: a confirmed deadline is covered by the     *)
(* score the renewal wrote, and nothing older is under way.                     *)
LEMMA ReceiveRenewKeeps ==
    ASSUME IndInv, ~Overtaking, SingleRenewer, NEW c \in calls, ReceiveRenew(c)
    PROVE  IndInv'
<1> USE PermitAssumption, CallAssumption
<1> DEFINE l == c.lease
<1>1. /\ c \in Call /\ l \in Leases /\ c.at \in Nat /\ c.op = "renew" /\ c.st \in {"ok", "no"}
      /\ stage[l] \in Guarded /\ c.by # "main" /\ c.at <= clock[l] /\ clock[l] \in Nat
      /\ expiresAt[l] \in Nat
  BY DEF IndInv, TypeOK, CallInv, Call, ReceiveRenew
<1>2. /\ calls' = calls \ {c} /\ UNCHANGED <<now, clock, score, stage, ghosts>>
      /\ expiresAt' = IF Confirms(c) /\ Deadline(c) > expiresAt[l]
                      THEN [expiresAt EXCEPT ![l] = Deadline(c)] ELSE expiresAt
      /\ lost' = IF Confirms(c) THEN lost ELSE lost \cup {l}
  BY DEF ReceiveRenew
<1>3. Deadline(c) \in Int /\ Deadline(c) + Margin = c.at + TTL
  BY <1>1 DEF Deadline
<1>4. \A d \in calls' : d \in calls /\ d.lease \in Leases /\ (d.op = "renew" => d.lease # l)
  BY <1>1, <1>2, OneRenewal DEF IndInv, TypeOK, Call
<1>5. \A m \in Leases : m # l => expiresAt'[m] = expiresAt[m] /\ InUse(m)' = InUse(m)
  BY <1>1, <1>2 DEF IndInv, TypeOK, InUse, Expired
<1>6. /\ expiresAt'[l] \in Nat
      /\ expiresAt'[l] = expiresAt[l] \/ (expiresAt'[l] = Deadline(c) /\ Confirms(c))
      /\ InUse(l)' => InUse(l) /\ Confirms(c)
  BY <1>1, <1>2, <1>3 DEF IndInv, TypeOK, InUse, Confirms, Expired
<1>7. TypeOK'
  <2>1. expiresAt' \in [Leases -> Nat]
    BY <1>1, <1>2, <1>3 DEF IndInv, TypeOK
  <2> QED
    BY <1>1, <1>2, <2>1 DEF IndInv, TypeOK, Tokens
<1>8. ClockInv' /\ SetInv'
  BY <1>2 DEF IndInv, ClockInv, SetInv, Tokens
<1>9. CallInv'
  BY <1>2 DEF IndInv, CallInv
<1>10. GhostInv'
  BY <1>1, <1>2 DEF IndInv, CallInv, GhostInv
<1>11. \A m \in Leases : \A k \in Tokens(m) : InUse(m)' =>
          k \in DOMAIN score /\ expiresAt'[m] + Margin <= score[k]
  <2> SUFFICES ASSUME NEW m \in Leases, NEW k \in Tokens(m), InUse(m)'
               PROVE  k \in DOMAIN score /\ expiresAt'[m] + Margin <= score[k]
    OBVIOUS
  <2>1. CASE m # l
    BY <1>5, <2>1 DEF IndInv, GrantInv
  <2>2. CASE m = l
    <3>1. InUse(l) /\ c.st = "ok" /\ k \in DOMAIN score
      BY <1>6, <2>2 DEF IndInv, GrantInv, Confirms
    <3>2. expiresAt[l] + Margin <= score[k] /\ Deadline(c) + Margin <= score[k]
      BY <1>1, <2>2, <3>1, Zenon DEF IndInv, GrantInv, RenewInv
    <3> QED
      BY <1>6, <2>2, <3>1, <3>2
  <2> QED
    BY <2>1, <2>2
<1>12. GrantInv'
  BY <1>1, <1>2, <1>11 DEF IndInv, GrantInv, Idle, Deadline, Tokens
<1>13. \A m \in Leases : expiresAt'[m] + Margin <= clock'[m] + TTL
  BY <1>1, <1>2, <1>3, <1>5, <1>6 DEF IndInv, RenewInv
<1>14. RenewInv'
  <2>1. ASSUME NEW d \in calls', d.op = "renew", d.st # "checked", InUse(d.lease)'
        PROVE  /\ expiresAt'[d.lease] <= Deadline(d)
               /\ d.st = "ok" => \A k \in Tokens(d.lease) : Deadline(d) + Margin <= score'[k]
    BY <1>2, <1>4, <1>5, <2>1 DEF IndInv, RenewInv
  <2>2. ASSUME NEW g \in ghosts, g.op = "renew", InUse(g.lease)'
        PROVE  /\ expiresAt'[g.lease] + Margin <= g.at + TTL
               /\ \A d \in calls' : d.lease = g.lease /\ d.op = "renew" => d.st \notin {"ok", "no"}
    <3>1. g.lease \in Leases
      BY DEF IndInv, TypeOK, Request
    <3>2. g.lease # l
      BY <1>1, <1>6, <2>2 DEF IndInv, RenewInv
    <3> QED
      BY <1>4, <1>5, <2>2, <3>1, <3>2 DEF IndInv, RenewInv
  <2> QED
    BY <1>2, <1>13, <2>1, <2>2 DEF RenewInv, Deadline, Tokens
<1>15. VerdictIsFinal'
  BY <1>2, <1>4, <1>5, <1>6 DEF IndInv, VerdictIsFinal
<1> QED
  BY <1>7, <1>8, <1>9, <1>10, <1>12, <1>14, <1>15 DEF IndInv

(* Tick keeps the invariant: clocks only go forward, none leads the fastest     *)
(* one, and none lags behind it by more than Drift.                             *)
LEMMA TickKeeps ==
    ASSUME IndInv, ~Overtaking, SingleRenewer, Tick
    PROVE  IndInv'
<1> USE PermitAssumption, CallAssumption
<1>1. /\ now \in Nat /\ now' = now + 1 /\ now' \in Nat
      /\ UNCHANGED <<score, stage, expiresAt, lost, calls, ghosts>>
  BY DEF IndInv, TypeOK, Tick
<1>2. \A l \in Leases : /\ clock[l] \in Nat /\ clock'[l] \in Nat /\ clock[l] <= clock'[l]
                        /\ clock'[l] <= now' /\ now' <= clock'[l] + Drift
  BY <1>1 DEF IndInv, TypeOK, ClockInv, Tick
<1>3. clock' \in [Leases -> Nat]
  BY <1>1, <1>2 DEF Tick
<1>4. \A l \in Leases : InUse(l)' => InUse(l)
  BY <1>1, <1>2 DEF IndInv, TypeOK, InUse, Expired
<1>5. TypeOK' /\ ClockInv' /\ SetInv'
  BY <1>1, <1>2, <1>3 DEF IndInv, TypeOK, ClockInv, SetInv, Tokens
<1>6. CallInv'
  BY <1>1, <1>2 DEF IndInv, TypeOK, Call, CallInv
<1>7. GhostInv'
  BY <1>1, <1>2 DEF IndInv, TypeOK, Request, GhostInv
<1>8. GrantInv'
  <2>1. ASSUME NEW c \in calls, Deadline(c) > clock'[c.lease]
        PROVE  Deadline(c) > clock[c.lease]
    BY <1>2, <2>1 DEF IndInv, TypeOK, Call, Deadline
  <2> QED
    BY <1>1, <1>4, <2>1 DEF IndInv, GrantInv, Idle, Deadline, Tokens
<1>9. RenewInv'
  <2>1. \A l \in Leases : expiresAt[l] + Margin <= clock'[l] + TTL
    BY <1>2 DEF IndInv, TypeOK, RenewInv
  <2>2. \A c \in calls : c.lease \in Leases
    BY DEF IndInv, TypeOK, Call
  <2>3. \A g \in ghosts : g.lease \in Leases
    BY DEF IndInv, TypeOK, Request
  <2> QED
    BY <1>1, <1>4, <2>1, <2>2, <2>3 DEF IndInv, RenewInv, Deadline, Tokens
<1>10. VerdictIsFinal'
  BY <1>1, <1>4 DEF IndInv, TypeOK, Call, VerdictIsFinal
<1> QED
  BY <1>5, <1>6, <1>7, <1>8, <1>9, <1>10 DEF IndInv

(* Fail keeps the invariant, whether or not a copy of the request is left       *)
(* behind.                                                                      *)
LEMMA FailKeeps ==
    ASSUME IndInv, ~Overtaking, SingleRenewer, NEW c \in calls, Fail(c)
    PROVE  IndInv'
<1> USE PermitAssumption, CallAssumption
<1> DEFINE l == c.lease
           h == [op |-> c.op, lease |-> c.lease, at |-> c.at]
<1>1. /\ c \in Call /\ l \in Leases /\ c.at \in Nat /\ c.at <= clock[l] /\ clock[l] \in Nat
      /\ c.op \in {"acquire", "renew", "held", "release"}
      /\ c.op = "acquire" => c.by = "main" /\ stage[l] = "waiting"
      /\ c.op = "release" => c.by = "main" /\ stage[l] \in {"stopping", "discarding"}
      /\ c.op \in {"renew", "held"} => c.by # "main" /\ stage[l] \in Guarded
  BY DEF IndInv, TypeOK, Call, CallInv
<1>2. /\ calls' = calls \ {c} /\ UNCHANGED <<now, clock, score, expiresAt>>
      /\ stage' = IF c.op = "acquire" \/ stage[l] = "discarding"
                  THEN [stage EXCEPT ![l] = "failed"] ELSE stage
      /\ lost \subseteq lost' /\ lost' \subseteq lost \cup {l}
      /\ c.op \notin {"renew", "held"} => lost' = lost
  BY DEF Fail
<1>3. /\ ghosts' = ghosts \/ (ghosts' = ghosts \cup {h} /\ c.st = "sent" /\ c.op # "held")
      /\ h.op = c.op /\ h.lease = l /\ h.at = c.at
      /\ c.op # "held" => h \in Request
  BY <1>1 DEF Fail, Abandon, Request
<1> HIDE DEF h
<1>4. /\ \A m \in Leases : m # l => stage'[m] = stage[m] /\ InUse(m)' = InUse(m)
      /\ stage'[l] = IF c.op = "acquire" \/ stage[l] = "discarding" THEN "failed" ELSE stage[l]
      /\ InUse(l)' => InUse(l) /\ c.op \in {"renew", "held"}
  BY <1>1, <1>2 DEF IndInv, TypeOK, InUse, Expired, Guarded
<1>5. \A d \in calls : d \in Call /\ d.lease \in Leases
  BY DEF IndInv, TypeOK, Call
<1>6. \A d \in calls' : d \in calls /\ (d.lease = l => d.by # c.by)
  BY <1>2 DEF IndInv, CallInv
<1>7. TypeOK'
  <2>1. stage' \in [Leases -> Stages]
    BY <1>1, <1>2 DEF IndInv, TypeOK, Stages
  <2> QED
    BY <1>1, <1>2, <1>3, <2>1 DEF IndInv, TypeOK, Tokens
<1>8. ClockInv' /\ SetInv'
  BY <1>2 DEF IndInv, ClockInv, SetInv, Tokens
<1>9. CallInv'
  <2>1. \A d \in calls' : d.lease = l => (d.op = "acquire" \/ d.op = "release" => c.op \in {"renew", "held"})
    BY <1>1, <1>6 DEF IndInv, CallInv
  <2>2. stage'[l] # stage[l] => \A d \in calls' : d.lease # l
    <3> SUFFICES ASSUME stage'[l] # stage[l], NEW d \in calls', d.lease = l PROVE FALSE
      OBVIOUS
    <3>1. d.op \in {"renew", "held", "acquire", "release"}
      BY <1>5, <1>6 DEF Call
    <3> QED
      BY <1>1, <1>4, <1>6, <2>1, <3>1 DEF IndInv, CallInv, Guarded
  <2> QED
    BY <1>1, <1>2, <1>4, <1>5, <1>6, <2>2 DEF IndInv, CallInv
<1>10. GhostInv'
  <2>1. ASSUME NEW g \in ghosts', g.lease # l PROVE g \in ghosts /\ g.lease \in Leases
    BY <1>3, <2>1 DEF IndInv, TypeOK, Request
  <2>2. ASSUME NEW g \in ghosts', g.lease = l
        PROVE  /\ g.at <= clock[l]
               /\ g.op = "acquire" => stage'[l] = "failed"
               /\ g.op = "renew" => stage'[l] \in Guarded
               /\ g.op = "release" => stage'[l] \in {"discarding", "failed", "stopping", "released"}
    <3>1. CASE g \in ghosts
      BY <1>1, <1>4, <2>2, <3>1 DEF IndInv, GhostInv, CallInv, Guarded
    <3>2. CASE g = h
      BY <1>1, <1>3, <1>4, <2>2, <3>2 DEF Guarded
    <3> QED
      BY <1>3, <3>1, <3>2
  <2>3. ASSUME NEW g \in ghosts', g.lease # l, g.op = "acquire", stage'[g.lease] = "waiting"
        PROVE  \E d \in calls' : /\ d.lease = g.lease /\ d.op = "acquire"
                                 /\ d.st = "sent" /\ d.at = g.at
    <3>1. g \in ghosts /\ stage[g.lease] = "waiting"
      BY <1>4, <2>1, <2>3
    <3>2. PICK d \in calls : d.lease = g.lease /\ d.op = "acquire" /\ d.st = "sent" /\ d.at = g.at
      BY <2>3, <3>1 DEF IndInv, GhostInv
    <3> QED
      BY <1>2, <2>3, <3>2
  <2>4. ASSUME NEW g \in ghosts', g.lease # l
        PROVE  /\ g.at <= clock'[g.lease]
               /\ g.op = "acquire" => stage'[g.lease] \in {"waiting", "failed"}
               /\ g.op = "renew" => stage'[g.lease] \in Guarded
               /\ g.op = "release" =>
                     stage'[g.lease] \in {"discarding", "failed", "stopping", "released"}
    BY <1>2, <1>4, <2>1, <2>4, Zenon DEF IndInv, GhostInv
  <2> QED
    BY <1>2, <2>2, <2>3, <2>4 DEF GhostInv
<1>11. GrantInv'
  <2>1. \A m \in Leases : m # l => Idle(m, "main")' = Idle(m, "main")
    BY <1>2 DEF Idle
  <2>2. stage'[l] = "waiting" => Idle(l, "main")' = Idle(l, "main")
    BY <1>1, <1>2, <1>4 DEF Idle, Guarded
  <2>3. stage'[l] = "released" => stage[l] = "released"
    BY <1>4, Zenon
  <2> QED
    BY <1>2, <1>4, <1>5, <1>6, <2>1, <2>2, <2>3 DEF IndInv, GrantInv, Deadline, Tokens
<1>12. RenewInv'
  <2>1. ASSUME NEW d \in calls', d.op = "renew", d.st # "checked", InUse(d.lease)'
        PROVE  /\ expiresAt'[d.lease] <= Deadline(d)
               /\ d.st = "ok" => \A k \in Tokens(d.lease) : Deadline(d) + Margin <= score'[k]
    BY <1>2, <1>4, <1>5, <1>6, <2>1 DEF IndInv, RenewInv
  <2>2. ASSUME NEW g \in ghosts', g.op = "renew", InUse(g.lease)'
        PROVE  /\ expiresAt'[g.lease] + Margin <= g.at + TTL
               /\ \A d \in calls' : d.lease = g.lease /\ d.op = "renew" => d.st \notin {"ok", "no"}
    <3>1. CASE g \in ghosts
      <4>1. g.lease \in Leases
        BY <3>1 DEF IndInv, TypeOK, Request
      <4> QED
        BY <1>2, <1>4, <1>6, <2>2, <3>1, <4>1 DEF IndInv, RenewInv
    <3>2. CASE g = h /\ c.st = "sent"
      <4>1. c.op = "renew" /\ InUse(l)
        BY <1>3, <1>4, <2>2, <3>2
      <4>2. expiresAt[l] <= Deadline(c)
        BY <3>2, <4>1 DEF IndInv, RenewInv
      <4>3. expiresAt[l] + Margin <= c.at + TTL
        BY <1>1, <4>2 DEF IndInv, TypeOK, Deadline
      <4>4. \A d \in calls' : d.op = "renew" => d.lease # l
        BY <1>2, <4>1, OneRenewal
      <4> QED
        BY <1>2, <1>3, <2>2, <3>2, <4>3, <4>4
    <3> QED
      BY <1>3, <3>1, <3>2
  <2> QED
    BY <1>2, <2>1, <2>2, Zenon DEF IndInv, RenewInv, Deadline, Tokens
<1>13. VerdictIsFinal'
  BY <1>4, <1>5, <1>6 DEF IndInv, VerdictIsFinal
<1> QED
  BY <1>7, <1>8, <1>9, <1>10, <1>11, <1>12, <1>13 DEF IndInv

(* Resend keeps the invariant: a renewal that is sent again was confirmed for   *)
(* nobody yet.                                                                  *)
LEMMA ResendKeeps ==
    ASSUME IndInv, ~Overtaking, SingleRenewer, NEW c \in calls, Resend(c)
    PROVE  IndInv'
<1> USE PermitAssumption, CallAssumption
<1> DEFINE l == c.lease
           h == [op |-> c.op, lease |-> c.lease, at |-> c.at]
           d == [c EXCEPT !.st = "sent"]
<1>1. /\ c \in Call /\ l \in Leases /\ c.at \in Nat /\ c.at <= clock[l] /\ clock[l] \in Nat
      /\ c.op \in {"acquire", "renew", "held", "release"} /\ c.st \in {"sent", "ok", "no"}
      /\ c.op = "acquire" => stage[l] = "waiting"
      /\ c.op = "release" => stage[l] \in {"stopping", "discarding"}
      /\ c.op = "renew" => stage[l] \in Guarded
  BY DEF IndInv, TypeOK, Call, CallInv, Resend
<1>2. /\ d \in Call /\ d.lease = l /\ d.by = c.by /\ d.op = c.op /\ d.at = c.at /\ d.st = "sent"
      /\ calls' = (calls \ {c}) \cup {d}
      /\ UNCHANGED <<now, clock, score, stage, expiresAt, lost>>
  BY <1>1 DEF Call, Resend, Progress, local
<1>3. /\ ghosts' = ghosts \/ (ghosts' = ghosts \cup {h} /\ c.st = "sent" /\ c.op # "held")
      /\ h.op = c.op /\ h.lease = l /\ h.at = c.at
      /\ c.op # "held" => h \in Request
  BY <1>1 DEF Resend, Abandon, Request
<1> HIDE DEF h, d
<1>4. \A m \in Leases : InUse(m)' = InUse(m)
  BY <1>2 DEF InUse, Expired
<1>5. \A e \in calls' : e = d \/ (e \in calls /\ e.lease \in Leases)
  BY <1>2 DEF IndInv, TypeOK, Call
<1>6. TypeOK' /\ ClockInv' /\ SetInv'
  BY <1>2, <1>3 DEF IndInv, TypeOK, ClockInv, SetInv, Tokens
<1>7. CallInv'
  BY <1>1, <1>2 DEF IndInv, CallInv
<1>8. GhostInv'
  <2>1. ASSUME NEW g \in ghosts', g.op = "acquire", stage'[g.lease] = "waiting"
        PROVE  \E e \in calls' : /\ e.lease = g.lease /\ e.op = "acquire"
                                 /\ e.st = "sent" /\ e.at = g.at
    <3>1. CASE g \in ghosts
      <4>1. PICK e \in calls : e.lease = g.lease /\ e.op = "acquire" /\ e.st = "sent" /\ e.at = g.at
        BY <1>2, <2>1, <3>1 DEF IndInv, GhostInv
      <4>2. CASE e = c
        BY <1>2, <4>1, <4>2
      <4>3. CASE e # c
        BY <1>2, <4>1, <4>3
      <4> QED
        BY <4>2, <4>3
    <3>2. CASE g = h
      BY <1>2, <1>3, <2>1, <3>2
    <3> QED
      BY <1>3, <3>1, <3>2
  <2>2. ASSUME NEW g \in ghosts'
        PROVE  /\ g.at <= clock'[g.lease]
               /\ g.op = "acquire" => stage'[g.lease] \in {"waiting", "failed"}
               /\ g.op = "renew" => stage'[g.lease] \in Guarded
               /\ g.op = "release" =>
                     stage'[g.lease] \in {"discarding", "failed", "stopping", "released"}
    <3>1. CASE g \in ghosts
      BY <1>2, <3>1 DEF IndInv, GhostInv
    <3>2. CASE g = h
      BY <1>1, <1>2, <1>3, <3>2, Zenon
    <3> QED
      BY <1>3, <3>1, <3>2, Zenon
  <2> QED
    BY <2>1, <2>2 DEF GhostInv
<1>9. GrantInv'
  <2>1. \A m \in Leases : Idle(m, "main")' = Idle(m, "main")
    BY <1>2, Zenon DEF Idle
  <2>2. \A e \in calls' : \A k \in Tokens(e.lease) :
           /\ e.op = "acquire" /\ k \in DOMAIN score => e.st # "no" /\ score[k] = e.at + TTL
           /\ e.op = "acquire" /\ e.st = "ok" /\ Deadline(e) > clock[e.lease] => k \in DOMAIN score
           /\ e.op = "release" /\ e.st \in {"ok", "no"} => k \notin DOMAIN score
    BY <1>2, <1>5 DEF IndInv, GrantInv
  <2> QED
    BY <1>2, <1>4, <2>1, <2>2 DEF IndInv, GrantInv, Deadline, Tokens
<1>10. RenewInv'
  <2>1. ASSUME NEW e \in calls', e.op = "renew", e.st # "checked", InUse(e.lease)'
        PROVE  /\ expiresAt'[e.lease] <= Deadline(e)
               /\ e.st = "ok" => \A k \in Tokens(e.lease) : Deadline(e) + Margin <= score'[k]
    BY <1>1, <1>2, <1>4, <1>5, <2>1 DEF IndInv, RenewInv, Deadline
  <2>2. ASSUME NEW g \in ghosts', g.op = "renew", InUse(g.lease)'
        PROVE  /\ expiresAt'[g.lease] + Margin <= g.at + TTL
               /\ \A e \in calls' : e.lease = g.lease /\ e.op = "renew" => e.st \notin {"ok", "no"}
    <3>1. CASE g \in ghosts
      <4>1. g.lease \in Leases
        BY <3>1 DEF IndInv, TypeOK, Request
      <4> QED
        BY <1>2, <1>4, <1>5, <2>2, <3>1, <4>1 DEF IndInv, RenewInv
    <3>2. CASE g = h /\ c.st = "sent"
      <4>1. c.op = "renew" /\ InUse(l)
        BY <1>1, <1>3, <1>4, <2>2, <3>2
      <4>2. expiresAt[l] <= Deadline(c)
        BY <3>2, <4>1 DEF IndInv, RenewInv
      <4>3. expiresAt[l] + Margin <= c.at + TTL
        BY <1>1, <4>2 DEF IndInv, TypeOK, Deadline
      <4>4. \A e \in calls : e.op = "renew" /\ e.lease = l => e = c
        BY <4>1, OneRenewal
      <4> QED
        BY <1>2, <1>3, <2>2, <3>2, <4>3, <4>4, Zenon
    <3> QED
      BY <1>3, <3>1, <3>2
  <2> QED
    BY <1>2, <2>1, <2>2, Zenon DEF IndInv, RenewInv, Deadline, Tokens
<1>11. VerdictIsFinal'
  BY <1>2, <1>4, <1>5 DEF IndInv, VerdictIsFinal
<1> QED
  BY <1>6, <1>7, <1>8, <1>9, <1>10, <1>11 DEF IndInv

(* StartAcquire keeps the invariant: a call of TryAcquire has no permits yet. *)
LEMMA StartAcquireKeeps ==
    ASSUME IndInv, ~Overtaking, SingleRenewer, NEW l \in Leases, StartAcquire(l)
    PROVE  IndInv'
<1> USE PermitAssumption, CallAssumption
<1>1. TypeOK'
  BY DEF IndInv, TypeOK, Call, Request, Stages, Start, Tokens, local, StartAcquire
<1>2. ClockInv'
  BY DEF IndInv, ClockInv, local, StartAcquire
<1>3. SetInv'
  BY DEF IndInv, SetInv, Tokens, local, StartAcquire
<1>4. CallInv'
  BY DEF IndInv, TypeOK, CallInv, Call, Guarded, Idle, Start, local, StartAcquire
<1>5. GhostInv'
  BY DEF IndInv, GhostInv, Start, local, StartAcquire
<1>6. GrantInv'
  BY DEF IndInv, GrantInv, Deadline, Expired, Idle, InUse, Start, Tokens, local, StartAcquire
<1>7. RenewInv'
  BY DEF IndInv, RenewInv, Deadline, Expired, InUse, Start, Tokens, local, StartAcquire
<1>8. VerdictIsFinal'
  BY DEF IndInv, VerdictIsFinal, Expired, InUse, Start, local, StartAcquire
<1> QED
  BY <1>1, <1>2, <1>3, <1>4, <1>5, <1>6, <1>7, <1>8 DEF IndInv

(* GiveUp keeps the invariant: no call of the lease is under way. *)
LEMMA GiveUpKeeps ==
    ASSUME IndInv, ~Overtaking, SingleRenewer, NEW l \in Leases, GiveUp(l)
    PROVE  IndInv'
<1> USE PermitAssumption, CallAssumption
<1>1. TypeOK'
  BY DEF IndInv, TypeOK, Call, Request, Stages, Tokens, GiveUp
<1>2. ClockInv'
  BY DEF IndInv, ClockInv, GiveUp
<1>3. SetInv'
  BY DEF IndInv, SetInv, Tokens, GiveUp
<1>4. CallInv'
  BY DEF IndInv, TypeOK, CallInv, Call, Guarded, Idle, GiveUp
<1>5. GhostInv'
  BY DEF IndInv, TypeOK, CallInv, GhostInv, Call, Guarded, Idle, GiveUp
<1>6. GrantInv'
  BY DEF IndInv, GrantInv, Deadline, Expired, Idle, InUse, Tokens, GiveUp
<1>7. RenewInv'
  BY DEF IndInv, RenewInv, Deadline, Expired, InUse, Tokens, GiveUp
<1>8. VerdictIsFinal'
  BY DEF IndInv, VerdictIsFinal, Expired, InUse, GiveUp
<1> QED
  BY <1>1, <1>2, <1>3, <1>4, <1>5, <1>6, <1>7, <1>8 DEF IndInv

(* DeadlineOver keeps the invariant: the grant is out of use. *)
LEMMA DeadlineOverKeeps ==
    ASSUME IndInv, ~Overtaking, SingleRenewer, NEW l \in Leases, DeadlineOver(l)
    PROVE  IndInv'
<1> USE PermitAssumption, CallAssumption
<1>1. TypeOK'
  BY DEF IndInv, TypeOK, Call, Request, Stages, Tokens, DeadlineOver
<1>2. ClockInv'
  BY Zenon DEF IndInv, ClockInv, DeadlineOver
<1>3. SetInv'
  BY DEF IndInv, SetInv, Tokens, DeadlineOver
<1>4. CallInv'
  BY DEF IndInv, CallInv, DeadlineOver
<1>5. GhostInv'
  BY Zenon DEF IndInv, GhostInv, DeadlineOver
<1>6. GrantInv'
  BY DEF IndInv, GrantInv, Deadline, Expired, Idle, InUse, Tokens, DeadlineOver
<1>7. RenewInv'
  BY DEF IndInv, RenewInv, Deadline, Expired, InUse, Tokens, DeadlineOver
<1>8. VerdictIsFinal'
  BY Zenon DEF IndInv, VerdictIsFinal, Expired, InUse, DeadlineOver
<1> QED
  BY <1>1, <1>2, <1>3, <1>4, <1>5, <1>6, <1>7, <1>8 DEF IndInv

(* Stop keeps the invariant: the grant is out of use. *)
LEMMA StopKeeps ==
    ASSUME IndInv, ~Overtaking, SingleRenewer, NEW l \in Leases, Stop(l)
    PROVE  IndInv'
<1> USE PermitAssumption, CallAssumption
<1>1. TypeOK'
  BY DEF IndInv, TypeOK, Call, Request, Stages, Tokens, Stop
<1>2. ClockInv'
  BY DEF IndInv, ClockInv, Stop
<1>3. SetInv'
  BY DEF IndInv, SetInv, Tokens, Stop
<1>4. CallInv'
  BY DEF IndInv, TypeOK, CallInv, Call, Guarded, Stop
<1>5. GhostInv'
  BY DEF IndInv, TypeOK, CallInv, GhostInv, Call, Guarded, Stop
<1>6. GrantInv'
  BY DEF IndInv, GrantInv, Deadline, Expired, Idle, InUse, Tokens, Stop
<1>7. RenewInv'
  BY DEF IndInv, RenewInv, Deadline, Expired, InUse, Tokens, Stop
<1>8. VerdictIsFinal'
  BY DEF IndInv, VerdictIsFinal, Expired, InUse, Stop
<1> QED
  BY <1>1, <1>2, <1>3, <1>4, <1>5, <1>6, <1>7, <1>8 DEF IndInv

(* StartRelease keeps the invariant: the release is a new call. *)
LEMMA StartReleaseKeeps ==
    ASSUME IndInv, ~Overtaking, SingleRenewer, NEW l \in Leases, StartRelease(l)
    PROVE  IndInv'
<1> USE PermitAssumption, CallAssumption
<1>1. TypeOK'
  BY DEF IndInv, TypeOK, Call, Request, Stages, Start, Tokens, local, StartRelease
<1>2. ClockInv'
  BY DEF IndInv, ClockInv, local, StartRelease
<1>3. SetInv'
  BY DEF IndInv, SetInv, Tokens, local, StartRelease
<1>4. CallInv'
  BY DEF IndInv, TypeOK, CallInv, Call, Guarded, Idle, Start, local, StartRelease
<1>5. GhostInv'
  BY DEF IndInv, GhostInv, Start, local, StartRelease
<1>6. GrantInv'
  BY DEF IndInv, GrantInv, Deadline, Expired, Idle, InUse, Start, Tokens, local, StartRelease
<1>7. RenewInv'
  BY DEF IndInv, RenewInv, Deadline, Expired, InUse, Start, Tokens, local, StartRelease
<1>8. VerdictIsFinal'
  BY DEF IndInv, VerdictIsFinal, Expired, InUse, Start, local, StartRelease
<1> QED
  BY <1>1, <1>2, <1>3, <1>4, <1>5, <1>6, <1>7, <1>8 DEF IndInv

(* CheckCall keeps the invariant: the call was not sent yet. *)
LEMMA CheckCallKeeps ==
    ASSUME IndInv, ~Overtaking, SingleRenewer, NEW l \in Leases, NEW by \in Callers, CheckCall(l, by)
    PROVE  IndInv'
<1> USE PermitAssumption, CallAssumption
<1> DEFINE n == [lease |-> l, by |-> by, op |-> IF by = "heart" THEN Heartbeat[l] ELSE "renew",
                 at |-> 0, st |-> "checked"]
<1>1. /\ calls' = calls \cup {n} /\ stage[l] = "held" /\ Idle(l, by)
      /\ UNCHANGED <<now, clock, score, stage, expiresAt, lost, ghosts>>
  BY DEF CheckCall, Start, local
<1>2. /\ n \in Call /\ n.lease = l /\ n.by = by /\ n.at = 0 /\ n.st = "checked"
      /\ n.op \in {"renew", "held"} /\ by # "main"
      /\ n.op = "renew" => by = "user" \/ Heartbeat[l] = "renew"
  BY Zenon DEF Call
<1> HIDE DEF n
<1>3. TypeOK' /\ ClockInv' /\ SetInv'
  BY <1>1, <1>2 DEF IndInv, TypeOK, ClockInv, SetInv, Tokens
<1>4. CallInv'
  BY <1>1, <1>2 DEF IndInv, TypeOK, CallInv, Guarded, Idle
<1>5. GhostInv'
  BY <1>1 DEF IndInv, GhostInv
<1>6. \A m \in Leases : /\ Idle(m, "main")' = Idle(m, "main")
                        /\ InUse(m)' = InUse(m)
  BY <1>1, <1>2 DEF Idle, InUse, Expired
<1>7. (\A c \in calls : c.lease \in Leases) /\ (\A g \in ghosts : g.lease \in Leases)
  BY Zenon DEF IndInv, TypeOK, Call, Request
<1>8. GrantInv'
  BY <1>1, <1>2, <1>6, <1>7, Zenon DEF IndInv, GrantInv, Deadline, Tokens
<1>9. RenewInv'
  BY <1>1, <1>2, <1>6, <1>7, Zenon DEF IndInv, RenewInv, Deadline, Tokens
<1>10. VerdictIsFinal'
  BY <1>1, <1>2, <1>6, <1>7 DEF IndInv, VerdictIsFinal
<1> QED
  BY <1>3, <1>4, <1>5, <1>8, <1>9, <1>10, Zenon DEF IndInv

(* ReceiveBusy keeps the invariant: a refused attempt left no permits. *)
LEMMA ReceiveBusyKeeps ==
    ASSUME IndInv, ~Overtaking, SingleRenewer, NEW c \in calls, ReceiveBusy(c)
    PROVE  IndInv'
<1> USE PermitAssumption, CallAssumption
<1>1. TypeOK'
  BY DEF IndInv, TypeOK, Call, Request, Stages, Tokens, local, ReceiveBusy
<1>2. ClockInv'
  BY DEF IndInv, ClockInv, local, ReceiveBusy
<1>3. SetInv'
  BY DEF IndInv, SetInv, Tokens, local, ReceiveBusy
<1>4. CallInv'
  BY DEF IndInv, CallInv, local, ReceiveBusy
<1>5. GhostInv'
  BY DEF IndInv, GhostInv, local, ReceiveBusy
<1>6. GrantInv'
  BY DEF IndInv, GrantInv, Deadline, Expired, Idle, InUse, Tokens, local, ReceiveBusy
<1>7. RenewInv'
  BY DEF IndInv, RenewInv, Deadline, Expired, InUse, Tokens, local, ReceiveBusy
<1>8. VerdictIsFinal'
  BY DEF IndInv, VerdictIsFinal, Expired, InUse, local, ReceiveBusy
<1> QED
  BY <1>1, <1>2, <1>3, <1>4, <1>5, <1>6, <1>7, <1>8 DEF IndInv

(* ReceiveHeld keeps the invariant: nothing is renewed. *)
LEMMA ReceiveHeldKeeps ==
    ASSUME IndInv, ~Overtaking, SingleRenewer, NEW c \in calls, ReceiveHeld(c)
    PROVE  IndInv'
<1> USE PermitAssumption, CallAssumption
<1>1. TypeOK'
  BY DEF IndInv, TypeOK, Call, Request, Stages, Tokens, ReceiveHeld
<1>2. ClockInv'
  BY Zenon DEF IndInv, ClockInv, ReceiveHeld
<1>3. SetInv'
  BY DEF IndInv, SetInv, Tokens, ReceiveHeld
<1>4. CallInv'
  BY DEF IndInv, CallInv, ReceiveHeld
<1>5. GhostInv'
  BY DEF IndInv, GhostInv, ReceiveHeld
<1>6. GrantInv'
  BY DEF IndInv, TypeOK, CallInv, GrantInv, Call, Deadline, Expired, Guarded, Idle, InUse, Tokens, ReceiveHeld
<1>7. RenewInv'
  BY Zenon DEF IndInv, RenewInv, Deadline, Expired, InUse, Tokens, ReceiveHeld
<1>8. VerdictIsFinal'
  BY Zenon DEF IndInv, VerdictIsFinal, Expired, InUse, ReceiveHeld
<1> QED
  BY <1>1, <1>2, <1>3, <1>4, <1>5, <1>6, <1>7, <1>8 DEF IndInv

(* ReceiveRelease keeps the invariant: the permits are gone. *)
LEMMA ReceiveReleaseKeeps ==
    ASSUME IndInv, ~Overtaking, SingleRenewer, NEW c \in calls, ReceiveRelease(c)
    PROVE  IndInv'
<1> USE PermitAssumption, CallAssumption
<1>1. TypeOK'
  BY DEF IndInv, TypeOK, Call, Request, Stages, Tokens, ReceiveRelease
<1>2. ClockInv'
  BY DEF IndInv, ClockInv, ReceiveRelease
<1>3. SetInv'
  BY DEF IndInv, SetInv, Tokens, ReceiveRelease
<1>4. CallInv'
  BY DEF IndInv, TypeOK, CallInv, Call, Guarded, ReceiveRelease
<1>5. GhostInv'
  BY DEF IndInv, TypeOK, CallInv, GhostInv, Call, Guarded, ReceiveRelease
<1>6. GrantInv'
  BY DEF IndInv, TypeOK, CallInv, GrantInv, Call, Deadline, Expired, Guarded, Idle, InUse, Tokens, ReceiveRelease
<1>7. RenewInv'
  BY DEF IndInv, TypeOK, CallInv, RenewInv, Call, Deadline, Expired, Guarded, InUse, Tokens, ReceiveRelease
<1>8. VerdictIsFinal'
  BY DEF IndInv, TypeOK, CallInv, VerdictIsFinal, Call, Expired, Guarded, InUse, ReceiveRelease
<1> QED
  BY <1>1, <1>2, <1>3, <1>4, <1>5, <1>6, <1>7, <1>8 DEF IndInv

\* What follows counts permits.
INSTANCE FiniteSetTheorems

---------------------------------------------------------------------------
(* The scripts.                                                             *)

(* The tokens of a lease are its own, and there are as many as it needs. *)
LEMMA TokenFacts ==
    ASSUME NEW l \in Leases
    PROVE  /\ Tokens(l) # {}
           /\ IsFiniteSet(Tokens(l)) /\ Cardinality(Tokens(l)) = Need[l]
           /\ \A m \in Leases : m # l => Tokens(l) \cap Tokens(m) = {}
<1> DEFINE N == 1 .. Need[l]
           f == [i \in N |-> <<l, i>>]
<1>1. Need[l] \in Nat /\ Need[l] >= 1
  BY PermitAssumption
<1>2. IsFiniteSet(N) /\ Cardinality(N) = Need[l]
  BY <1>1, FS_Interval
<1>3. f \in Injection(N, Tokens(l)) /\ f \in Surjection(N, Tokens(l))
  BY DEF Tokens, Injection, IsInjective, Surjection
<1>4. IsFiniteSet(Tokens(l)) /\ Cardinality(Tokens(l)) = Need[l]
  BY <1>2, <1>3, FS_Surjection
<1>5. <<l, 1>> \in Tokens(l)
  BY <1>1 DEF Tokens
<1>6. \A m \in Leases : m # l => Tokens(l) \cap Tokens(m) = {}
  BY DEF Tokens
<1> QED
  BY <1>4, <1>5, <1>6

\* The types the scripts rely on.
ScoreOK ==
    /\ DOMAIN score \subseteq UNION {Tokens(l) : l \in Leases}
    /\ score \in [DOMAIN score -> Nat]

\* The tokens of l are all in the sorted set, all with the score x.
Have(l, x) == \A k \in Tokens(l) : k \in DOMAIN score /\ score[k] = x

\* None of them is.
HaveNone(l) == \A k \in Tokens(l) : k \notin DOMAIN score

(* A grant is never split. *)
LEMMA AllOrNone ==
    ASSUME ScoreOK, SetInv, NEW l \in Leases
    PROVE  HaveNone(l) \/ \E x \in Nat : Have(l, x)
<1>1. PICK j \in Tokens(l) : TRUE
  BY TokenFacts
<1>2. CASE j \in DOMAIN score
  BY <1>1, <1>2 DEF ScoreOK, SetInv, Have
<1>3. CASE j \notin DOMAIN score
  BY <1>1, <1>3, Zenon DEF SetInv, HaveNone
<1> QED
  BY <1>2, <1>3

(* A subset of the permits within the capacity, restricted to what a clock     *)
(* reading leaves, stays within the capacity.                                  *)
LEMMA PurgeKeeps ==
    ASSUME ScoreOK, SetInv, NEW at \in Nat, score' = Restrict(score, Unexpired(at))
    PROVE  ScoreOK' /\ SetInv'
<1>1. Unexpired(at) \subseteq DOMAIN score /\ DOMAIN score' = Unexpired(at)
  BY Zenon DEF Unexpired, Restrict
<1>2. IsFiniteSet(DOMAIN score') /\ Cardinality(DOMAIN score') <= Capacity
  <2>1. IsFiniteSet(DOMAIN score) /\ Cardinality(DOMAIN score) <= Capacity
    BY Zenon DEF SetInv
  <2>2. IsFiniteSet(DOMAIN score') /\ Cardinality(DOMAIN score') <= Cardinality(DOMAIN score)
    BY <1>1, <2>1, FS_Subset, Zenon
  <2>3. Cardinality(DOMAIN score') \in Nat /\ Cardinality(DOMAIN score) \in Nat
    BY <2>1, <2>2, FS_CardinalityType
  <2> QED
    BY <2>1, <2>2, <2>3, PermitAssumption
<1>3. \A k \in DOMAIN score' : score'[k] = score[k]
  BY DEF Restrict
<1>4. ScoreOK'
  BY <1>1, <1>3, Zenon DEF ScoreOK, Restrict, Tokens
<1>5. ASSUME NEW l \in Leases, NEW j \in Tokens(l), NEW k \in Tokens(l), j \in DOMAIN score'
      PROVE  k \in DOMAIN score' /\ score'[j] = score'[k]
  <2>1. k \in DOMAIN score /\ score[j] = score[k] /\ score[j] > at
    BY <1>1, <1>5, Zenon DEF SetInv, Unexpired
  <2>2. k \in DOMAIN score'
    BY <1>1, <2>1, Zenon DEF Unexpired
  <2> QED
    BY <1>3, <1>5, <2>1, <2>2, Zenon
<1> QED
  BY <1>2, <1>4, <1>5 DEF SetInv, Tokens

(* A ZADD of all tokens of a lease to a part of the sorted set that has room  *)
(* for them, or that has them already.                                        *)
LEMMA StampKeeps ==
    ASSUME ScoreOK, SetInv, NEW l \in Leases, NEW at \in Nat,
           NEW S \in SUBSET DOMAIN score,
           \A m \in Leases : \A j, k \in Tokens(m) : j \in S => k \in S,
           \/ Cardinality(S) + Need[l] <= Capacity
           \/ Tokens(l) \subseteq S,
           score' = Stamped(S, l, at)
    PROVE  /\ ScoreOK' /\ SetInv' /\ Have(l, at + TTL)'
           /\ \A m \in Leases \ {l} : \A k \in Tokens(m) :
                 /\ k \in DOMAIN score' <=> k \in S
                 /\ k \in S => score'[k] = score[k]
<1>1. DOMAIN score' = S \cup Tokens(l)
  BY DEF Stamped
<1>2. \A k \in Tokens(l) : score'[k] = at + TTL
  BY DEF Stamped
<1>3. \A m \in Leases \ {l} : \A k \in Tokens(m) : k \notin Tokens(l)
  BY TokenFacts
<1>4. \A k \in S : k \notin Tokens(l) => score'[k] = score[k]
  BY Zenon DEF Stamped
<1>5. IsFiniteSet(DOMAIN score') /\ Cardinality(DOMAIN score') <= Capacity
  <2>1. /\ IsFiniteSet(DOMAIN score) /\ Cardinality(DOMAIN score) <= Capacity
        /\ Cardinality(DOMAIN score) \in Nat
    BY FS_CardinalityType, Zenon DEF SetInv
  <2>2. /\ IsFiniteSet(S) /\ Cardinality(S) <= Cardinality(DOMAIN score)
        /\ Cardinality(S) \in Nat
    BY <2>1, FS_Subset, FS_CardinalityType, Zenon
  <2>3. CASE Tokens(l) \subseteq S
    <3>1. S \cup Tokens(l) = S
      BY <2>3, Zenon
    <3> QED
      BY <1>1, <2>1, <2>2, <3>1, PermitAssumption
  <2>4. CASE Cardinality(S) + Need[l] <= Capacity
    <3>1. IsFiniteSet(Tokens(l)) /\ Cardinality(Tokens(l)) = Need[l]
      BY TokenFacts, Zenon
    <3>2. IsFiniteSet(S \cap Tokens(l)) /\ Cardinality(S \cap Tokens(l)) \in Nat
      BY <2>2, FS_Intersection, FS_CardinalityType, Zenon
    <3>3. /\ IsFiniteSet(S \cup Tokens(l))
          /\ Cardinality(S \cup Tokens(l))
                = Cardinality(S) + Cardinality(Tokens(l)) - Cardinality(S \cap Tokens(l))
      BY <2>2, <3>1, FS_Union
    <3> QED
      BY <1>1, <2>2, <2>4, <3>1, <3>2, <3>3, PermitAssumption
  <2> QED
    BY <2>3, <2>4, Zenon
<1>6. Have(l, at + TTL)'
  BY <1>1, <1>2 DEF Have, Tokens
<1>7. \A m \in Leases \ {l} : \A k \in Tokens(m) :
         /\ k \in DOMAIN score' <=> k \in S
         /\ k \in S => score'[k] = score[k]
  BY <1>1, <1>3, <1>4
<1>8. ScoreOK'
  <2>1. DOMAIN score' \subseteq UNION {Tokens(m) : m \in Leases}
    BY <1>1 DEF ScoreOK
  <2>2. \A k \in DOMAIN score' : score'[k] \in Nat
    BY <1>1, <1>2, <1>4, PermitAssumption DEF ScoreOK
  <2> QED
    BY <2>1, <2>2 DEF ScoreOK, Tokens, Stamped
<1>9. ASSUME NEW m \in Leases, NEW j \in Tokens(m), NEW k \in Tokens(m), j \in DOMAIN score'
      PROVE  k \in DOMAIN score' /\ score'[j] = score'[k]
  <2>1. CASE m = l
    BY <1>1, <1>2, <2>1, Zenon
  <2>2. CASE m # l
    <3>1. j \in S /\ k \in S /\ score[j] = score[k]
      BY <1>7, <1>9, <2>2, Zenon DEF SetInv
    <3> QED
      BY <1>7, <2>2, <3>1, Zenon
  <2> QED
    BY <2>1, <2>2, Zenon
<1> QED
  BY <1>5, <1>6, <1>7, <1>8, <1>9, Zenon DEF SetInv, Tokens

\* A request or a call, as far as the scripts look at it.
RequestOK(r) ==
    r.op \in {"acquire", "renew", "held", "release"} /\ r.lease \in Leases /\ r.at \in Nat

\* What a script does to the tokens of another lease: it may purge them.
OthersKept(r) ==
    \A m \in Leases \ {r.lease} : \A k \in Tokens(m) :
        /\ k \in DOMAIN score' => k \in DOMAIN score /\ score'[k] = score[k]
        /\ k \in DOMAIN score /\ score[k] > r.at => k \in DOMAIN score'

\* What it does to those of its own lease, and what it answers.
OwnOutcome(r) ==
    LET l == r.lease
    IN  CASE r.op = "acquire" ->
               \/ Answer(r) /\ Have(l, r.at + TTL)'
               \/ Answer(r) /\ \E x \in Nat : x > r.at /\ Have(l, x) /\ Have(l, x)'
               \/ ~Answer(r) /\ HaveNone(l)' /\ \A k \in Tokens(l) :
                     k \in DOMAIN score => score[k] <= r.at
          [] r.op = "renew" ->
               \/ Answer(r) /\ Have(l, r.at + TTL)' /\ ~HaveNone(l)
               \/ ~Answer(r) /\ score' = score /\ \A k \in Tokens(l) :
                     k \in DOMAIN score => score[k] <= r.at
          [] r.op = "release" -> HaveNone(l)'
          [] r.op = "held" ->
               /\ score' = score
               /\ ~Answer(r) => \A k \in Tokens(l) : k \in DOMAIN score => score[k] <= r.at

(* What the four scripts do. *)
LEMMA ScriptOutcome ==
    ASSUME ScoreOK, SetInv, NEW r, RequestOK(r), Script(r)
    PROVE  ScoreOK' /\ SetInv' /\ OthersKept(r) /\ OwnOutcome(r)
<1> DEFINE l == r.lease
           S == Unexpired(r.at)
<1>1. /\ l \in Leases /\ r.at \in Nat /\ S \subseteq DOMAIN score
      /\ Tokens(l) # {}
      /\ \A m \in Leases \ {l} : \A k \in Tokens(m) : k \notin Tokens(l)
  BY TokenFacts DEF RequestOK, Unexpired
<1>2. \A m \in Leases : \A j, k \in Tokens(m) : j \in S => k \in S
  BY DEF SetInv, Unexpired
<1>3. ~(Tokens(l) \subseteq S) => \A k \in Tokens(l) : k \notin S
  BY <1>1, <1>2
<1>4. (\A k \in Tokens(l) : k \notin S) => \A k \in Tokens(l) : k \in DOMAIN score => score[k] <= r.at
  <2> SUFFICES ASSUME NEW k \in Tokens(l), k \notin S, k \in DOMAIN score PROVE score[k] <= r.at
    OBVIOUS
  <2> QED
    BY <1>1 DEF Unexpired, ScoreOK
<1>5. CASE r.op = "acquire"
  <2>1. score' = Acquired(l, r.at) /\ (Answer(r) <=> Tokens(l) \subseteq DOMAIN score')
    BY <1>5 DEF Script, Answer
  <2>2. CASE ~(Tokens(l) \subseteq S) /\ Fits(l, r.at)
    <3>1. score' = Stamped(S, l, r.at) /\ Cardinality(S) + Need[l] <= Capacity
      BY <2>1, <2>2, Zenon DEF Acquired, Fits
    <3>2. /\ ScoreOK' /\ SetInv' /\ Have(l, r.at + TTL)'
          /\ \A m \in Leases \ {l} : \A k \in Tokens(m) :
                 /\ k \in DOMAIN score' <=> k \in S
                 /\ k \in S => score'[k] = score[k]
      BY <1>1, <1>2, <3>1, StampKeeps
    <3>3. Answer(r)
      BY <2>1, <3>2, Zenon DEF Have, Tokens
    <3>4. OthersKept(r)
      BY <1>1, <3>2 DEF OthersKept, Unexpired
    <3> QED
      BY <1>5, <3>2, <3>3, <3>4, Zenon DEF OwnOutcome
  <2>3. CASE ~(~(Tokens(l) \subseteq S) /\ Fits(l, r.at))
    <3>1. score' = Restrict(score, S)
      BY <2>1, <2>3 DEF Acquired
    <3>2. DOMAIN score' = S /\ \A k \in S : score'[k] = score[k]
      BY <3>1 DEF Restrict
    <3>3. ScoreOK' /\ SetInv'
      BY <1>1, <3>1, PurgeKeeps, Zenon
    <3>4. OthersKept(r)
      BY <1>1, <3>2 DEF OthersKept, Unexpired
    <3>5. CASE Tokens(l) \subseteq S
      <4>1. PICK x \in Nat : Have(l, x)
        BY <1>1, <3>5, AllOrNone, Zenon DEF HaveNone
      <4>2. x > r.at /\ Have(l, x)'
        BY <1>1, <3>2, <3>5, <4>1, Zenon DEF Have, Unexpired, Tokens
      <4>3. Answer(r)
        BY <2>1, <3>2, <3>5, Zenon
      <4> QED
        BY <1>5, <3>3, <3>4, <4>1, <4>2, <4>3, Zenon DEF OwnOutcome
    <3>6. CASE ~(Tokens(l) \subseteq S)
      <4>1. HaveNone(l)' /\ ~Answer(r)
        BY <1>3, <2>1, <3>2, <3>6, Zenon DEF HaveNone, Tokens
      <4> QED
        BY <1>3, <1>4, <1>5, <3>3, <3>4, <3>6, <4>1, Zenon DEF OwnOutcome
    <3> QED
      BY <3>5, <3>6, Zenon
  <2> QED
    BY <2>2, <2>3
<1>6. CASE r.op = "renew"
  <2>1. score' = Renewed(l, r.at) /\ (Answer(r) <=> Tokens(l) \subseteq S)
    BY <1>6 DEF Script, Answer, Owns
  <2>2. CASE Tokens(l) \subseteq S
    <3>1. score' = Stamped(DOMAIN score, l, r.at) /\ Tokens(l) \subseteq DOMAIN score
      BY <1>1, <2>1, <2>2, Zenon DEF Renewed, Owns
    <3>2. /\ ScoreOK' /\ SetInv' /\ Have(l, r.at + TTL)'
          /\ \A m \in Leases \ {l} : \A k \in Tokens(m) :
                 /\ k \in DOMAIN score' <=> k \in DOMAIN score
                 /\ k \in DOMAIN score => score'[k] = score[k]
      <4>1. \A m \in Leases : \A j, k \in Tokens(m) : j \in DOMAIN score => k \in DOMAIN score
        BY Zenon DEF SetInv
      <4> QED
        BY <1>1, <3>1, <4>1, StampKeeps
    <3>3. OthersKept(r) /\ ~HaveNone(l)
      BY <1>1, <3>1, <3>2 DEF OthersKept, HaveNone
    <3> QED
      BY <1>6, <2>1, <2>2, <3>2, <3>3, Zenon DEF OwnOutcome
  <2>3. CASE ~(Tokens(l) \subseteq S)
    <3>1. score' = score /\ ~Answer(r)
      BY <2>1, <2>3, Zenon DEF Renewed, Owns
    <3>2. ScoreOK' /\ SetInv' /\ OthersKept(r)
      BY <3>1 DEF ScoreOK, SetInv, OthersKept, Tokens
    <3> QED
      BY <1>3, <1>4, <1>6, <2>3, <3>1, <3>2, Zenon DEF OwnOutcome
  <2> QED
    BY <2>2, <2>3
<1>7. CASE r.op = "release"
  <2> DEFINE T == DOMAIN score \ Tokens(l)
  <2>1. DOMAIN score' = T /\ \A k \in T : score'[k] = score[k]
    BY <1>7 DEF Script, Removed, Restrict
  <2>2. score' = [k \in T |-> score[k]]
    BY <1>7 DEF Script, Removed, Restrict
  <2>3. IsFiniteSet(T) /\ Cardinality(T) <= Capacity
    <3>1. /\ IsFiniteSet(DOMAIN score) /\ Cardinality(DOMAIN score) <= Capacity
          /\ Cardinality(DOMAIN score) \in Nat
      BY FS_CardinalityType DEF SetInv
    <3>2. IsFiniteSet(T) /\ Cardinality(T) <= Cardinality(DOMAIN score) /\ Cardinality(T) \in Nat
      BY <3>1, FS_Subset, FS_CardinalityType, Zenon
    <3> QED
      BY <3>1, <3>2, PermitAssumption
  <2>4. HaveNone(l)'
    BY <2>1, Zenon DEF HaveNone, Tokens
  <2>5. OthersKept(r)
    BY <1>1, <2>1 DEF OthersKept
  <2>6. ScoreOK'
    BY <2>1, <2>2, Zenon DEF ScoreOK, Tokens
  <2>7. ASSUME NEW m \in Leases, NEW j \in Tokens(m), NEW k \in Tokens(m), j \in T
        PROVE  k \in T /\ score'[j] = score'[k]
    <3>1. k \in DOMAIN score /\ score[j] = score[k]
      BY <2>7 DEF SetInv
    <3>2. m # l
      BY <2>7, Zenon
    <3> QED
      BY <1>1, <2>1, <2>7, <3>1, <3>2, Zenon
  <2>8. SetInv'
    BY <2>1, <2>3, <2>7 DEF SetInv, Tokens
  <2> QED
    BY <1>7, <2>4, <2>5, <2>6, <2>8 DEF OwnOutcome
<1>8. CASE r.op = "held"
  <2>1. score' = score /\ (Answer(r) <=> Tokens(l) \subseteq S)
    BY <1>8 DEF Script, Answer, Owns
  <2>2. ScoreOK' /\ SetInv' /\ OthersKept(r)
    BY <2>1 DEF ScoreOK, SetInv, OthersKept, Tokens
  <2> QED
    BY <1>3, <1>4, <1>8, <2>1, <2>2 DEF OwnOutcome
<1> QED
  BY <1>5, <1>6, <1>7, <1>8, Zenon DEF RequestOK


---------------------------------------------------------------------------
(* The steps that execute a script.                                         *)

(* Every permit of a standing grant, or of one that is about to be accepted,   *)
(* has a score no other process's clock has reached.                           *)
LEMMA NotReached ==
    ASSUME IndInv, NEW m \in Leases, NEW l \in Leases, NEW at \in Nat, at <= clock[l],
           NEW x \in Int, x > clock[m]
    PROVE  x + Margin > at
BY PermitAssumption, SMTT(30) DEF IndInv, TypeOK, ClockInv

(* A request finds the permits of every standing grant unexpired. *)
LEMMA StandingIsUnexpired ==
    ASSUME IndInv, NEW m \in Leases, InUse(m), NEW k \in Tokens(m),
           NEW l \in Leases, NEW at \in Nat, at <= clock[l]
    PROVE  k \in DOMAIN score /\ score[k] \in Nat /\ score[k] > at
<1>1. /\ k \in DOMAIN score /\ expiresAt[m] + Margin <= score[k] /\ score[k] \in Nat
      /\ expiresAt[m] \in Nat /\ clock[m] \in Nat
  BY Zenon DEF IndInv, TypeOK, GrantInv
<1>2. expiresAt[m] > clock[m]
  BY <1>1 DEF InUse, Expired
<1>3. expiresAt[m] + Margin > at
  BY <1>1, <1>2, NotReached
<1> QED
  BY <1>1, <1>3, PermitAssumption

(* What a script leaves of the permits of another lease. *)
LEMMA OthersGrants ==
    ASSUME IndInv, NEW r, RequestOK(r), r.at <= clock[r.lease], OthersKept(r),
           NEW m \in Leases, m # r.lease, NEW k \in Tokens(m)
    PROVE  /\ k \in DOMAIN score' => k \in DOMAIN score /\ score'[k] = score[k]
           /\ InUse(m) => k \in DOMAIN score'
           /\ \A e \in calls : /\ e.lease = m /\ e.op = "acquire" /\ e.st = "ok"
                               /\ Deadline(e) > clock[m]
                               => k \in DOMAIN score'
<1>1. r.lease \in Leases /\ r.at \in Nat
  BY Zenon DEF RequestOK
<1>2. k \in DOMAIN score' => k \in DOMAIN score /\ score'[k] = score[k]
  BY Zenon DEF OthersKept
<1>3. InUse(m) => k \in DOMAIN score'
  BY <1>1, StandingIsUnexpired, Zenon DEF OthersKept
<1>4. ASSUME NEW e \in calls, e.lease = m, e.op = "acquire", e.st = "ok", Deadline(e) > clock[m]
      PROVE  k \in DOMAIN score'
  <2>1. k \in DOMAIN score /\ score[k] = e.at + TTL /\ e.at \in Nat
    BY <1>4, Zenon DEF IndInv, TypeOK, Call, GrantInv
  <2>2. Deadline(e) \in Int /\ Deadline(e) + Margin = score[k]
    BY <2>1, PermitAssumption DEF Deadline
  <2>3. score[k] > r.at
    BY <1>1, <1>4, <2>2, NotReached, Zenon
  <2> QED
    BY <2>1, <2>3, Zenon DEF OthersKept
<1> QED
  BY <1>2, <1>3, <1>4, Zenon

(* Serve keeps the invariant. *)
LEMMA ServeKeeps ==
    ASSUME IndInv, ~Overtaking, SingleRenewer, NEW c \in calls, Serve(c)
    PROVE  IndInv'
<1> USE PermitAssumption, CallAssumption
<1> DEFINE l == c.lease
           answer == IF Answer(c) THEN "ok" ELSE "no"
           d == [c EXCEPT !.st = answer]
<1>1. /\ c \in Call /\ l \in Leases /\ c.at \in Nat /\ c.at <= clock[l] /\ clock[l] \in Nat
      /\ c.op \in {"acquire", "renew", "held", "release"} /\ c.st = "sent" /\ RequestOK(c)
  BY Zenon DEF IndInv, TypeOK, Call, CallInv, Serve, RequestOK
<1>2. /\ c.op = "acquire" => stage[l] = "waiting" /\ c.by = "main"
      /\ c.op = "release" => stage[l] \in {"stopping", "discarding"} /\ c.by = "main"
      /\ c.op \in {"renew", "held"} => stage[l] \in Guarded
  BY DEF IndInv, CallInv
<1>3. /\ d \in Call /\ d.lease = l /\ d.by = c.by /\ d.op = c.op /\ d.at = c.at /\ d.st = answer
      /\ calls' = (calls \ {c}) \cup {d}
      /\ ghosts' = {g \in ghosts : g.lease # l}
      /\ UNCHANGED <<now, clock, stage, expiresAt, lost>>
  BY <1>1, Zenon DEF Call, Serve, Progress, local
<1>4. ScoreOK' /\ SetInv' /\ OthersKept(c) /\ OwnOutcome(c)
  BY <1>1, ScriptOutcome DEF IndInv, TypeOK, ScoreOK, Serve
<1>5. /\ answer \in {"ok", "no"}
      /\ answer = "ok" <=> Answer(c)
  BY Zenon
<1> HIDE DEF d, answer
<1>6. \A m \in Leases : InUse(m)' = InUse(m)
  BY <1>3, Zenon DEF InUse, Expired
<1>7. \A e \in calls' : e = d \/ (e \in calls /\ e # c /\ e.lease \in Leases)
  BY <1>3, Zenon DEF IndInv, TypeOK, Call
<1>8. Tokens(l) # {} /\ \A m \in Leases : \A k \in Tokens(m) : m # l =>
         /\ k \in DOMAIN score' => k \in DOMAIN score /\ score'[k] = score[k]
         /\ InUse(m) => k \in DOMAIN score'
  BY <1>1, <1>4, OthersGrants, TokenFacts, Zenon
<1>9. ASSUME InUse(l), NEW k \in Tokens(l)
      PROVE  /\ c.op \in {"renew", "held"} /\ Answer(c)
             /\ k \in DOMAIN score'
             /\ c.op = "renew" => score'[k] = c.at + TTL
             /\ c.op = "held" => score' = score
  <2>1. c.op \in {"renew", "held"}
    BY <1>1, <1>2, <1>9 DEF InUse
  <2>2. k \in DOMAIN score /\ score[k] \in Nat /\ score[k] > c.at
    BY <1>1, <1>9, StandingIsUnexpired, Zenon
  <2>3. Answer(c)
    <3>1. ~(score[k] <= c.at)
      BY <1>1, <2>2
    <3>2. CASE c.op = "renew"
      BY <1>4, <1>9, <2>2, <3>1, <3>2 DEF OwnOutcome
    <3>3. CASE c.op = "held"
      BY <1>4, <1>9, <2>2, <3>1, <3>3, Zenon DEF OwnOutcome
    <3> QED
      BY <2>1, <3>2, <3>3, Zenon
  <2> QED
    BY <1>4, <2>1, <2>2, <2>3, Zenon DEF OwnOutcome, Have, Tokens
<1>10. TypeOK' /\ ClockInv'
  BY <1>3, <1>4, Zenon DEF IndInv, TypeOK, ScoreOK, ClockInv, Tokens
<1>11. CallInv'
  BY <1>1, <1>3, <1>5, SMTT(30) DEF IndInv, CallInv
<1>12. GhostInv'
  <2>1. ASSUME NEW g \in ghosts', g.op = "acquire", stage'[g.lease] = "waiting"
        PROVE  \E e \in calls' : /\ e.lease = g.lease /\ e.op = "acquire"
                                 /\ e.st = "sent" /\ e.at = g.at
    <3>1. PICK e \in calls : e.lease = g.lease /\ e.op = "acquire" /\ e.st = "sent" /\ e.at = g.at
      BY <1>3, <2>1, Zenon DEF IndInv, GhostInv
    <3> QED
      BY <1>3, <2>1, <3>1, Zenon
  <2> QED
    BY <1>3, <2>1 DEF IndInv, GhostInv
<1>13. ASSUME NEW m \in Leases, NEW k \in Tokens(m)
       PROVE  /\ k \in DOMAIN score' =>
                    stage[m] # "released" /\ (stage[m] = "waiting" => ~Idle(m, "main")')
              /\ InUse(m) => k \in DOMAIN score' /\ expiresAt[m] + Margin <= score'[k]
  <2>1. Idle(m, "main")' = Idle(m, "main")
    BY <1>3, Zenon DEF Idle
  <2>2. CASE m # l
    BY <1>8, <2>1, <2>2, Zenon DEF IndInv, GrantInv
  <2>3. CASE m = l
    <3>1. ASSUME k \in DOMAIN score' PROVE stage[l] # "released"
      <4>1. ~HaveNone(l) => stage[l] # "released"
        BY <1>1 DEF IndInv, GrantInv, HaveNone
      <4>2. CASE c.op \in {"renew", "held"}
        BY <1>4, <2>3, <3>1, <4>1, <4>2, Zenon DEF OwnOutcome, HaveNone
      <4>3. CASE c.op \in {"acquire", "release"}
        BY <1>2, <4>3
      <4> QED
        BY <1>1, <4>2, <4>3, Zenon
    <3>2. ASSUME k \in DOMAIN score', stage[l] = "waiting" PROVE ~Idle(l, "main")
      BY <1>1, <1>2, <3>2 DEF Guarded, Idle
    <3>3. ASSUME InUse(l) PROVE k \in DOMAIN score' /\ expiresAt[l] + Margin <= score'[k]
      <4>1. CASE c.op = "held"
        BY <1>9, <2>3, <3>3, <4>1, Zenon DEF IndInv, GrantInv
      <4>2. CASE c.op = "renew"
        <5>1. expiresAt[l] <= Deadline(c) /\ expiresAt[l] \in Nat
          BY <1>1, <3>3, <4>2, Zenon DEF IndInv, TypeOK, RenewInv
        <5> QED
          BY <1>1, <1>9, <2>3, <3>3, <4>2, <5>1 DEF Deadline
      <4> QED
        BY <1>9, <2>3, <3>3, <4>1, <4>2, Zenon
    <3> QED
      BY <2>1, <2>3, <3>1, <3>2, <3>3, Zenon
  <2> QED
    BY <2>2, <2>3, Zenon
<1>14. ASSUME NEW e \in calls', NEW k \in Tokens(e.lease)
       PROVE  /\ e.op = "acquire" /\ k \in DOMAIN score' => e.st # "no" /\ score'[k] = e.at + TTL
              /\ e.op = "acquire" /\ e.st = "ok" /\ Deadline(e) > clock[e.lease] =>
                    k \in DOMAIN score'
              /\ e.op = "release" /\ e.st \in {"ok", "no"} => k \notin DOMAIN score'
  <2>1. CASE e = d
    <3>1. ASSUME c.op = "acquire", k \in DOMAIN score'
          PROVE  Answer(c) /\ score'[k] = c.at + TTL
      <4>1. k \in DOMAIN score => score[k] = c.at + TTL
        BY <1>3, <2>1, <3>1, Zenon DEF IndInv, GrantInv
      <4> QED
        BY <1>3, <1>4, <2>1, <3>1, <4>1, Zenon DEF OwnOutcome, Have, HaveNone, Tokens
    <3>2. c.op = "acquire" /\ Answer(c) => k \in DOMAIN score'
      BY <1>3, <1>4, <2>1 DEF OwnOutcome, Have, Tokens
    <3>3. c.op = "release" => k \notin DOMAIN score'
      BY <1>3, <1>4, <2>1, Zenon DEF OwnOutcome, HaveNone, Tokens
    <3> QED
      BY <1>3, <1>5, <2>1, <3>1, <3>2, <3>3, Zenon
  <2>2. CASE e \in calls /\ e.lease # l
    <3>1. e.lease \in Leases
      BY <1>7, <1>3, <2>2, Zenon
    <3>2. /\ k \in DOMAIN score' => k \in DOMAIN score /\ score'[k] = score[k]
          /\ e.op = "acquire" /\ e.st = "ok" /\ Deadline(e) > clock[e.lease] => k \in DOMAIN score'
      BY <1>1, <1>4, <2>2, <3>1, OthersGrants, Zenon
    <3> QED
      BY <2>2, <3>2, Zenon DEF IndInv, GrantInv
  <2>3. CASE e \in calls /\ e # c /\ e.lease = l
    <3>1. e.op = "acquire" \/ e.op = "release" => e.by = "main"
      BY <2>3, Zenon DEF IndInv, CallInv
    <3>2. e.op = "acquire" \/ e.op = "release" => c.op \in {"renew", "held"}
      BY <1>1, <1>2, <2>3, <3>1, Zenon DEF IndInv, CallInv
    <3>3. e.op # "acquire"
      BY <1>2, <2>3, <3>2, Zenon DEF IndInv, CallInv, Guarded
    <3>4. ASSUME e.op = "release", e.st \in {"ok", "no"} PROVE k \notin DOMAIN score'
      <4>1. HaveNone(l)
        BY <2>3, <3>4 DEF IndInv, GrantInv, HaveNone
      <4> QED
        BY <1>4, <2>3, <3>2, <3>4, <4>1, Zenon DEF OwnOutcome, HaveNone
    <3> QED
      BY <3>3, <3>4, Zenon
  <2> QED
    BY <1>7, <2>1, <2>2, <2>3, Zenon
<1>15. GrantInv'
  BY <1>3, <1>6, <1>13, <1>14, Zenon DEF GrantInv, Deadline, Tokens
<1>16. ASSUME NEW e \in calls', e.op = "renew", e.st # "checked", InUse(e.lease)
       PROVE  /\ expiresAt[e.lease] <= Deadline(e)
              /\ e.st = "ok" => \A k \in Tokens(e.lease) : Deadline(e) + Margin <= score'[k]
  <2>1. CASE e = d
    <3>1. expiresAt[l] <= Deadline(c) /\ Deadline(e) = Deadline(c) /\ Deadline(c) + Margin = c.at + TTL
      BY <1>1, <1>3, <1>16, <2>1 DEF IndInv, RenewInv, Deadline
    <3>2. \A k \in Tokens(l) : score'[k] = c.at + TTL
      BY <1>3, <1>9, <1>16, <2>1, Zenon
    <3> QED
      BY <1>1, <1>3, <2>1, <3>1, <3>2, SMTT(30)
  <2>2. CASE e \in calls /\ e # c /\ e.lease = l
    <3>1. c.op # "renew"
      BY <1>16, <2>2, OneRenewal, Zenon
    <3>2. score' = score
      BY <1>8, <1>9, <1>16, <2>2, <3>1, Zenon
    <3> QED
      BY <1>16, <2>2, <3>2, Zenon DEF IndInv, RenewInv
  <2>3. CASE e \in calls /\ e.lease \in Leases \ {l}
    BY <1>8, <1>16, <2>3, Zenon DEF IndInv, RenewInv
  <2> QED
    BY <1>7, <2>1, <2>2, <2>3, Zenon
<1>17. RenewInv'
  <2>1. ASSUME NEW g \in ghosts', g.op = "renew", InUse(g.lease)
        PROVE  /\ expiresAt[g.lease] + Margin <= g.at + TTL
               /\ \A e \in calls' : e.lease = g.lease /\ e.op = "renew" => e.st \notin {"ok", "no"}
    BY <1>3, <1>7, <2>1 DEF IndInv, RenewInv
  <2>2. (\A g \in ghosts' : g.lease \in Leases) /\ (\A e \in calls' : e.lease \in Leases)
    BY <1>1, <1>3, <1>7, Zenon DEF IndInv, TypeOK, Request
  <2> QED
    BY <1>3, <1>6, <1>16, <2>1, <2>2, Zenon DEF IndInv, RenewInv, Deadline, Tokens
<1>18. VerdictIsFinal'
  <2>1. ASSUME NEW e \in calls', e.op \in {"renew", "held"}, e.st = "no" PROVE ~InUse(e.lease)
    <3>1. CASE e = d
      BY <1>3, <1>5, <1>8, <1>9, <2>1, <3>1, Zenon
    <3>2. CASE e \in calls
      BY <2>1, <3>2, Zenon DEF IndInv, VerdictIsFinal
    <3> QED
      BY <1>7, <3>1, <3>2, Zenon
  <2> QED
    BY <1>1, <1>3, <1>6, <1>7, <2>1, Zenon DEF VerdictIsFinal
<1> QED
  BY <1>4, <1>10, <1>11, <1>12, <1>15, <1>17, <1>18, Zenon DEF IndInv

(* ServeGhost keeps the invariant: what is left behind of a lease cannot lower *)
(* a confirmed score, nor bring permits back for a grant that is over.         *)
LEMMA ServeGhostKeeps ==
    ASSUME IndInv, ~Overtaking, SingleRenewer, NEW g \in ghosts, ServeGhost(g)
    PROVE  IndInv'
<1> USE PermitAssumption, CallAssumption
<1> DEFINE l == g.lease
<1>1. /\ g \in Request /\ l \in Leases /\ g.at \in Nat /\ g.at <= clock[l] /\ clock[l] \in Nat
      /\ g.op \in {"acquire", "renew", "release"} /\ RequestOK(g)
  BY Zenon DEF IndInv, TypeOK, Request, GhostInv, RequestOK
<1>2. /\ g.op = "acquire" => stage[l] \in {"waiting", "failed"}
      /\ g.op = "renew" => stage[l] \in Guarded
      /\ g.op = "release" => stage[l] \in {"discarding", "failed", "stopping", "released"}
  BY DEF IndInv, GhostInv
<1>3. UNCHANGED <<now, clock, stage, expiresAt, lost, calls, ghosts>>
  BY Zenon DEF ServeGhost, local
<1>4. ScoreOK' /\ SetInv' /\ OthersKept(g) /\ OwnOutcome(g)
  BY <1>1, ScriptOutcome, Zenon DEF IndInv, TypeOK, ScoreOK, ServeGhost
<1>5. \A m \in Leases : InUse(m)' = InUse(m)
  BY <1>3, Zenon DEF InUse, Expired
<1>6. Tokens(l) # {} /\ \A m \in Leases : \A k \in Tokens(m) : m # l =>
         /\ k \in DOMAIN score' => k \in DOMAIN score /\ score'[k] = score[k]
         /\ InUse(m) => k \in DOMAIN score'
  BY <1>1, <1>4, OthersGrants, TokenFacts
<1>7. ASSUME InUse(l), NEW k \in Tokens(l)
      PROVE  g.op = "renew" /\ k \in DOMAIN score' /\ score'[k] = g.at + TTL
  <2>1. g.op = "renew"
    BY <1>1, <1>2, <1>7, Zenon DEF InUse
  <2>2. k \in DOMAIN score /\ score[k] \in Nat /\ score[k] > g.at
    BY <1>1, <1>7, StandingIsUnexpired, Zenon
  <2>3. ~(score[k] <= g.at)
    BY <1>1, <2>2
  <2>4. Answer(g)
    BY <1>4, <1>7, <2>1, <2>2, <2>3, Zenon DEF OwnOutcome
  <2> QED
    BY <1>4, <1>7, <2>1, <2>4, Zenon DEF OwnOutcome, Have, Tokens
<1>8. TypeOK' /\ ClockInv' /\ CallInv' /\ GhostInv'
  BY <1>3, <1>4 DEF IndInv, TypeOK, ScoreOK, ClockInv, CallInv, GhostInv, Tokens
<1>9. ASSUME NEW m \in Leases, NEW k \in Tokens(m)
      PROVE  /\ k \in DOMAIN score' =>
                   stage[m] # "released" /\ (stage[m] = "waiting" => ~Idle(m, "main"))
             /\ InUse(m) => k \in DOMAIN score' /\ expiresAt[m] + Margin <= score'[k]
  <2>1. CASE m # l
    BY <1>6, <2>1, Zenon DEF IndInv, GrantInv
  <2>2. CASE m = l
    <3>1. ASSUME k \in DOMAIN score' PROVE stage[l] # "released"
      <4>1. ~HaveNone(l) => stage[l] # "released"
        BY <1>1 DEF IndInv, GrantInv, HaveNone
      <4>2. CASE g.op = "renew"
        BY <1>4, <2>2, <3>1, <4>1, <4>2, Zenon DEF OwnOutcome, HaveNone
      <4>3. CASE g.op = "acquire"
        BY <1>2, <4>3
      <4>4. CASE g.op = "release"
        BY <1>4, <2>2, <3>1, <4>4, Zenon DEF OwnOutcome, HaveNone, Tokens
      <4> QED
        BY <1>1, <4>2, <4>3, <4>4, Zenon
    <3>2. ASSUME stage[l] = "waiting" PROVE ~Idle(l, "main")
      <4>1. g.op = "acquire"
        BY <1>1, <1>2, <3>2, Zenon DEF Guarded
      <4>2. PICK c \in calls : c.lease = l /\ c.op = "acquire"
        BY <3>2, <4>1, Zenon DEF IndInv, GhostInv
      <4> QED
        BY <4>2, Zenon DEF IndInv, CallInv, Idle
    <3>3. ASSUME InUse(l) PROVE k \in DOMAIN score' /\ expiresAt[l] + Margin <= score'[k]
      <4>1. g.op = "renew" /\ k \in DOMAIN score' /\ score'[k] = g.at + TTL
        BY <1>7, <2>2, <3>3, Zenon
      <4> QED
        BY <3>3, <4>1, Zenon DEF IndInv, RenewInv
    <3> QED
      BY <2>2, <3>1, <3>2, <3>3, Zenon
  <2> QED
    BY <2>1, <2>2, Zenon
<1>10. ASSUME NEW e \in calls, NEW k \in Tokens(e.lease)
       PROVE  /\ e.op = "acquire" /\ k \in DOMAIN score' => e.st # "no" /\ score'[k] = e.at + TTL
              /\ e.op = "acquire" /\ e.st = "ok" /\ Deadline(e) > clock[e.lease] =>
                    k \in DOMAIN score'
              /\ e.op = "release" /\ e.st \in {"ok", "no"} => k \notin DOMAIN score'
  <2>1. e.lease \in Leases
    BY Zenon DEF IndInv, TypeOK, Call
  <2>2. CASE e.lease # l
    <3>1. /\ k \in DOMAIN score' => k \in DOMAIN score /\ score'[k] = score[k]
          /\ e.op = "acquire" /\ e.st = "ok" /\ Deadline(e) > clock[e.lease] => k \in DOMAIN score'
      BY <1>1, <1>4, <2>1, <2>2, OthersGrants, Zenon
    <3> QED
      BY <3>1, Zenon DEF IndInv, GrantInv
  <2>3. CASE e.lease = l
    <3>1. ASSUME e.op = "acquire"
          PROVE  e.st = "sent" /\ (k \in DOMAIN score' => score'[k] = e.at + TTL)
      <4>1. stage[l] = "waiting" /\ e.by = "main"
        BY <2>3, <3>1, Zenon DEF IndInv, CallInv
      <4>2. g.op = "acquire"
        BY <1>1, <1>2, <4>1, Zenon DEF Guarded
      <4>3. PICK c \in calls : c.lease = l /\ c.op = "acquire" /\ c.st = "sent" /\ c.at = g.at
        BY <4>1, <4>2, Zenon DEF IndInv, GhostInv
      <4>4. e = c
        BY <2>3, <4>1, <4>3, SMTT(30) DEF IndInv, CallInv
      <4>5. k \in DOMAIN score => score[k] = e.at + TTL
        BY <3>1 DEF IndInv, GrantInv
      <4> QED
        BY <1>4, <2>3, <4>2, <4>3, <4>4, <4>5 DEF OwnOutcome, Have, HaveNone, Tokens
    <3>2. ASSUME e.op = "release", e.st \in {"ok", "no"} PROVE k \notin DOMAIN score'
      <4>1. HaveNone(l)
        BY <2>3, <3>2, SMTT(30) DEF IndInv, GrantInv, HaveNone
      <4>2. stage[l] \in {"stopping", "discarding"}
        BY <2>3, <3>2 DEF IndInv, CallInv
      <4>3. g.op \in {"renew", "release"}
        BY <1>1, <1>2, <4>2, Zenon
      <4> QED
        BY <1>4, <2>3, <4>1, <4>3, Zenon DEF OwnOutcome, HaveNone, Tokens
    <3> QED
      BY <3>1, <3>2, Zenon
  <2> QED
    BY <2>2, <2>3, Zenon
<1>11. GrantInv'
  BY <1>3, <1>5, <1>9, <1>10, Zenon DEF GrantInv, Idle, Deadline, Tokens
<1>12. ASSUME NEW e \in calls, e.op = "renew", e.st = "ok", InUse(e.lease), NEW k \in Tokens(e.lease)
       PROVE  Deadline(e) + Margin <= score'[k]
  <2>1. e.lease # l
    BY <1>6, <1>7, <1>12, Zenon DEF IndInv, RenewInv
  <2> QED
    BY <1>6, <1>12, <2>1, Zenon DEF IndInv, TypeOK, Call, RenewInv
<1>13. RenewInv'
  <2>1. (\A h \in ghosts : h.lease \in Leases) /\ (\A e \in calls : e.lease \in Leases)
    BY Zenon DEF IndInv, TypeOK, Request, Call
  <2> QED
    BY <1>3, <1>5, <1>12, <2>1, Zenon DEF IndInv, RenewInv, Deadline, Tokens
<1>14. VerdictIsFinal'
  BY <1>3, <1>5 DEF IndInv, TypeOK, Call, VerdictIsFinal
<1> QED
  BY <1>4, <1>8, <1>11, <1>13, <1>14, Zenon DEF IndInv

---------------------------------------------------------------------------
(* The theorems.                                                            *)

(* Initially there are no permits and no calls. *)
LEMMA PermitsInit == Init => IndInv
<1> SUFFICES ASSUME Init PROVE IndInv
  OBVIOUS
<1>1. DOMAIN score = {} /\ IsFiniteSet(DOMAIN score) /\ Cardinality(DOMAIN score) = 0
  BY FS_EmptySet, Zenon DEF Init
<1>2. TypeOK
  BY <1>1 DEF Init, TypeOK, Stages
<1>3. SetInv
  BY <1>1, PermitAssumption, SMTT(30) DEF SetInv
<1>4. ClockInv /\ CallInv /\ GhostInv /\ VerdictIsFinal
  BY PermitAssumption DEF Init, ClockInv, CallInv, GhostInv, VerdictIsFinal
<1>5. GrantInv
  BY <1>1, Zenon DEF Init, GrantInv, InUse
<1>6. RenewInv
  BY PermitAssumption DEF Init, RenewInv
<1> QED
  BY <1>2, <1>3, <1>4, <1>5, <1>6, Zenon DEF IndInv

(* Every step keeps the invariant. *)
LEMMA PermitsStep ==
    ASSUME ~Overtaking, SingleRenewer
    PROVE  IndInv /\ [Next]_vars => IndInv'
<1> SUFFICES ASSUME IndInv, [Next]_vars PROVE IndInv'
  OBVIOUS
<1>1. CASE \E l \in Leases : \/ StartAcquire(l) \/ GiveUp(l) \/ DeadlineOver(l)
                             \/ Stop(l) \/ StartRelease(l)
  BY <1>1, StartAcquireKeeps, GiveUpKeeps, DeadlineOverKeeps, StopKeeps, StartReleaseKeeps, Zenon
<1>2. CASE \E l \in Leases : \E by \in Callers : CheckCall(l, by)
  BY <1>2, CheckCallKeeps, Zenon
<1>3. CASE \E c \in calls : SendCall(c) \/ Serve(c) \/ Resend(c) \/ Fail(c)
  BY <1>3, SendCallKeeps, ServeKeeps, ResendKeeps, FailKeeps, Zenon
<1>4. CASE \E c \in calls : \/ ReceiveGrant(c) \/ ReceiveBusy(c)
                            \/ ReceiveRenew(c) \/ ReceiveHeld(c) \/ ReceiveRelease(c)
  BY <1>4, ReceiveGrantKeeps, ReceiveBusyKeeps, ReceiveRenewKeeps, ReceiveHeldKeeps,
     ReceiveReleaseKeeps, Zenon
<1>5. CASE \E g \in ghosts : ServeGhost(g)
  BY <1>5, ServeGhostKeeps
<1>6. CASE Tick
  BY <1>6, TickKeeps, Zenon
<1>7. CASE UNCHANGED vars
  <2>1. /\ UNCHANGED <<now, clock, score, stage, expiresAt, lost, calls, ghosts>>
        /\ \A l \in Leases : InUse(l)' = InUse(l)
    BY <1>7, Zenon DEF vars, InUse, Expired
  <2>2. TypeOK' /\ ClockInv' /\ SetInv' /\ CallInv' /\ GhostInv'
    BY <2>1, Zenon DEF IndInv, TypeOK, ClockInv, SetInv, CallInv, GhostInv, Tokens
  <2>3. (\A c \in calls : c.lease \in Leases) /\ (\A g \in ghosts : g.lease \in Leases)
    BY DEF IndInv, TypeOK, Call, Request
  <2>4. GrantInv'
    BY <2>1, <2>3, Zenon DEF IndInv, GrantInv, Idle, Deadline, Tokens
  <2>5. RenewInv' /\ VerdictIsFinal'
    BY <2>1, <2>3, Zenon DEF IndInv, RenewInv, VerdictIsFinal, Deadline, Tokens
  <2> QED
    BY <2>2, <2>4, <2>5, Zenon DEF IndInv
<1> QED
  BY <1>1, <1>2, <1>3, <1>4, <1>5, <1>6, <1>7, Zenon DEF Next

(* IndInv holds in every reachable state, when no copy of a request overtakes a *)
(* later request of its lease and one goroutine renews.                         *)
THEOREM PermitsInvariant ==
    ASSUME ~Overtaking, SingleRenewer
    PROVE  Spec => []IndInv
BY PermitsInit, PermitsStep, PTL DEF Spec

(* The permits in use are in the sorted set, which is within the capacity. *)
LEMMA UsedIsCounted ==
    ASSUME IndInv
    PROVE  /\ IsFiniteSet(DOMAIN score) /\ Cardinality(DOMAIN score) <= Capacity
           /\ Cardinality(DOMAIN score) \in Nat /\ Cardinality(UsedPermits) \in Nat
           /\ Cardinality(UsedPermits) <= Cardinality(DOMAIN score)
<1>1. UsedPermits \subseteq DOMAIN score
  BY DEF IndInv, GrantInv, UsedPermits
<1>2. IsFiniteSet(DOMAIN score) /\ Cardinality(DOMAIN score) <= Capacity
  BY DEF IndInv, SetInv
<1>3. IsFiniteSet(UsedPermits) /\ Cardinality(UsedPermits) <= Cardinality(DOMAIN score)
  BY <1>1, <1>2, FS_Subset, Zenon
<1> QED
  BY <1>2, <1>3, FS_CardinalityType, Zenon

(* The inductive invariant implies the capacity bound. *)
LEMMA CapacityFollows == IndInv => CapacityKept
BY UsedIsCounted, PermitAssumption DEF CapacityKept

(* At most Capacity permits are in use at once, across all processes, whatever  *)
(* the grants ask for and wherever the clocks are within the drift.             *)
THEOREM CapacityIsKept ==
    ASSUME ~Overtaking, SingleRenewer
    PROVE  Spec => []CapacityKept
BY CapacityFollows, PermitsInvariant, PTL

(* Available never reports a permit as free that a holder still uses. *)
THEOREM AvailableIsNeverTooHigh ==
    ASSUME ~Overtaking, SingleRenewer
    PROVE  Spec => []AvailableIsFree
<1>1. IndInv => AvailableIsFree
  BY UsedIsCounted, PermitAssumption DEF AvailableIsFree, Available
<1> QED
  BY <1>1, PermitsInvariant, PTL

(* The permits of one grant are in the sorted set together or not at all. *)
THEOREM GrantsAreNeverSplit ==
    ASSUME ~Overtaking, SingleRenewer
    PROVE  Spec => []AllOrNothing
<1>1. IndInv => AllOrNothing
  BY Zenon DEF IndInv, SetInv, AllOrNothing
<1> QED
  BY <1>1, PermitsInvariant, PTL

(* A loss that Renew or Held reports is real. *)
THEOREM LossIsReal ==
    ASSUME ~Overtaking, SingleRenewer
    PROVE  Spec => []VerdictIsFinal
<1>1. IndInv => VerdictIsFinal
  BY Zenon DEF IndInv
<1> QED
  BY <1>1, PermitsInvariant, PTL

(* The permits of a lease are free again once its Release has returned: no     *)
(* request left behind brings them back.                                       *)
THEOREM ReleaseIsFinal ==
    ASSUME ~Overtaking, SingleRenewer
    PROVE  Spec => []ReleasedStaysFree
<1>1. IndInv => ReleasedStaysFree
  BY Zenon DEF IndInv, GrantInv, ReleasedStaysFree
<1> QED
  BY <1>1, PermitsInvariant, PTL

---------------------------------------------------------------------------
(* The refinement.                                                          *)

Users == {l \in Leases : InUse(l)}

Granted == {l \in Leases : stage[l] \in Guarded}

\* A loss is only ever declared for a lease that had its grant.
LossInv == \A l \in Leases : stage[l] = "waiting" => l \notin lost

(* Every step keeps LossInv: renewals and checks belong to granted leases. *)
LEMMA LossStep == IndInv /\ LossInv /\ [Next]_vars => LossInv'
<1> SUFFICES ASSUME IndInv, LossInv, [Next]_vars PROVE LossInv'
  BY Zenon
<1>1. /\ stage \in [Leases -> Stages] /\ calls \subseteq Call
      /\ \A c \in calls : /\ c.lease \in Leases
                          /\ c.op \in {"acquire", "renew", "held", "release"}
                          /\ c.op \in {"renew", "held"} => stage[c.lease] \in Guarded
                          /\ c.st = "checked" => c.op \in {"renew", "held"}
  BY Zenon DEF IndInv, TypeOK, Call, CallInv
<1> USE <1>1 DEF LossInv, Guarded, Stages, local
<1>2. ASSUME NEW l \in Leases, \/ StartAcquire(l) \/ GiveUp(l) \/ DeadlineOver(l)
                               \/ Stop(l) \/ StartRelease(l)
      PROVE  LossInv'
  BY <1>2, Zenon DEF StartAcquire, GiveUp, DeadlineOver, Stop, StartRelease
<1>3. ASSUME NEW l \in Leases, NEW by \in Callers, CheckCall(l, by) PROVE LossInv'
  BY <1>3, Zenon DEF CheckCall
<1>4. ASSUME NEW c \in calls, SendCall(c) \/ Fail(c) PROVE LossInv'
  <2>1. \/ lost' = lost
        \/ lost' = lost \cup {c.lease} /\ c.op \in {"renew", "held"}
    BY <1>4 DEF SendCall, Fail
  <2>2. stage' = stage \/ stage' = [stage EXCEPT ![c.lease] = "failed"]
    BY <1>4, Zenon DEF SendCall, Fail
  <2> QED
    BY <2>1, <2>2
<1>9. ASSUME NEW c \in calls, Serve(c) \/ Resend(c) PROVE LossInv'
  BY <1>9, Zenon DEF Serve, Resend
<1>5. ASSUME NEW c \in calls, ReceiveGrant(c) PROVE LossInv'
  <2>1. /\ lost' = lost
        /\ \/ stage' = [stage EXCEPT ![c.lease] = "held"]
           \/ stage' = [stage EXCEPT ![c.lease] = "discarding"]
    <3>1. CASE Deadline(c) > clock[c.lease]
      BY <1>5, <3>1, Zenon DEF ReceiveGrant
    <3>2. CASE ~(Deadline(c) > clock[c.lease])
      BY <1>5, <3>2, Zenon DEF ReceiveGrant
    <3> QED
      BY <3>1, <3>2, Zenon
  <2> QED
    BY <2>1, Zenon
<1>10. ASSUME NEW c \in calls, ReceiveRenew(c) \/ ReceiveHeld(c) PROVE LossInv'
  <2>1. /\ stage' = stage /\ lost' \in {lost, lost \cup {c.lease}}
        /\ c.op \in {"renew", "held"}
    BY <1>10 DEF ReceiveRenew, ReceiveHeld
  <2> QED
    BY <2>1
<1>11. ASSUME NEW c \in calls, ReceiveBusy(c) \/ ReceiveRelease(c) PROVE LossInv'
  BY <1>11, Zenon DEF ReceiveBusy, ReceiveRelease
<1>6. ASSUME NEW g \in ghosts, ServeGhost(g) PROVE LossInv'
  BY <1>6, Zenon DEF ServeGhost
<1>7. CASE Tick
  BY <1>7, Zenon DEF Tick
<1>8. CASE UNCHANGED vars
  BY <1>8, Zenon DEF vars
<1> QED
  BY <1>2, <1>3, <1>4, <1>5, <1>6, <1>7, <1>8, <1>9, <1>10, <1>11, Zenon DEF Next

(* ReceiveGrant hands out the lease's permits within the capacity, once, or    *)
(* discards the grant.                                                         *)
LEMMA GrantRefines ==
    ASSUME IndInv, IndInv', LossInv, NEW c \in calls, ReceiveGrant(c)
    PROVE  \/ UNCHANGED <<Users, Granted>>
           \/ /\ c.lease \notin Granted
              /\ Cardinality(Pool!Permits(Users \cup {c.lease})) <= Capacity
              /\ Users' = Users \cup {c.lease}
              /\ Granted' = Granted \cup {c.lease}
<1> DEFINE l == c.lease
<1>1. /\ l \in Leases /\ stage \in [Leases -> Stages] /\ expiresAt \in [Leases -> Nat]
      /\ stage[l] = "waiting" /\ l \notin lost
  BY Zenon DEF IndInv, TypeOK, Call, CallInv, ReceiveGrant, LossInv
<1>2. ASSUME NEW m \in Leases, m # l
      PROVE  InUse(m)' = InUse(m) /\ stage'[m] = stage[m]
  BY <1>1, <1>2, Zenon DEF ReceiveGrant, InUse, Expired
<1>3. CASE Deadline(c) > clock[l]
  <2>1. stage'[l] = "held" /\ lost' = lost /\ expiresAt'[l] = Deadline(c) /\ clock' = clock
    BY <1>1, <1>3, Zenon DEF ReceiveGrant
  <2>2. Deadline(c) \in Int /\ clock[l] \in Int
    BY <1>1, PermitAssumption DEF IndInv, TypeOK, Call, Deadline
  <2>3. InUse(l)'
    BY <1>1, <1>3, <2>1, <2>2 DEF InUse, Expired
  <2>4. Users' = Users \cup {l} /\ Granted' = Granted \cup {l} /\ l \notin Granted
    BY <1>1, <1>2, <2>1, <2>3, Zenon DEF Users, Granted, Guarded
  <2>5. Pool!Permits(Users \cup {l}) = UsedPermits'
    <3>1. \A m \in Leases : {m} \X (1 .. Need[m]) = Tokens(m)
      BY DEF Tokens
    <3>2. UsedPermits' = UNION {Tokens(m) : m \in Users'}
      BY DEF UsedPermits, Users, Tokens
    <3>3. Users' \subseteq Leases
      BY DEF Users
    <3> QED
      BY <2>4, <3>1, <3>2, <3>3, Zenon DEF Pool!Permits
  <2>6. CapacityKept'
    BY CapacityFollows, PTL
  <2> QED
    BY <2>4, <2>5, <2>6, Zenon DEF CapacityKept
<1>4. CASE ~(Deadline(c) > clock[l])
  <2>1. stage'[l] = "discarding"
    BY <1>1, <1>4, Zenon DEF ReceiveGrant
  <2>2. ~InUse(l) /\ ~InUse(l)'
    BY <1>1, <2>1, Zenon DEF InUse
  <2> QED
    BY <1>1, <1>2, <2>1, <2>2, Zenon DEF Users, Granted, Guarded
<1> QED
  BY <1>3, <1>4, Zenon

(* Every other step hands out nothing and brings no ended use back.            *)
LEMMA OtherRefines ==
    ASSUME IndInv, [Next]_vars, \A c \in calls : ~ReceiveGrant(c)
    PROVE  Users' \in SUBSET Users /\ Granted' = Granted
<1>1. /\ stage \in [Leases -> Stages] /\ expiresAt \in [Leases -> Nat]
      /\ clock \in [Leases -> Nat]
      /\ \A c \in calls : /\ c.lease \in Leases /\ c.at \in Nat
                          /\ c.op \in {"acquire", "renew", "held", "release"}
                          /\ c.op = "acquire" => stage[c.lease] = "waiting"
                          /\ c.op = "release" => stage[c.lease] \in {"stopping", "discarding"}
  BY Zenon DEF IndInv, TypeOK, Call, CallInv
<1> DEFINE Ends(m) == /\ InUse(m)' => InUse(m)
                      /\ stage'[m] \in Guarded <=> stage[m] \in Guarded
<1> SUFFICES \A m \in Leases : Ends(m)
  BY Zenon DEF Users, Granted, Guarded
<1> USE <1>1 DEF Guarded, Stages, local, InUse, Expired
<1>2. ASSUME NEW l \in Leases, \/ StartAcquire(l) \/ GiveUp(l) \/ DeadlineOver(l)
                               \/ Stop(l) \/ StartRelease(l), NEW m \in Leases
      PROVE  Ends(m)
  BY <1>2, Zenon DEF StartAcquire, GiveUp, DeadlineOver, Stop, StartRelease
<1>3. ASSUME NEW l \in Leases, NEW by \in Callers, CheckCall(l, by), NEW m \in Leases
      PROVE  Ends(m)
  BY <1>3, Zenon DEF CheckCall
<1>4. ASSUME NEW c \in calls, NEW m \in Leases, SendCall(c) \/ Serve(c) \/ Resend(c) \/ ReceiveBusy(c)
      PROVE  Ends(m)
  <2>1. UNCHANGED <<clock, stage, expiresAt>> /\ lost \subseteq lost'
    BY <1>4, Zenon DEF SendCall, Serve, Resend, ReceiveBusy
  <2> QED
    BY <2>1
<1>5. ASSUME NEW c \in calls, NEW m \in Leases, Fail(c)
      PROVE  Ends(m)
  <2>1. UNCHANGED <<clock, expiresAt>> /\ lost \subseteq lost'
    BY <1>5, Zenon DEF Fail
  <2>2. \/ stage' = stage
        \/ stage' = [stage EXCEPT ![c.lease] = "failed"] /\ stage[c.lease] \in {"waiting", "discarding"}
    BY <1>5, Zenon DEF Fail
  <2> QED
    BY <2>1, <2>2, Zenon
<1>9. ASSUME NEW c \in calls, NEW m \in Leases, ReceiveRenew(c)
      PROVE  Ends(m)
  <2>1. UNCHANGED <<clock, stage>> /\ lost \subseteq lost'
    BY <1>9, Zenon DEF ReceiveRenew
  <2>2. expiresAt' = expiresAt \/ (~Expired(c.lease) /\ c.lease \notin lost' \ lost
                                    /\ expiresAt' = [expiresAt EXCEPT ![c.lease] = Deadline(c)])
    BY <1>9, Zenon DEF ReceiveRenew, Confirms
  <2> QED
    BY <2>1, <2>2, Zenon
<1>10. ASSUME NEW c \in calls, NEW m \in Leases, ReceiveHeld(c)
       PROVE  Ends(m)
  <2>1. UNCHANGED <<clock, stage, expiresAt>> /\ lost \subseteq lost'
    BY <1>10, Zenon DEF ReceiveHeld
  <2> QED
    BY <2>1
<1>11. ASSUME NEW c \in calls, NEW m \in Leases, ReceiveRelease(c)
       PROVE  Ends(m)
  <2>1. /\ UNCHANGED <<clock, lost>> /\ expiresAt' = [expiresAt EXCEPT ![c.lease] = 0]
        /\ stage' = [stage EXCEPT ![c.lease] = IF @ = "discarding" THEN "failed" ELSE "released"]
        /\ stage[c.lease] \in {"stopping", "discarding"}
    BY <1>11, Zenon DEF ReceiveRelease
  <2> QED
    BY <2>1, Zenon
<1>6. ASSUME NEW g \in ghosts, ServeGhost(g), NEW m \in Leases
      PROVE  Ends(m)
  BY <1>6, Zenon DEF ServeGhost
<1>7. ASSUME Tick, NEW m \in Leases
      PROVE  Ends(m)
  <2>1. clock'[m] \in Int /\ clock[m] <= clock'[m] /\ UNCHANGED <<stage, expiresAt, lost>>
    BY <1>7, PermitAssumption DEF Tick, IndInv, TypeOK
  <2> QED
    BY <2>1
<1>8. ASSUME UNCHANGED vars, NEW m \in Leases
      PROVE  Ends(m)
  BY <1>8 DEF vars
<1> QED
  BY <1>2, <1>3, <1>4, <1>5, <1>6, <1>7, <1>8, <1>9, <1>10, <1>11, Zenon
  DEF Next

(* The semaphore, with its sorted set purged by other processes' clocks, its   *)
(* retries, late replies and copies of requests, is to its users the pool of   *)
(* PermitPool: never more than the capacity, and no ended grant comes back.    *)
THEOREM PoolRefinement ==
    ASSUME ~Overtaking, SingleRenewer
    PROVE  Spec => ImplementsPermitPool
<1>1. Init => LossInv /\ Users = {} /\ Granted = {}
  BY DEF Init, LossInv, Users, Granted, InUse, Guarded
<1>2. IndInv /\ LossInv /\ IndInv' /\ [Next]_vars => [Pool!Next]_<<Users, Granted>>
  <2> SUFFICES ASSUME IndInv, LossInv, IndInv', [Next]_vars
               PROVE  [Pool!Next]_<<Users, Granted>>
    OBVIOUS
  <2>1. ASSUME NEW c \in calls, ReceiveGrant(c)
        PROVE  [Pool!Next]_<<Users, Granted>>
    <3>1. c.lease \in Leases
      BY Zenon DEF IndInv, TypeOK, Call
    <3>2. UNCHANGED <<Users, Granted>> \/ Pool!Grant(c.lease)
      <4>1. CASE UNCHANGED <<Users, Granted>>
        BY <4>1
      <4>2. CASE /\ c.lease \notin Granted
                 /\ Cardinality(Pool!Permits(Users \cup {c.lease})) <= Capacity
                 /\ Users' = Users \cup {c.lease}
                 /\ Granted' = Granted \cup {c.lease}
        BY <4>2, Zenon DEF Pool!Grant, Pool!Cardinality, Cardinality, Users, Granted, Guarded
      <4> QED
        BY <2>1, <4>1, <4>2, GrantRefines, Zenon
    <3> QED
      BY <3>1, <3>2, Zenon DEF Pool!Next
  <2>2. CASE \A c \in calls : ~ReceiveGrant(c)
    BY <2>2, OtherRefines, Zenon DEF Pool!Next, Pool!End, Users, Granted, Guarded
  <2> QED
    BY <2>1, <2>2
<1>3. Init => Pool!Init
  BY <1>1, Zenon DEF Pool!Init, Users, Granted, Guarded
<1>4. IndInv /\ LossInv /\ IndInv' /\ [Next]_vars
         => [Pool!Next]_<<{l \in Leases : InUse(l)},
                          {l \in Leases : stage[l] \in {"held", "stopping", "released"}}>>
  BY <1>2 DEF Users, Granted, Guarded
<1> QED
  BY <1>1, <1>3, <1>4, LossStep, PermitsInvariant, PTL DEF Spec, ImplementsPermitPool, Pool!Spec
============================================================================
