-------------------------- MODULE LeaderProofs -----------------------------
(* Proofs about LeaderElection, for any calls, Leader values and number of   *)
(* grants.                                                                   *)
EXTENDS LeaderElection, TLAPS

(* Initially nobody leads. *)
LEMMA LeaderInit == Init => LeaderInv
BY LeaderAssumption
   DEF Init, LeaderInv, TypeOK, FieldKept, LeaseKept, Prompt, TokenKept, Told, Held, Places

(* A step that neither grants nor hands out a token keeps the tokens in order. *)
LEMMA TokensStay ==
    ASSUME LeaderInv, UNCHANGED <<counter, token>>, owner' \in {owner, Nobody},
           \A q \in Runs : pc'[q] \in Held => pc[q] \in Held
    PROVE  \A q \in Runs : TokenKept(q)'
<1> SUFFICES ASSUME NEW q \in Runs PROVE TokenKept(q)'
  OBVIOUS
<1>1. TokenKept(q) /\ Nobody # q
  BY LeaderAssumption DEF LeaderInv
<1> QED
  BY <1>1 DEF TokenKept

(* Joining an error of runHeld gives a set of such errors. *)
LEMMA JoinedType ==
    ASSUME NEW r \in Runs, NEW error \in {"leadership lost", "release"},
           result \in [Runs -> SUBSET {"leadership lost", "release"}]
    PROVE  Joined(r, error) \in [Runs -> SUBSET {"leadership lost", "release"}]
<1>1. result[r] \cup {error} \in SUBSET {"leadership lost", "release"}
  OBVIOUS
<1> QED
  BY <1>1 DEF Joined

(* Call keeps the invariant. *)
LEMMA CallKeeps ==
    ASSUME LeaderInv, NEW r \in Runs, Call(r)
    PROVE  LeaderInv'
<1> USE LeaderAssumption DEF Go
<1>1. TypeOK /\ LeaseKept(r) /\ FieldKept(HandleOf[r])
  BY DEF LeaderInv
<1>2. TypeOK'
  BY <1>1 DEF TypeOK, Places, Call
<1>3. ASSUME NEW l \in Leaders PROVE FieldKept(l)'
  <2>1. FieldKept(l)
    BY DEF LeaderInv
  <2> QED
    BY <1>1, <2>1 DEF TypeOK, FieldKept, Call
<1>4. ASSUME NEW q \in Runs PROVE LeaseKept(q)'
  <2>1. LeaseKept(q)
    BY DEF LeaderInv
  <2> QED
    BY <1>1, <2>1 DEF TypeOK, LeaseKept, Call
<1>5. ASSUME NEW q \in Runs, ~Stalls PROVE Prompt(q)'
  <2>1. Prompt(q) /\ LeaseKept(q) /\ Prompt(r)
    BY <1>5 DEF LeaderInv
  <2> QED
    BY <1>1, <1>5, <2>1 DEF TypeOK, LeaseKept, Prompt, Call
<1>6. \A q \in Runs : TokenKept(q)'
  <2>1. \A q \in Runs : pc'[q] \in Held => pc[q] \in Held
    BY <1>1 DEF TypeOK, Held, Call
  <2> QED
    BY <2>1, TokensStay DEF Call
<1>7. ASSUME NEW q \in Runs PROVE Told(q)'
  <2>1. Told(q)
    BY DEF LeaderInv
  <2> QED
    BY <1>1, <2>1 DEF TypeOK, Told, Call
<1> QED
  BY <1>2, <1>3, <1>4, <1>5, <1>6, <1>7 DEF LeaderInv

(* Grant keeps the invariant. *)
LEMMA GrantKeeps ==
    ASSUME LeaderInv, NEW r \in Runs, Grant(r)
    PROVE  LeaderInv'
<1> USE LeaderAssumption DEF Go
<1>1. TypeOK /\ LeaseKept(r) /\ FieldKept(HandleOf[r])
  BY DEF LeaderInv
<1>2. TypeOK'
  <2>1. counter \in Nat /\ counter' = counter + 1
    BY <1>1 DEF TypeOK, Grant
  <2>2. counter' \in Nat
    BY ONLY <2>1
  <2>3. owner' \in Runs \cup {Nobody} /\ pc' \in [Runs -> Places]
    BY <1>1 DEF TypeOK, Places, Grant
  <2>4. token' \in [Runs -> Nat]
    <3>1. token \in [Runs -> Nat] /\ token' = [token EXCEPT ![r] = counter']
      BY <1>1, <2>1 DEF TypeOK, Grant
    <3> QED
      BY <2>2, <3>1
  <2>5. /\ valid' \in [Runs -> BOOLEAN] /\ lost' \in [Runs -> BOOLEAN]
        /\ canceled' \in [Runs -> BOOLEAN]
    BY <1>1 DEF TypeOK, Grant
  <2>6. overtaken' \in [Runs -> BOOLEAN]
    BY <1>1 DEF TypeOK, Grant
  <2> QED
    BY <1>1, <2>2, <2>4, <2>5, <2>6, <2>3 DEF TypeOK, Grant
<1>3. ASSUME NEW l \in Leaders PROVE FieldKept(l)'
  <2>1. FieldKept(l)
    BY DEF LeaderInv
  <2> QED
    BY <1>1, <2>1 DEF TypeOK, FieldKept, Grant
<1>4. ASSUME NEW q \in Runs PROVE LeaseKept(q)'
  <2>1. LeaseKept(q)
    BY DEF LeaderInv
  <2> QED
    BY <1>1, <2>1 DEF TypeOK, LeaseKept, Grant
<1>5. ASSUME NEW q \in Runs, ~Stalls PROVE Prompt(q)'
  <2>1. Prompt(q) /\ LeaseKept(q) /\ Prompt(r)
    BY <1>5 DEF LeaderInv
  <2> QED
    BY <1>1, <1>5, <2>1 DEF TypeOK, LeaseKept, Prompt, Grant
<1>6. ASSUME NEW q \in Runs PROVE TokenKept(q)'
  <2>1. /\ counter \in Nat /\ counter' = counter + 1 /\ owner = Nobody /\ owner' = r
        /\ token \in [Runs -> Nat] /\ pc \in [Runs -> Places] /\ token' = [token EXCEPT ![r] = counter + 1]
        /\ pc' = [pc EXCEPT ![r] = "granted"]
    BY <1>1 DEF TypeOK, Grant
  <2>2. TokenKept(q) /\ TokenKept(r) /\ \A p \in Runs : token[p] <= counter
    BY DEF LeaderInv, TokenKept
  <2> QED
    BY <2>1, <2>2 DEF TokenKept, Held
<1>7. ASSUME NEW q \in Runs PROVE Told(q)'
  <2>1. Told(q)
    BY DEF LeaderInv
  <2> QED
    BY <1>1, <2>1 DEF TypeOK, Told, Grant
<1> QED
  BY <1>2, <1>3, <1>4, <1>5, <1>6, <1>7 DEF LeaderInv

(* GiveUp keeps the invariant. *)
LEMMA GiveUpKeeps ==
    ASSUME LeaderInv, NEW r \in Runs, GiveUp(r)
    PROVE  LeaderInv'
<1> USE LeaderAssumption DEF Go
<1>1. TypeOK /\ LeaseKept(r) /\ FieldKept(HandleOf[r])
  BY DEF LeaderInv
<1>2. TypeOK'
  BY <1>1 DEF TypeOK, Places, GiveUp
<1>3. ASSUME NEW l \in Leaders PROVE FieldKept(l)'
  <2>1. FieldKept(l)
    BY DEF LeaderInv
  <2> QED
    BY <1>1, <2>1 DEF TypeOK, FieldKept, GiveUp
<1>4. ASSUME NEW q \in Runs PROVE LeaseKept(q)'
  <2>1. LeaseKept(q)
    BY DEF LeaderInv
  <2> QED
    BY <1>1, <2>1 DEF TypeOK, LeaseKept, GiveUp
<1>5. ASSUME NEW q \in Runs, ~Stalls PROVE Prompt(q)'
  <2>1. Prompt(q) /\ LeaseKept(q) /\ Prompt(r)
    BY <1>5 DEF LeaderInv
  <2> QED
    BY <1>1, <1>5, <2>1 DEF TypeOK, LeaseKept, Prompt, GiveUp
<1>6. \A q \in Runs : TokenKept(q)'
  <2>1. \A q \in Runs : pc'[q] \in Held => pc[q] \in Held
    BY <1>1 DEF TypeOK, Held, GiveUp
  <2> QED
    BY <2>1, TokensStay DEF GiveUp
<1>7. ASSUME NEW q \in Runs PROVE Told(q)'
  <2>1. Told(q)
    BY DEF LeaderInv
  <2> QED
    BY <1>1, <2>1 DEF TypeOK, Told, GiveUp
<1> QED
  BY <1>2, <1>3, <1>4, <1>5, <1>6, <1>7 DEF LeaderInv

(* LoseGrant keeps the invariant. *)
LEMMA LoseGrantKeeps ==
    ASSUME LeaderInv, NEW r \in Runs, LoseGrant(r)
    PROVE  LeaderInv'
<1> USE LeaderAssumption DEF Go
<1>1. TypeOK /\ LeaseKept(r) /\ FieldKept(HandleOf[r])
  BY DEF LeaderInv
<1>2. TypeOK'
  <2>1. counter \in Nat /\ counter' = counter + 1
    BY <1>1 DEF TypeOK, LoseGrant
  <2>2. counter' \in Nat
    BY ONLY <2>1
  <2>3. owner' \in Runs \cup {Nobody} /\ pc' \in [Runs -> Places]
    BY <1>1 DEF TypeOK, Places, LoseGrant
  <2> QED
    BY <1>1, <2>2, <2>3 DEF TypeOK, LoseGrant
<1>3. ASSUME NEW l \in Leaders PROVE FieldKept(l)'
  <2>1. FieldKept(l)
    BY DEF LeaderInv
  <2> QED
    BY <1>1, <2>1 DEF TypeOK, FieldKept, LoseGrant
<1>4. ASSUME NEW q \in Runs PROVE LeaseKept(q)'
  <2>1. LeaseKept(q)
    BY DEF LeaderInv
  <2> QED
    BY <1>1, <2>1 DEF TypeOK, LeaseKept, LoseGrant
<1>5. ASSUME NEW q \in Runs, ~Stalls PROVE Prompt(q)'
  <2>1. Prompt(q) /\ LeaseKept(q) /\ Prompt(r)
    BY <1>5 DEF LeaderInv
  <2> QED
    BY <1>1, <1>5, <2>1 DEF TypeOK, LeaseKept, Prompt, LoseGrant
<1>6. ASSUME NEW q \in Runs PROVE TokenKept(q)'
  <2>1. /\ counter \in Nat /\ counter' = counter + 1 /\ owner = Nobody /\ owner' = r
        /\ token \in [Runs -> Nat] /\ pc \in [Runs -> Places] /\ token' = token
        /\ pc' = [pc EXCEPT ![r] = "idle"]
    BY <1>1 DEF TypeOK, LoseGrant
  <2>2. TokenKept(q) /\ TokenKept(r) /\ \A p \in Runs : token[p] <= counter
    BY DEF LeaderInv, TokenKept
  <2> QED
    BY <2>1, <2>2 DEF TokenKept, Held
<1>7. ASSUME NEW q \in Runs PROVE Told(q)'
  <2>1. Told(q)
    BY DEF LeaderInv
  <2> QED
    BY <1>1, <2>1 DEF TypeOK, Told, LoseGrant
<1> QED
  BY <1>2, <1>3, <1>4, <1>5, <1>6, <1>7 DEF LeaderInv

(* Register keeps the invariant. *)
LEMMA RegisterKeeps ==
    ASSUME LeaderInv, NEW r \in Runs, Register(r)
    PROVE  LeaderInv'
<1> USE LeaderAssumption DEF Go
<1>1. TypeOK /\ LeaseKept(r) /\ FieldKept(HandleOf[r])
  BY DEF LeaderInv
<1>2. TypeOK'
  BY <1>1 DEF TypeOK, Places, Register
<1>3. ASSUME NEW l \in Leaders PROVE FieldKept(l)'
  <2>1. FieldKept(l)
    BY DEF LeaderInv
  <2> QED
    BY <1>1, <2>1 DEF TypeOK, FieldKept, Register
<1>4. ASSUME NEW q \in Runs PROVE LeaseKept(q)'
  <2>1. LeaseKept(q)
    BY DEF LeaderInv
  <2> QED
    BY <1>1, <2>1 DEF TypeOK, LeaseKept, Register
<1>5. ASSUME NEW q \in Runs, ~Stalls PROVE Prompt(q)'
  <2>1. Prompt(q) /\ LeaseKept(q) /\ Prompt(r)
    BY <1>5 DEF LeaderInv
  <2> QED
    BY <1>1, <1>5, <2>1 DEF TypeOK, LeaseKept, Prompt, Register
<1>6. \A q \in Runs : TokenKept(q)'
  <2>1. \A q \in Runs : pc'[q] \in Held => pc[q] \in Held
    BY <1>1 DEF TypeOK, Held, Register
  <2> QED
    BY <2>1, TokensStay DEF Register
<1>7. ASSUME NEW q \in Runs PROVE Told(q)'
  <2>1. Told(q)
    BY DEF LeaderInv
  <2> QED
    BY <1>1, <2>1 DEF TypeOK, Told, Register
<1> QED
  BY <1>2, <1>3, <1>4, <1>5, <1>6, <1>7 DEF LeaderInv

(* Begin keeps the invariant. *)
LEMMA BeginKeeps ==
    ASSUME LeaderInv, NEW r \in Runs, Begin(r)
    PROVE  LeaderInv'
<1> USE LeaderAssumption DEF Go
<1>1. TypeOK /\ LeaseKept(r) /\ FieldKept(HandleOf[r])
  BY DEF LeaderInv
<1>2. TypeOK'
  BY <1>1 DEF TypeOK, Places, Begin
<1>3. ASSUME NEW l \in Leaders PROVE FieldKept(l)'
  <2>1. FieldKept(l)
    BY DEF LeaderInv
  <2> QED
    BY <1>1, <2>1 DEF TypeOK, FieldKept, Begin
<1>4. ASSUME NEW q \in Runs PROVE LeaseKept(q)'
  <2>1. LeaseKept(q)
    BY DEF LeaderInv
  <2> QED
    BY <1>1, <2>1 DEF TypeOK, LeaseKept, Begin
<1>5. ASSUME NEW q \in Runs, ~Stalls PROVE Prompt(q)'
  <2>1. Prompt(q) /\ LeaseKept(q) /\ Prompt(r)
    BY <1>5 DEF LeaderInv
  <2> QED
    BY <1>1, <1>5, <2>1 DEF TypeOK, LeaseKept, Prompt, Begin
<1>6. \A q \in Runs : TokenKept(q)'
  <2>1. \A q \in Runs : pc'[q] \in Held => pc[q] \in Held
    BY <1>1 DEF TypeOK, Held, Begin
  <2> QED
    BY <2>1, TokensStay DEF Begin
<1>7. ASSUME NEW q \in Runs PROVE Told(q)'
  <2>1. Told(q)
    BY DEF LeaderInv
  <2> QED
    BY <1>1, <2>1 DEF TypeOK, Told, Begin
<1> QED
  BY <1>2, <1>3, <1>4, <1>5, <1>6, <1>7 DEF LeaderInv

(* Notice keeps the invariant. *)
LEMMA NoticeKeeps ==
    ASSUME LeaderInv, NEW r \in Runs, Notice(r)
    PROVE  LeaderInv'
<1> USE LeaderAssumption DEF Go
<1>1. TypeOK /\ LeaseKept(r) /\ FieldKept(HandleOf[r])
  BY DEF LeaderInv
<1>2. TypeOK'
  BY <1>1 DEF TypeOK, Places, Notice
<1>3. ASSUME NEW l \in Leaders PROVE FieldKept(l)'
  <2>1. FieldKept(l)
    BY DEF LeaderInv
  <2> QED
    BY <1>1, <2>1 DEF TypeOK, FieldKept, Notice
<1>4. ASSUME NEW q \in Runs PROVE LeaseKept(q)'
  <2>1. LeaseKept(q)
    BY DEF LeaderInv
  <2> QED
    BY <1>1, <2>1 DEF TypeOK, LeaseKept, Notice
<1>5. ASSUME NEW q \in Runs, ~Stalls PROVE Prompt(q)'
  <2>1. Prompt(q) /\ LeaseKept(q) /\ Prompt(r)
    BY <1>5 DEF LeaderInv
  <2> QED
    BY <1>1, <1>5, <2>1 DEF TypeOK, LeaseKept, Prompt, Notice
<1>6. \A q \in Runs : TokenKept(q)'
  <2>1. \A q \in Runs : pc'[q] \in Held => pc[q] \in Held
    BY <1>1 DEF TypeOK, Held, Notice
  <2> QED
    BY <2>1, TokensStay DEF Notice
<1>7. ASSUME NEW q \in Runs PROVE Told(q)'
  <2>1. Told(q)
    BY DEF LeaderInv
  <2> QED
    BY <1>1, <2>1 DEF TypeOK, Told, Notice
<1> QED
  BY <1>2, <1>3, <1>4, <1>5, <1>6, <1>7 DEF LeaderInv

(* Relay keeps the invariant. *)
LEMMA RelayKeeps ==
    ASSUME LeaderInv, NEW r \in Runs, Relay(r)
    PROVE  LeaderInv'
<1> USE LeaderAssumption DEF Go
<1>1. TypeOK /\ LeaseKept(r) /\ FieldKept(HandleOf[r])
  BY DEF LeaderInv
<1>2. TypeOK'
  BY <1>1 DEF TypeOK, Places, Relay
<1>3. ASSUME NEW l \in Leaders PROVE FieldKept(l)'
  <2>1. FieldKept(l)
    BY DEF LeaderInv
  <2> QED
    BY <1>1, <2>1 DEF TypeOK, FieldKept, Relay
<1>4. ASSUME NEW q \in Runs PROVE LeaseKept(q)'
  <2>1. LeaseKept(q)
    BY DEF LeaderInv
  <2> QED
    BY <1>1, <2>1 DEF TypeOK, LeaseKept, Relay
<1>5. ASSUME NEW q \in Runs, ~Stalls PROVE Prompt(q)'
  <2>1. Prompt(q) /\ LeaseKept(q) /\ Prompt(r)
    BY <1>5 DEF LeaderInv
  <2> QED
    BY <1>1, <1>5, <2>1 DEF TypeOK, LeaseKept, Prompt, Relay
<1>6. \A q \in Runs : TokenKept(q)'
  <2>1. \A q \in Runs : pc'[q] \in Held => pc[q] \in Held
    BY <1>1 DEF TypeOK, Held, Relay
  <2> QED
    BY <2>1, TokensStay DEF Relay
<1>7. ASSUME NEW q \in Runs PROVE Told(q)'
  <2>1. Told(q)
    BY DEF LeaderInv
  <2> QED
    BY <1>1, <2>1 DEF TypeOK, Told, Relay
<1> QED
  BY <1>2, <1>3, <1>4, <1>5, <1>6, <1>7 DEF LeaderInv

(* CancelParent keeps the invariant. *)
LEMMA CancelParentKeeps ==
    ASSUME LeaderInv, NEW r \in Runs, CancelParent(r)
    PROVE  LeaderInv'
<1> USE LeaderAssumption DEF Go
<1>1. TypeOK /\ LeaseKept(r) /\ FieldKept(HandleOf[r])
  BY DEF LeaderInv
<1>2. TypeOK'
  BY <1>1 DEF TypeOK, Places, CancelParent
<1>3. ASSUME NEW l \in Leaders PROVE FieldKept(l)'
  <2>1. FieldKept(l)
    BY DEF LeaderInv
  <2> QED
    BY <1>1, <2>1 DEF TypeOK, FieldKept, CancelParent
<1>4. ASSUME NEW q \in Runs PROVE LeaseKept(q)'
  <2>1. LeaseKept(q)
    BY DEF LeaderInv
  <2> QED
    BY <1>1, <2>1 DEF TypeOK, LeaseKept, CancelParent
<1>5. ASSUME NEW q \in Runs, ~Stalls PROVE Prompt(q)'
  <2>1. Prompt(q) /\ LeaseKept(q) /\ Prompt(r)
    BY <1>5 DEF LeaderInv
  <2> QED
    BY <1>1, <1>5, <2>1 DEF TypeOK, LeaseKept, Prompt, CancelParent
<1>6. \A q \in Runs : TokenKept(q)'
  <2>1. \A q \in Runs : pc'[q] \in Held => pc[q] \in Held
    BY <1>1 DEF TypeOK, Held, CancelParent
  <2> QED
    BY <2>1, TokensStay DEF CancelParent
<1>7. ASSUME NEW q \in Runs PROVE Told(q)'
  <2>1. Told(q)
    BY DEF LeaderInv
  <2> QED
    BY <1>1, <2>1 DEF TypeOK, Told, CancelParent
<1> QED
  BY <1>2, <1>3, <1>4, <1>5, <1>6, <1>7 DEF LeaderInv

(* Return keeps the invariant. *)
LEMMA ReturnKeeps ==
    ASSUME LeaderInv, NEW r \in Runs, Return(r)
    PROVE  LeaderInv'
<1> USE LeaderAssumption DEF Go
<1>1. TypeOK /\ LeaseKept(r) /\ FieldKept(HandleOf[r])
  BY DEF LeaderInv
<1>2. TypeOK'
  <2>1. pc' \in [Runs -> Places]
    BY <1>1 DEF TypeOK, Places, Return
  <2>2. result' \in [Runs -> SUBSET {"leadership lost", "release"}]
    <3>1. result \in [Runs -> SUBSET {"leadership lost", "release"}]
      BY <1>1 DEF TypeOK
    <3>2. result' \in {result, Joined(r, "leadership lost")}
      BY DEF Return
    <3> QED
      BY <3>1, <3>2, JoinedType
  <2> QED
    BY <1>1, <2>1, <2>2 DEF TypeOK, Return
<1>3. ASSUME NEW l \in Leaders PROVE FieldKept(l)'
  <2>1. FieldKept(l)
    BY DEF LeaderInv
  <2> QED
    BY <1>1, <2>1 DEF TypeOK, FieldKept, Return
<1>4. ASSUME NEW q \in Runs PROVE LeaseKept(q)'
  <2>1. LeaseKept(q)
    BY DEF LeaderInv
  <2> QED
    BY <1>1, <2>1 DEF TypeOK, LeaseKept, Return
<1>5. ASSUME NEW q \in Runs, ~Stalls PROVE Prompt(q)'
  <2>1. Prompt(q) /\ LeaseKept(q) /\ Prompt(r)
    BY <1>5 DEF LeaderInv
  <2> QED
    BY <1>1, <1>5, <2>1 DEF TypeOK, LeaseKept, Prompt, Return
<1>6. \A q \in Runs : TokenKept(q)'
  <2>1. \A q \in Runs : pc'[q] \in Held => pc[q] \in Held
    BY <1>1 DEF TypeOK, Held, Return
  <2> QED
    BY <2>1, TokensStay DEF Return
<1>7. ASSUME NEW q \in Runs PROVE Told(q)'
  <2>1. Told(q)
    BY DEF LeaderInv
  <2> QED
    BY <1>1, <2>1 DEF TypeOK, Told, Joined, Return
<1> QED
  BY <1>2, <1>3, <1>4, <1>5, <1>6, <1>7 DEF LeaderInv

(* Stop keeps the invariant. *)
LEMMA StopKeeps ==
    ASSUME LeaderInv, NEW r \in Runs, Stop(r)
    PROVE  LeaderInv'
<1> USE LeaderAssumption DEF Go
<1>1. TypeOK /\ LeaseKept(r) /\ FieldKept(HandleOf[r])
  BY DEF LeaderInv
<1>2. TypeOK'
  BY <1>1 DEF TypeOK, Places, Stop
<1>3. ASSUME NEW l \in Leaders PROVE FieldKept(l)'
  <2>1. FieldKept(l)
    BY DEF LeaderInv
  <2> QED
    BY <1>1, <2>1 DEF TypeOK, FieldKept, Stop
<1>4. ASSUME NEW q \in Runs PROVE LeaseKept(q)'
  <2>1. LeaseKept(q)
    BY DEF LeaderInv
  <2> QED
    BY <1>1, <2>1 DEF TypeOK, LeaseKept, Stop
<1>5. ASSUME NEW q \in Runs, ~Stalls PROVE Prompt(q)'
  <2>1. Prompt(q) /\ LeaseKept(q) /\ Prompt(r)
    BY <1>5 DEF LeaderInv
  <2> QED
    BY <1>1, <1>5, <2>1 DEF TypeOK, LeaseKept, Prompt, Stop
<1>6. \A q \in Runs : TokenKept(q)'
  <2>1. \A q \in Runs : pc'[q] \in Held => pc[q] \in Held
    BY <1>1 DEF TypeOK, Held, Stop
  <2> QED
    BY <2>1, TokensStay DEF Stop
<1>7. ASSUME NEW q \in Runs PROVE Told(q)'
  <2>1. Told(q)
    BY DEF LeaderInv
  <2> QED
    BY <1>1, <2>1 DEF TypeOK, Told, Stop
<1> QED
  BY <1>2, <1>3, <1>4, <1>5, <1>6, <1>7 DEF LeaderInv

(* Release keeps the invariant. *)
LEMMA ReleaseKeeps ==
    ASSUME LeaderInv, NEW r \in Runs, Release(r)
    PROVE  LeaderInv'
<1> USE LeaderAssumption DEF Go
<1>1. TypeOK /\ LeaseKept(r) /\ FieldKept(HandleOf[r])
  BY DEF LeaderInv
<1>2. TypeOK'
  <2>1. owner' \in Runs \cup {Nobody} /\ pc' \in [Runs -> Places]
    BY <1>1 DEF TypeOK, Places, Release
  <2>2. result' \in [Runs -> SUBSET {"leadership lost", "release"}]
    <3>1. result \in [Runs -> SUBSET {"leadership lost", "release"}]
      BY <1>1 DEF TypeOK
    <3>2. result' \in {result, Joined(r, "release")}
      BY DEF Release
    <3> QED
      BY <3>1, <3>2, JoinedType
  <2> QED
    BY <1>1, <2>1, <2>2 DEF TypeOK, Release
<1>3. ASSUME NEW l \in Leaders PROVE FieldKept(l)'
  <2>1. FieldKept(l)
    BY DEF LeaderInv
  <2> QED
    BY <1>1, <2>1 DEF TypeOK, FieldKept, Release
<1>4. ASSUME NEW q \in Runs PROVE LeaseKept(q)'
  <2>1. LeaseKept(q)
    BY DEF LeaderInv
  <2> QED
    BY <1>1, <2>1 DEF TypeOK, LeaseKept, Release
<1>5. ASSUME NEW q \in Runs, ~Stalls PROVE Prompt(q)'
  <2>1. Prompt(q) /\ LeaseKept(q) /\ Prompt(r)
    BY <1>5 DEF LeaderInv
  <2> QED
    BY <1>1, <1>5, <2>1 DEF TypeOK, LeaseKept, Prompt, Release
<1>6. \A q \in Runs : TokenKept(q)'
  <2>1. \A q \in Runs : pc'[q] \in Held => pc[q] \in Held
    BY <1>1 DEF TypeOK, Held, Release
  <2> QED
    BY <2>1, TokensStay DEF Release
<1>7. ASSUME NEW q \in Runs PROVE Told(q)'
  <2>1. Told(q)
    BY DEF LeaderInv
  <2>2. /\ pc[r] = "releasing" /\ pc' = [pc EXCEPT ![r] = "clearing"] /\ pc \in [Runs -> Places]
        /\ overtaken' = overtaken /\ result \in [Runs -> SUBSET {"leadership lost", "release"}]
        /\ owner' \in {owner, Nobody} /\ Nobody # q
    BY <1>1 DEF TypeOK, Release
  <2>3. CASE q = r
    <3>1. ASSUME overtaken[r] PROVE result'[r] # {}
      <4>1. owner # r
        BY <2>1, <2>2, <2>3, <3>1 DEF Told
      <4>2. result' = [result EXCEPT ![r] = @ \cup {"release"}]
        BY <4>1 DEF Release, Joined
      <4>3. result'[r] = result[r] \cup {"release"}
        BY <2>2, <4>2
      <4> QED
        BY <4>3
    <3>2. pc'[r] = "clearing"
      BY <2>2
    <3> QED
      BY <2>2, <2>3, <3>1, <3>2 DEF Told
  <2>4. CASE q # r
    <3>1. pc'[q] = pc[q]
      BY <2>2, <2>4
    <3>2. result'[q] = result[q]
      BY <2>2, <2>4 DEF Release, Joined
    <3> QED
      BY <2>1, <2>2, <3>1, <3>2 DEF Told
  <2> QED
    BY <2>3, <2>4
<1> QED
  BY <1>2, <1>3, <1>4, <1>5, <1>6, <1>7 DEF LeaderInv

(* Clear keeps the invariant. *)
LEMMA ClearKeeps ==
    ASSUME LeaderInv, NEW r \in Runs, Clear(r)
    PROVE  LeaderInv'
<1> USE LeaderAssumption DEF Go
<1>1. TypeOK /\ LeaseKept(r) /\ FieldKept(HandleOf[r])
  BY DEF LeaderInv
<1>a. /\ active' = IF active[HandleOf[r]] = r
                   THEN [active EXCEPT ![HandleOf[r]] = Nobody] ELSE active
      /\ fence' = IF active[HandleOf[r]] = r
                  THEN [fence EXCEPT ![HandleOf[r]] = 0] ELSE fence
      /\ pc[r] = "clearing" /\ pc' = [pc EXCEPT ![r] = "idle"]
      /\ result' = [result EXCEPT ![r] = {}] /\ overtaken' = [overtaken EXCEPT ![r] = FALSE]
      /\ UNCHANGED <<owner, counter, valid, lost, canceled, token>>
  BY DEF Clear
<1>2. TypeOK'
  BY <1>1, <1>a DEF TypeOK, Places
<1>3. ASSUME NEW l \in Leaders PROVE FieldKept(l)'
  <2>1. FieldKept(l)
    BY DEF LeaderInv
  <2> QED
    BY <1>1, <1>a, <2>1 DEF TypeOK, FieldKept
<1>4. ASSUME NEW q \in Runs PROVE LeaseKept(q)'
  <2>1. LeaseKept(q)
    BY DEF LeaderInv
  <2> QED
    BY <1>1, <1>a, <2>1 DEF TypeOK, LeaseKept
<1>5. ASSUME NEW q \in Runs, ~Stalls PROVE Prompt(q)'
  <2>1. Prompt(q) /\ LeaseKept(q) /\ Prompt(r)
    BY <1>5 DEF LeaderInv
  <2> QED
    BY <1>1, <1>a, <1>5, <2>1 DEF TypeOK, LeaseKept, Prompt
<1>6. \A q \in Runs : TokenKept(q)'
  <2>1. \A q \in Runs : pc'[q] \in Held => pc[q] \in Held
    BY <1>1, <1>a DEF TypeOK, Held
  <2> QED
    BY <2>1, TokensStay, <1>a DEF Held
<1>7. ASSUME NEW q \in Runs PROVE Told(q)'
  <2>1. Told(q)
    BY DEF LeaderInv
  <2> QED
    BY <1>1, <1>a, <2>1 DEF TypeOK, Told
<1> QED
  BY <1>2, <1>3, <1>4, <1>5, <1>6, <1>7 DEF LeaderInv

(* Expire keeps the invariant. *)
LEMMA ExpireKeeps ==
    ASSUME LeaderInv, NEW r \in Runs, Expire(r)
    PROVE  LeaderInv'
<1> USE LeaderAssumption DEF Go
<1>1. TypeOK /\ LeaseKept(r) /\ FieldKept(HandleOf[r])
  BY DEF LeaderInv
<1>2. TypeOK'
  BY <1>1 DEF TypeOK, Places, Expire
<1>3. ASSUME NEW l \in Leaders PROVE FieldKept(l)'
  <2>1. FieldKept(l)
    BY DEF LeaderInv
  <2> QED
    BY <1>1, <2>1 DEF TypeOK, FieldKept, Expire
<1>4. ASSUME NEW q \in Runs PROVE LeaseKept(q)'
  <2>1. LeaseKept(q)
    BY DEF LeaderInv
  <2> QED
    BY <1>1, <2>1 DEF TypeOK, LeaseKept, Expire
<1>5. ASSUME NEW q \in Runs, ~Stalls PROVE Prompt(q)'
  <2>1. Prompt(q) /\ LeaseKept(q) /\ Prompt(r)
    BY <1>5 DEF LeaderInv
  <2> QED
    BY <1>1, <1>5, <2>1 DEF TypeOK, LeaseKept, Prompt, Expire
<1>6. \A q \in Runs : TokenKept(q)'
  <2>1. \A q \in Runs : pc'[q] \in Held => pc[q] \in Held
    BY <1>1 DEF TypeOK, Held, Expire
  <2> QED
    BY <2>1, TokensStay DEF Expire
<1>7. ASSUME NEW q \in Runs PROVE Told(q)'
  <2>1. Told(q)
    BY DEF LeaderInv
  <2> QED
    BY <1>1, <2>1 DEF TypeOK, Told, Expire
<1> QED
  BY <1>2, <1>3, <1>4, <1>5, <1>6, <1>7 DEF LeaderInv

(* Crash keeps the invariant. *)
LEMMA CrashKeeps ==
    ASSUME LeaderInv, NEW r \in Runs, Crash(r)
    PROVE  LeaderInv'
<1> USE LeaderAssumption DEF Go
<1>1. TypeOK /\ LeaseKept(r) /\ FieldKept(HandleOf[r])
  BY DEF LeaderInv
<1>2. TypeOK'
  BY <1>1 DEF TypeOK, Places, Crash
<1>3. ASSUME NEW l \in Leaders PROVE FieldKept(l)'
  <2>1. FieldKept(l)
    BY DEF LeaderInv
  <2> QED
    BY <1>1, <2>1 DEF TypeOK, FieldKept, Crash
<1>4. ASSUME NEW q \in Runs PROVE LeaseKept(q)'
  <2>1. LeaseKept(q)
    BY DEF LeaderInv
  <2> QED
    BY <1>1, <2>1 DEF TypeOK, LeaseKept, Crash
<1>5. ASSUME NEW q \in Runs, ~Stalls PROVE Prompt(q)'
  <2>1. Prompt(q) /\ LeaseKept(q) /\ Prompt(r)
    BY <1>5 DEF LeaderInv
  <2> QED
    BY <1>1, <1>5, <2>1 DEF TypeOK, LeaseKept, Prompt, Crash
<1>6. \A q \in Runs : TokenKept(q)'
  <2>1. \A q \in Runs : pc'[q] \in Held => pc[q] \in Held
    BY <1>1 DEF TypeOK, Held, Crash
  <2> QED
    BY <2>1, TokensStay DEF Crash
<1>7. ASSUME NEW q \in Runs PROVE Told(q)'
  <2>1. Told(q)
    BY DEF LeaderInv
  <2> QED
    BY <1>1, <2>1 DEF TypeOK, Told, Crash
<1> QED
  BY <1>2, <1>3, <1>4, <1>5, <1>6, <1>7 DEF LeaderInv

(* The expiry of a key keeps the invariant: its lease no longer stands. *)
LEMMA ServerExpireKeeps ==
    ASSUME LeaderInv, ServerExpire
    PROVE  LeaderInv'
<1> USE LeaderAssumption
<1>1. TypeOK /\ owner \in Runs /\ LeaseKept(owner)
  BY DEF LeaderInv, TypeOK, ServerExpire
<1>2. TypeOK'
  BY <1>1 DEF TypeOK, ServerExpire
<1>3. ASSUME NEW l \in Leaders PROVE FieldKept(l)'
  BY DEF LeaderInv, FieldKept, ServerExpire
<1>4. ASSUME NEW q \in Runs PROVE LeaseKept(q)'
  BY <1>1 DEF LeaderInv, LeaseKept, ServerExpire
<1>5. ASSUME NEW q \in Runs, ~Stalls PROVE Prompt(q)'
  BY <1>5 DEF LeaderInv, Prompt, ServerExpire
<1>6. \A q \in Runs : TokenKept(q)'
  BY TokensStay DEF ServerExpire
<1>7. ASSUME NEW q \in Runs PROVE Told(q)'
  BY <1>1, LeaderAssumption DEF LeaderInv, Told, ServerExpire
<1> QED
  BY <1>2, <1>3, <1>4, <1>5, <1>6, <1>7 DEF LeaderInv

(* Every step keeps the invariant. *)
LEMMA LeaderStep == LeaderInv /\ [Next]_vars => LeaderInv'
<1> SUFFICES ASSUME LeaderInv, [Next]_vars PROVE LeaderInv'
  OBVIOUS
<1>1. CASE UNCHANGED vars
  BY <1>1 DEF vars, LeaderInv, TypeOK, FieldKept, LeaseKept, Prompt, TokenKept, Told
<1>2. CASE ServerExpire
  BY <1>2, ServerExpireKeeps
<1>3. CASE \E r \in Runs : Call(r) \/ Grant(r) \/ GiveUp(r) \/ LoseGrant(r)
  BY <1>3, CallKeeps, GrantKeeps, GiveUpKeeps, LoseGrantKeeps
<1>4. CASE \E r \in Runs : Register(r) \/ Begin(r) \/ Notice(r) \/ Relay(r) \/ CancelParent(r)
  BY <1>4, RegisterKeeps, BeginKeeps, NoticeKeeps, RelayKeeps, CancelParentKeeps
<1>5. CASE \E r \in Runs : Return(r) \/ Stop(r) \/ Release(r) \/ Clear(r)
  BY <1>5, ReturnKeeps, StopKeeps, ReleaseKeeps, ClearKeeps
<1>6. CASE \E r \in Runs : Expire(r) \/ Crash(r)
  BY <1>6, ExpireKeeps, CrashKeeps
<1> QED
  BY <1>1, <1>2, <1>3, <1>4, <1>5, <1>6 DEF Next

(* LeaderInv holds in every reachable state. *)
THEOREM LeaderInvariant == Spec => []LeaderInv
BY LeaderInit, LeaderStep, PTL DEF Spec

(* As long as no call is suspended for a TTL before it registers, IsLeader and   *)
(* FencingToken tell a running callback whose lease stands about its own         *)
(* leadership, however many calls share the Leader value.                        *)
THEOREM LeaderStateIsRight == Spec => [](~Stalls => LeaderKnown)
<1>1. LeaderInv => (~Stalls => LeaderKnown)
  <2> SUFFICES ASSUME LeaderInv, ~Stalls, NEW r \in Runs, pc[r] = "leading", valid[r]
               PROVE  IsLeader(HandleOf[r]) /\ FencingToken(HandleOf[r]) = token[r]
    BY DEF LeaderKnown
  <2> QED
    BY LeaderAssumption DEF LeaderInv, Prompt, IsLeader, FencingToken
<1> QED
  BY <1>1, LeaderInvariant, PTL

(* Leader values that claim to lead at the same time give out different tokens, *)
(* the server's leader the largest, and no other one has a standing lease: with  *)
(* and without a loop, however late timers fire and calls register.              *)
THEOREM ClaimsDiffer == Spec => []ClaimsAreFenced
<1>1. LeaderInv => ClaimsAreFenced
  <2> SUFFICES ASSUME LeaderInv, NEW l \in Leaders, NEW m \in Leaders, l # m,
                      IsLeader(l), IsLeader(m)
               PROVE  /\ FencingToken(l) # FencingToken(m)
                      /\ active[l] = owner =>
                            FencingToken(m) < FencingToken(l) /\ ~valid[active[m]]
    BY DEF ClaimsAreFenced
  <2> DEFINE r == active[l]  q == active[m]
  <2>1. r \in Runs /\ q \in Runs /\ token \in [Runs -> Nat] /\ counter \in Nat
    BY DEF LeaderInv, TypeOK, IsLeader
  <2>2. FieldKept(l) /\ FieldKept(m) /\ r # Nobody /\ q # Nobody
    BY DEF LeaderInv, IsLeader
  <2>3. /\ r # q /\ pc[r] \in Held /\ pc[q] \in Held
        /\ FencingToken(l) = token[r] /\ FencingToken(m) = token[q]
    BY <2>2 DEF FieldKept, Held, FencingToken
  <2>4. TokenKept(r) /\ TokenKept(q) /\ LeaseKept(q)
    BY <2>1 DEF LeaderInv
  <2>5. token[r] # token[q]
    BY <2>1, <2>3, <2>4 DEF TokenKept
  <2>6. ASSUME r = owner PROVE token[q] < token[r] /\ ~valid[q]
    BY <2>1, <2>3, <2>4, <2>5, <2>6 DEF TokenKept, LeaseKept
  <2> QED
    BY <2>3, <2>5, <2>6
<1> QED
  BY <1>1, LeaderInvariant, PTL

(* A call whose fn was overtaken by another leader returns an error, with and    *)
(* without a loop and however late its timer fires.                              *)
THEOREM TakeoverIsNeverSilent == Spec => []TakeoverSurfaces
<1>1. LeaderInv => TakeoverSurfaces
  BY DEF LeaderInv, Told, TakeoverSurfaces
<1> QED
  BY <1>1, LeaderInvariant, PTL
=============================================================================
