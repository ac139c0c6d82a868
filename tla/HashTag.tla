------------------------------ MODULE HashTag ------------------------------
(* Keys of a primitive: Key wraps the user's name in a hash tag, Derived adds *)
(* a suffix, and Redis Cluster places a key by its hash tag.  A name is a     *)
(* sequence over the two braces and one other character.                      *)
EXTENDS Naturals, Sequences, SequencesExt

CONSTANTS
    MaxLength,  \* bound: the length of a name
    AnyName     \* may a name use braces otherwise than as one hash tag?

VARIABLES name, keys

vars == <<name, keys>>

KeySuffixes == {<<"f">>, <<"r">>}

\* strings.Contains for one character.
Has(s, c) == \E i \in DOMAIN s : s[i] = c

\* Mutant: an opening brace is taken for a hash tag.
KeyOpenOnly(n) == IF Has(n, "{") THEN n ELSE <<"{">> \o n \o <<"}">>

Key(n) == IF Has(n, "{") /\ Has(n, "}") THEN n ELSE <<"{">> \o n \o <<"}">>

Derived(primary, suffix) == primary \o <<":">> \o suffix

\* Redis Cluster hashes what stands between the first "{" and the first "}"
\* after it, unless there is no such pair or nothing between them.
HashedPart(k) ==
    LET tag(i, j) == /\ i < j /\ k[i] = "{" /\ k[j] = "}"
                     /\ \A h \in 1..(i - 1) : k[h] # "{"
                     /\ \A h \in (i + 1)..(j - 1) : k[h] # "}"
        tags == {p \in (1..Len(k)) \X (1..Len(k)) : tag(p[1], p[2]) /\ p[2] # p[1] + 1}
    IN  IF tags = {} THEN k
        ELSE LET p == CHOOSE q \in tags : TRUE IN SubSeq(k, p[1] + 1, p[2] - 1)

\* Without a closing brace, or with what Redis takes for a hash tag.
Proper(n) == ~Has(n, "}") \/ HashedPart(n) # n

Names == {n \in SeqOf({"{", "}", "x"}, MaxLength) \ {<<>>} : AnyName \/ Proper(n)}

\* The constructor of a primitive computes its primary key.
Init == name \in Names /\ keys = {Key(name)}

\* ... and the keys derived from it.
Derive ==
    /\ keys = {Key(name)}
    /\ keys' = keys \cup {Derived(Key(name), s) : s \in KeySuffixes}
    /\ UNCHANGED name

Next == Derive

Spec == Init /\ [][Next]_vars

(* "Redis Cluster safety: every key of a primitive shares one hash slot": the  *)
(* keys of one primitive have the same hashed part.                            *)
OneSlot == \A k, l \in keys : HashedPart(k) = HashedPart(l)
=============================================================================
