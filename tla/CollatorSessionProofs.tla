------------------------ MODULE CollatorSessionProofs ------------------------
(***************************************************************************)
(* Proofs about CollatorSession, for every set of accounts and keys, every *)
(* session length and every chain length.                                  *)
(***************************************************************************)
EXTENDS CollatorSession, SequenceTheorems, DataInduction, TLAPS

-----------------------------------------------------------------------------
(* Sequences.                                                              *)

\* What the pallets' bounded vectors hold after a push.
LEMMA AppendFacts ==
    ASSUME NEW A, NEW t \in Seq(A), NEW a \in A
    PROVE  /\ Append(t, a) \in Seq(A)
           /\ Range(Append(t, a)) = Range(t) \cup {a}
           /\ IsInjective(t) /\ a \notin Range(t) => IsInjective(Append(t, a))
<1> DEFINE u == Append(t, a)
           n == Len(t)
<1>1. /\ u \in Seq(A) /\ n \in Nat
      /\ DOMAIN t = 1..n /\ DOMAIN u = 1..(n + 1)
      /\ u[n + 1] = a /\ \A i \in 1..n : u[i] = t[i]
  BY AppendProperties, LenProperties
<1> HIDE DEF u, n
<1>2. Range(u) = Range(t) \cup {a}
  <2>1. ASSUME NEW i \in 1..(n + 1) PROVE u[i] \in Range(t) \cup {a}
    <3>1. i \in 1..n \/ i = n + 1
      BY <1>1
    <3> QED BY <1>1, <3>1 DEF Range
  <2>2. ASSUME NEW i \in 1..n PROVE t[i] \in Range(u)
    <3>1. i \in 1..(n + 1)
      BY <1>1
    <3> QED BY <1>1, <3>1 DEF Range
  <2>3. a \in Range(u)
    <3>1. n + 1 \in 1..(n + 1)
      BY <1>1
    <3> QED BY <1>1, <3>1 DEF Range
  <2>4. Range(u) \subseteq Range(t) \cup {a}
    BY <1>1, <2>1 DEF Range
  <2>5. Range(t) \subseteq Range(u)
    BY <1>1, <2>2 DEF Range
  <2> QED BY <2>3, <2>4, <2>5
<1>3. ASSUME IsInjective(t), a \notin Range(t) PROVE IsInjective(u)
  <2> SUFFICES ASSUME NEW i \in 1..(n + 1), NEW j \in 1..(n + 1), u[i] = u[j] PROVE i = j
    BY <1>1 DEF IsInjective
  <2>1. \A x \in 1..n : t[x] # a
    BY <1>1, <1>3 DEF Range
  <2>2. (i \in 1..n \/ i = n + 1) /\ (j \in 1..n \/ j = n + 1)
    BY <1>1
  <2> QED BY <1>1, <1>3, <2>1, <2>2 DEF IsInjective
<1> QED
  BY <1>1, <1>2, <1>3 DEF u

\* Retain keeps exactly the wanted members, and no place twice.
LEMMA RetainFacts ==
    ASSUME NEW A, NEW s \in Seq(A), NEW kept
    PROVE  /\ Retain(s, kept) \in Seq(A)
           /\ Range(Retain(s, kept)) = Range(s) \cap kept
           /\ IsInjective(s) => IsInjective(Retain(s, kept))
<1> DEFINE n == Len(s)
           step(t, i) == IF s[i] \in kept THEN Append(t, s[i]) ELSE t
           D == [p \in (1..n) \X Seq(A) |-> step(p[2], p[1])]
           Solves(h) == h = [x \in SUBSET (1..n) |->
                                IF x = {} THEN << >> ELSE step(h[x \ {Max(x)}], Max(x))]
           fold == CHOOSE h : Solves(h)
<1>1. n \in Nat /\ DOMAIN s = 1..n /\ \A i \in 1..n : s[i] \in A
  BY LenProperties
<1>2. ASSUME NEW i \in 1..n, NEW t \in Seq(A) PROVE step(t, i) \in Seq(A)
  BY <1>1, AppendFacts
<1>3. PICK h \in [SUBSET (1..n) -> Seq(A)] :
        \A x \in SUBSET (1..n) :
          h[x] = IF x = {} THEN << >> ELSE D[<<Max(x), h[x \ {Max(x)}]>>]
  <2> DEFINE none == << >>
  <2>1. none \in Seq(A)
    OBVIOUS
  <2>2. StaysIn(D, 1..n, Seq(A))
    <3> HIDE DEF step
    <3> QED BY <1>2 DEF StaysIn
  <2> HIDE DEF D, none, n
  <2>3. \E h \in [SUBSET (1..n) -> Seq(A)] : LeftFolds(h, n, none, D)
    BY <1>1, <2>1, <2>2, LeftFoldExists
  <2> QED BY <2>3 DEF none, LeftFolds
<1>4. ASSUME NEW x \in SUBSET (1..n), x # {}
      PROVE  h[x] = step(h[x \ {Max(x)}], Max(x))
  <2>1. Max(x) \in 1..n /\ h[x \ {Max(x)}] \in Seq(A)
    BY <1>1, <1>4, MaxPicks
  <2> HIDE DEF step
  <2> QED BY <1>3, <1>4, <2>1
<1>5. Solves(h)
  <2> HIDE DEF step
  <2> QED BY <1>3, <1>4
<1>6. Solves(fold)
  <2> HIDE DEF Solves
  <2> QED BY <1>5
<1>7. Retain(s, kept) = fold[1..n]
  BY <1>1 DEF Retain, FoldLeft, MapThenFoldSet
<1> DEFINE c(k) == fold[1..k]
           seen(k) == {s[i] : i \in 1..k}
<1> HIDE DEF fold
<1>8. c(0) = << >>
  <2>1. 1..0 = {} /\ {} \in SUBSET (1..n)
    OBVIOUS
  <2> HIDE DEF step
  <2> QED BY <1>6, <2>1
<1>9. ASSUME NEW k \in 1..n PROVE c(k) = step(c(k - 1), k)
  <2>1. /\ 1..k \in SUBSET (1..n) /\ 1..k # {}
        /\ Max(1..k) = k /\ (1..k) \ {Max(1..k)} = 1..(k - 1)
    BY <1>1, MaxOfPrefix
  <2> HIDE DEF step, n
  <2> QED BY <1>6, <2>1
<1> DEFINE Good(k) == /\ c(k) \in Seq(A)
                      /\ Range(c(k)) = seen(k) \cap kept
                      /\ IsInjective(s) => IsInjective(c(k))
           T == {k \in 0..n : Good(k)}
<1> HIDE DEF c, n, D, Solves
<1>10. 0 \in T
  <2>1. Range(<< >>) = {} /\ IsInjective(<< >>) /\ << >> \in Seq(A)
    BY DEF Range, IsInjective
  <2>2. seen(0) = {} /\ 0 \in 0..n
    BY <1>1
  <2> HIDE DEF seen
  <2>3. Good(0)
    BY <1>8, <2>1, <2>2
  <2> HIDE DEF Good
  <2> QED BY <2>2, <2>3
<1>11. ASSUME NEW k \in 1..n, k - 1 \in T PROVE k \in T
  <2>1. Good(k - 1) /\ k \in 0..n /\ s[k] \in A
    BY <1>1, <1>11
  <2>2. seen(k) = seen(k - 1) \cup {s[k]}
    <3>1. 1..k = 1..(k - 1) \cup {k}
      BY <1>1
    <3> QED BY <3>1
  <2>3. ASSUME IsInjective(s) PROVE s[k] \notin seen(k - 1)
    <3> SUFFICES ASSUME NEW i \in 1..(k - 1), s[i] = s[k] PROVE FALSE
      OBVIOUS
    <3>1. i \in 1..n /\ i # k
      BY <1>1
    <3> QED BY <1>1, <2>3, <3>1 DEF IsInjective
  <2> HIDE DEF seen
  <2>4. CASE s[k] \in kept
    <3>1. c(k) = Append(c(k - 1), s[k])
      BY <1>9, <2>4
    <3>2. /\ c(k) \in Seq(A) /\ Range(c(k)) = Range(c(k - 1)) \cup {s[k]}
          /\ IsInjective(c(k - 1)) /\ s[k] \notin Range(c(k - 1)) => IsInjective(c(k))
      BY <2>1, <3>1, AppendFacts
    <3> QED BY <2>1, <2>2, <2>3, <2>4, <3>2
  <2>5. CASE s[k] \notin kept
    <3>1. c(k) = c(k - 1)
      BY <1>9, <2>5
    <3> QED BY <2>1, <2>2, <2>5, <3>1
  <2> QED BY <2>4, <2>5
<1>12. Good(n)
  <2> HIDE DEF Good
  <2>1. \A k \in 0..n : k \in T
    <3> HIDE DEF T
    <3> QED BY <1>1, <1>10, <1>11, UpTo
  <2>2. n \in 0..n
    BY <1>1
  <2> QED BY <2>1, <2>2
<1>13. seen(n) = Range(s)
  BY <1>1 DEF Range
<1> QED
  BY <1>7, <1>12, <1>13 DEF c

\* kick_stale_candidates only removes candidates, never one that authored
\* within the threshold, and leaves the others in place.
LEMMA ActiveFacts ==
    ASSUME candidates \in Seq(Accounts)
    PROVE  /\ ActiveCandidates \in Seq(Accounts)
           /\ Range(ActiveCandidates) \subseteq Range(candidates)
           /\ IsInjective(candidates) => IsInjective(ActiveCandidates)
           /\ \A a \in Range(candidates) :
                number - lastAuthored[a] < KickThreshold => a \in Range(ActiveCandidates)
<1> DEFINE n == Len(candidates)
           step(t, i) == KickStale(t, candidates[i])
           D == [p \in (1..n) \X Seq(Accounts) |-> step(p[2], p[1])]
           Solves(h) == h = [x \in SUBSET (1..n) |->
                                IF x = {} THEN candidates ELSE step(h[x \ {Max(x)}], Max(x))]
           fold == CHOOSE h : Solves(h)
<1>1. n \in Nat /\ DOMAIN candidates = 1..n /\ \A i \in 1..n : candidates[i] \in Accounts
  BY LenProperties
<1>2. ASSUME NEW i \in 1..n, NEW t \in Seq(Accounts)
      PROVE  /\ step(t, i) \in Seq(Accounts)
             /\ step(t, i) = t \/ /\ ~(number - lastAuthored[candidates[i]] < KickThreshold)
                                  /\ Range(step(t, i)) = Range(t) \cap (Accounts \ {candidates[i]})
                                  /\ IsInjective(t) => IsInjective(step(t, i))
  BY <1>1, RetainFacts DEF KickStale
<1>3. PICK h \in [SUBSET (1..n) -> Seq(Accounts)] : LeftFolds(h, n, candidates, D)
  <2>1. StaysIn(D, 1..n, Seq(Accounts))
    <3> HIDE DEF step
    <3> QED BY <1>2 DEF StaysIn
  <2> HIDE DEF D, n
  <2> QED BY <1>1, <2>1, LeftFoldExists
<1>4. ASSUME NEW x \in SUBSET (1..n), x # {}
      PROVE  h[x] = step(h[x \ {Max(x)}], Max(x))
  <2>1. Max(x) \in 1..n /\ h[x \ {Max(x)}] \in Seq(Accounts)
    BY <1>1, <1>4, MaxPicks
  <2> HIDE DEF step
  <2> QED BY <1>3, <1>4, <2>1 DEF LeftFolds
<1>5. Solves(h)
  <2> HIDE DEF step
  <2> QED BY <1>3, <1>4 DEF LeftFolds
<1>6. Solves(fold)
  <2> HIDE DEF Solves
  <2> QED BY <1>5
<1>7. ActiveCandidates = fold[1..n]
  BY <1>1 DEF ActiveCandidates, FoldLeft, MapThenFoldSet
<1> DEFINE c(k) == fold[1..k]
<1> HIDE DEF fold
<1>8. c(0) = candidates
  <2>1. 1..0 = {} /\ {} \in SUBSET (1..n)
    OBVIOUS
  <2> HIDE DEF step
  <2> QED BY <1>6, <2>1
<1>9. ASSUME NEW k \in 1..n PROVE c(k) = step(c(k - 1), k)
  <2>1. /\ 1..k \in SUBSET (1..n) /\ 1..k # {}
        /\ Max(1..k) = k /\ (1..k) \ {Max(1..k)} = 1..(k - 1)
    BY <1>1, MaxOfPrefix
  <2> HIDE DEF step, n
  <2> QED BY <1>6, <2>1
<1> DEFINE Fresh(a) == number - lastAuthored[a] < KickThreshold
           Good(k) == /\ c(k) \in Seq(Accounts)
                      /\ Range(c(k)) \subseteq Range(candidates)
                      /\ IsInjective(candidates) => IsInjective(c(k))
                      /\ \A a \in Range(candidates) : Fresh(a) => a \in Range(c(k))
           T == {k \in 0..n : Good(k)}
<1> HIDE DEF c, n, D, Solves, step
<1>10. 0 \in T
  <2>1. 0 \in 0..n
    BY <1>1
  <2>2. Good(0)
    BY <1>8
  <2> HIDE DEF Good
  <2> QED BY <2>1, <2>2
<1>11. ASSUME NEW k \in 1..n, k - 1 \in T PROVE k \in T
  <2>1. Good(k - 1) /\ k \in 0..n
    BY <1>1, <1>11
  <2>2. /\ c(k) \in Seq(Accounts)
        /\ c(k) = c(k - 1) \/ /\ ~Fresh(candidates[k])
                              /\ Range(c(k)) = Range(c(k - 1)) \cap (Accounts \ {candidates[k]})
                              /\ IsInjective(c(k - 1)) => IsInjective(c(k))
    BY <1>2, <1>9, <2>1
  <2>3. Range(candidates) \subseteq Accounts
    BY <1>1 DEF Range
  <2> HIDE DEF Fresh
  <2>4. Good(k)
    BY <2>1, <2>2, <2>3
  <2> HIDE DEF Good
  <2> QED BY <2>1, <2>4
<1>12. Good(n)
  <2> HIDE DEF Good
  <2>1. \A k \in 0..n : k \in T
    <3> HIDE DEF T
    <3> QED BY <1>1, <1>10, <1>11, UpTo
  <2>2. n \in 0..n
    BY <1>1
  <2> QED BY <2>1, <2>2
<1> QED
  BY <1>7, <1>12 DEF c

\* Keys are loaded for exactly the registered members of next, in their order.
LEMMA LoadFacts ==
    ASSUME nextKeys \in [Accounts -> Keys \cup {NoKey}], NEW next \in Seq(Accounts)
    PROVE  /\ LoadKeys(next) \in Seq(Authority)
           /\ \A i \in DOMAIN LoadKeys(next) :
                LoadKeys(next)[i].key = nextKeys[LoadKeys(next)[i].who]
           /\ IsInjective(next) =>
                \A i, j \in DOMAIN LoadKeys(next) :
                    LoadKeys(next)[i].who = LoadKeys(next)[j].who => i = j
           /\ \A a \in Range(next) : IsRegistered(a) =>
                \E i \in DOMAIN LoadKeys(next) : LoadKeys(next)[i].who = a
<1> DEFINE R == {a \in Accounts : IsRegistered(a)}
           r == Retain(next, R)
           l == LoadKeys(next)
<1>1. /\ r \in Seq(Accounts) /\ Range(r) = Range(next) \cap R
      /\ IsInjective(next) => IsInjective(r)
  <2> HIDE DEF R
  <2> QED BY RetainFacts
<1>2. l = [i \in DOMAIN r |-> [who |-> r[i], key |-> nextKeys[r[i]]]]
  BY DEF LoadKeys
<1>3. Len(r) \in Nat /\ DOMAIN r = 1..Len(r) /\ Range(next) \subseteq Accounts
  BY <1>1, LenProperties DEF Range
<1>4. \A i \in DOMAIN r : r[i] \in Accounts /\ r[i] \in R /\ nextKeys[r[i]] \in Keys
  <2>1. \A i \in DOMAIN r : r[i] \in Range(r)
    BY DEF Range
  <2>2. \A a \in R : a \in Accounts /\ nextKeys[a] \in Keys
    BY DEF IsRegistered
  <2> HIDE DEF r, R
  <2> QED BY <1>1, <2>1, <2>2
<1> HIDE DEF r, R, l
<1>5. DOMAIN l = DOMAIN r /\ \A i \in DOMAIN l : l[i].who = r[i] /\ l[i].key = nextKeys[r[i]]
  BY <1>2
<1>6. l \in Seq(Authority)
  <2>1. \A i \in 1..Len(r) : l[i] \in Authority
    BY <1>2, <1>3, <1>4 DEF Authority
  <2>2. l \in [1..Len(r) -> Authority]
    BY <1>2, <1>3, <2>1
  <2> QED BY <1>3, <2>2, SeqDef
<1>7. ASSUME IsInjective(next), NEW i \in DOMAIN l, NEW j \in DOMAIN l, l[i].who = l[j].who
      PROVE  i = j
  BY <1>1, <1>5, <1>7 DEF IsInjective
<1>8. ASSUME NEW a \in Range(next), IsRegistered(a) PROVE \E i \in DOMAIN l : l[i].who = a
  <2>1. a \in Range(r)
    BY <1>1, <1>3, <1>8 DEF R
  <2> QED BY <1>5, <2>1 DEF Range
<1> QED
  BY <1>5, <1>6, <1>7, <1>8 DEF l

\* The collators of a new session: the invulnerables, then the candidates.
LEMMA AssembleFacts ==
    ASSUME NEW cs \in Seq(Accounts)
    PROVE  /\ AssembleCollators(cs) \in Seq(Accounts)
           /\ Range(AssembleCollators(cs)) = Range(Invulnerables) \cup Range(cs)
           /\ IsInjective(cs) /\ Range(cs) \cap Range(Invulnerables) = {}
                => IsInjective(AssembleCollators(cs))
<1> DEFINE u == AssembleCollators(cs)
           m == Len(Invulnerables)
           n == Len(cs)
<1>1. /\ Invulnerables \in Seq(Accounts) /\ IsInjective(Invulnerables)
      /\ m \in Nat /\ DOMAIN Invulnerables = 1..m /\ n \in Nat /\ DOMAIN cs = 1..n
  BY AccountsAssumption, LenProperties
<1>2. /\ u \in Seq(Accounts) /\ DOMAIN u = 1..(m + n)
      /\ \A i \in 1..(m + n) : u[i] = IF i <= m THEN Invulnerables[i] ELSE cs[i - m]
  BY <1>1, ConcatProperties, LenProperties DEF AssembleCollators
<1> HIDE DEF u, m, n
<1>3. ASSUME NEW i \in 1..(m + n)
      PROVE  \/ i \in 1..m /\ u[i] = Invulnerables[i] /\ u[i] \in Range(Invulnerables)
             \/ i > m /\ i - m \in 1..n /\ u[i] = cs[i - m] /\ u[i] \in Range(cs)
  <2>1. i \in 1..m \/ (i > m /\ i - m \in 1..n)
    BY <1>1
  <2>2. CASE i \in 1..m
    BY <1>1, <1>2, <2>2 DEF Range
  <2>3. CASE i > m /\ i - m \in 1..n
    <3>1. ~(i <= m)
      BY <1>1, <2>3
    <3> QED BY <1>1, <1>2, <2>3, <3>1 DEF Range
  <2> QED BY <2>1, <2>2, <2>3
<1>4. ASSUME NEW i \in 1..m PROVE Invulnerables[i] \in Range(u)
  <2>1. i \in 1..(m + n) /\ i <= m
    BY <1>1
  <2> QED BY <1>2, <2>1 DEF Range
<1>5. ASSUME NEW i \in 1..n PROVE cs[i] \in Range(u)
  <2>1. m + i \in 1..(m + n) /\ ~(m + i <= m) /\ (m + i) - m = i
    BY <1>1
  <2>2. u[m + i] = cs[i]
    BY <1>2, <2>1
  <2> QED BY <1>2, <2>1, <2>2 DEF Range
<1>6. Range(u) = Range(Invulnerables) \cup Range(cs)
  <2>1. Range(u) \subseteq Range(Invulnerables) \cup Range(cs)
    BY <1>2, <1>3 DEF Range
  <2>2. Range(Invulnerables) \subseteq Range(u) /\ Range(cs) \subseteq Range(u)
    BY <1>1, <1>4, <1>5 DEF Range
  <2> QED BY <2>1, <2>2
<1>7. ASSUME IsInjective(cs), Range(cs) \cap Range(Invulnerables) = {} PROVE IsInjective(u)
  <2> SUFFICES ASSUME NEW i \in 1..(m + n), NEW j \in 1..(m + n), u[i] = u[j] PROVE i = j
    BY <1>2 DEF IsInjective
  <2>1. CASE i \in 1..m /\ j \in 1..m
    BY <1>1, <1>2, <2>1 DEF IsInjective
  <2>2. CASE i > m /\ j > m
    <3>1. i - m \in 1..n /\ j - m \in 1..n /\ cs[i - m] = cs[j - m]
      BY <1>1, <1>3, <2>2
    <3>2. i - m = j - m
      BY <1>1, <1>7, <3>1 DEF IsInjective
    <3> QED BY <1>1, <3>2
  <2>3. CASE ~(i \in 1..m /\ j \in 1..m) /\ ~(i > m /\ j > m)
    BY <1>1, <1>3, <1>7, <2>3
  <2> QED BY <2>1, <2>2, <2>3
<1> QED
  BY <1>2, <1>6, <1>7 DEF u

-----------------------------------------------------------------------------
(* The order of the hooks.                                                 *)

\* construct_runtime! as numbers: which stage each hook runs in.
LEMMA HookFacts ==
    ASSUME stage \in Int
    PROVE  /\ Idle = 6 /\ (InBlock <=> stage = 5)
           /\ stage >= 0 => /\ Running("Authorship") <=> stage = 0
                            /\ Running("Session") <=> stage = 2
                            /\ \A p \in {"CollatorSelection", "Aura", "AuraExt"} :
                                 Running(p) => stage \in {1, 3, 4}
<1>1. /\ Len(HookOrder) = 5
      /\ HookOrder[1] = "Authorship" /\ HookOrder[2] = "CollatorSelection"
      /\ HookOrder[3] = "Session" /\ HookOrder[4] = "Aura" /\ HookOrder[5] = "AuraExt"
  BY DEF HookOrder
<1>2. Idle = 6 /\ (InBlock <=> stage = 5)
  BY <1>1 DEF Idle, InBlock
<1>3. ASSUME stage >= 0, stage < 5 PROVE stage \in {0, 1, 2, 3, 4}
  BY <1>3
<1>4. ASSUME stage >= 0, NEW p, Running(p)
      PROVE  /\ stage \in {0, 1, 2, 3, 4}
             /\ p = "Authorship" => stage = 0
             /\ p = "Session" => stage = 2
             /\ p \in {"CollatorSelection", "Aura", "AuraExt"} => stage \in {1, 3, 4}
  <2>1. stage \in {0, 1, 2, 3, 4} /\ HookOrder[stage + 1] = p
    BY <1>1, <1>3, <1>4 DEF Running
  <2>2. CASE stage = 0
    <3>1. stage + 1 = 1
      BY <2>2
    <3>2. p = "Authorship"
      BY <1>1, <2>1, <3>1
    <3> QED BY <2>2, <3>2
  <2>3. CASE stage = 1
    <3>1. stage + 1 = 2
      BY <2>3
    <3>2. p = "CollatorSelection"
      BY <1>1, <2>1, <3>1
    <3> QED BY <2>3, <3>2
  <2>4. CASE stage = 2
    <3>1. stage + 1 = 3
      BY <2>4
    <3>2. p = "Session"
      BY <1>1, <2>1, <3>1
    <3> QED BY <2>4, <3>2
  <2>5. CASE stage = 3
    <3>1. stage + 1 = 4
      BY <2>5
    <3>2. p = "Aura"
      BY <1>1, <2>1, <3>1
    <3> QED BY <2>5, <3>2
  <2>6. CASE stage = 4
    <3>1. stage + 1 = 5
      BY <2>6
    <3>2. p = "AuraExt"
      BY <1>1, <2>1, <3>1
    <3> QED BY <2>6, <3>2
  <2> QED BY <2>1, <2>2, <2>3, <2>4, <2>5, <2>6
<1>5. (stage = 0 => Running("Authorship")) /\ (stage = 2 => Running("Session"))
  BY <1>1 DEF Running
<1> QED
  BY <1>2, <1>4, <1>5

-----------------------------------------------------------------------------
(* Types.                                                                  *)

\* What a rotation leaves in the session and candidate storage.
LEMMA RotateTypes ==
    ASSUME TypeOK, RotateSession
    PROVE  /\ validators' \in Seq(Accounts) /\ authorities' \in Seq(Authority)
           /\ candidates' \in Seq(Accounts) /\ lastAuthored' \in [Accounts -> Nat]
           /\ queued' \in Seq(Authority) /\ active' \subseteq Accounts
<1>1. queued \in Seq(Authority) /\ candidates \in Seq(Accounts)
  BY DEF TypeOK
<1>2. validators' \in Seq(Accounts)
  <2> DEFINE n == Len(queued)
  <2>1. n \in Nat /\ DOMAIN queued = 1..n /\ \A i \in 1..n : queued[i] \in Authority
    BY <1>1, LenProperties
  <2>2. \A i \in 1..n : queued[i].who \in Accounts
    BY <2>1 DEF Authority
  <2> HIDE DEF n
  <2>3. validators' \in [1..n -> Accounts]
    BY <2>1, <2>2 DEF RotateSession
  <2> QED BY <2>1, <2>3, SeqDef
<1>3. ActiveCandidates \in Seq(Accounts)
  BY <1>1, ActiveFacts
<1>4. lastAuthored' \in [Accounts -> Nat]
  BY DEF RotateSession, Forget, TypeOK
<1>5. LoadKeys(AssembleCollators(ActiveCandidates)) \in Seq(Authority)
  <2>1. AssembleCollators(ActiveCandidates) \in Seq(Accounts)
    BY <1>3, AssembleFacts
  <2>2. nextKeys \in [Accounts -> Keys \cup {NoKey}]
    BY DEF TypeOK
  <2> QED BY <2>1, <2>2, LoadFacts
<1> QED
  BY <1>1, <1>2, <1>3, <1>4, <1>5 DEF RotateSession

\* testnet_genesis gives well-formed storage.
LEMMA GenesisFacts ==
    /\ GenesisAuthorities \in Seq(Authority)
    /\ DOMAIN GenesisAuthorities = DOMAIN Invulnerables
    /\ \A i \in DOMAIN Invulnerables :
         /\ GenesisAuthorities[i].who = Invulnerables[i]
         /\ GenesisAuthorities[i].key = GenesisKey[Invulnerables[i]]
         /\ Invulnerables[i] \in Range(Invulnerables)
         /\ GenesisKey[Invulnerables[i]] \in Keys
<1> DEFINE n == Len(Invulnerables)
<1>1. /\ n \in Nat /\ DOMAIN Invulnerables = 1..n
      /\ \A i \in 1..n : Invulnerables[i] \in Accounts /\ Invulnerables[i] \in Range(Invulnerables)
  BY AccountsAssumption, LenProperties DEF Range
<1> HIDE DEF n
<1>2. \A i \in 1..n : GenesisKey[Invulnerables[i]] \in Keys
  BY <1>1, AccountsAssumption
<1>3. GenesisAuthorities \in [1..n -> Authority]
  BY <1>1, <1>2 DEF GenesisAuthorities, Authority
<1>4. GenesisAuthorities \in Seq(Authority)
  BY <1>1, <1>3, SeqDef
<1> QED
  BY <1>1, <1>2, <1>4 DEF GenesisAuthorities

\* The genesis state is well typed.
LEMMA InitTypeOK == Init => TypeOK
<1> SUFFICES ASSUME Init PROVE TypeOK
  OBVIOUS
<1>1. Idle = 6 /\ stage = 6
  BY DEF Init, Idle, HookOrder
<1>2. validators \in Seq(Accounts) /\ GenesisAuthorities \in Seq(Authority)
  BY AccountsAssumption, GenesisFacts DEF Init
<1>3. nextKeys \in [Accounts -> Keys \cup {NoKey}]
  BY AccountsAssumption DEF Init
<1>4. sealer \in [slot : Nat, who : Accounts \cup {Nobody}, key : Keys \cup {NoKey}]
  BY DEF Init
<1> QED
  BY <1>1, <1>2, <1>3, <1>4, CountsAssumption DEF Init, TypeOK

\* The slot of a block names a place in every non-empty sequence of collators.
LEMMA SeatFacts ==
    ASSUME NEW T, NEW s \in Seq(T), s # << >>, NEW slot \in Nat
    PROVE  Seat(slot, s) \in DOMAIN s /\ s[Seat(slot, s)] \in T
<1>1. Len(s) \in Nat \ {0} /\ DOMAIN s = 1..Len(s)
  OBVIOUS
<1>2. slot % Len(s) \in 0..(Len(s) - 1)
  BY <1>1
<1>3. Seat(slot, s) \in 1..Len(s)
  BY <1>1, <1>2 DEF Seat
<1> QED
  BY <1>1, <1>3

\* Every hook and every extrinsic preserves the types.
LEMMA NextTypeOK == TypeOK /\ [Next]_vars => TypeOK'
<1> SUFFICES ASSUME TypeOK, [Next]_vars PROVE TypeOK'
  OBVIOUS
<1> USE DEF blockVars, sessionVars
<1>0. stage \in 0..6 /\ Idle = 6 /\ Idle' = 6 /\ (InBlock <=> stage = 5)
  BY HookFacts DEF TypeOK, Idle, HookOrder
<1>a. /\ number \in Nat /\ KickThreshold \in Nat /\ calls \in Nat /\ MaxCalls \in Nat
      /\ MaxNumber \in Nat
  BY CountsAssumption DEF TypeOK, KickThreshold
<1>1. ASSUME NEW slot \in Slots, BeginBlock(slot) PROVE TypeOK'
  <2>1. slot \in Nat /\ authorities[Seat(slot, authorities)] \in Authority
    BY <1>1, SeatFacts, CountsAssumption DEF BeginBlock, TypeOK
  <2>2. sealer' \in [slot : Nat, who : Accounts \cup {Nobody}, key : Keys \cup {NoKey}]
    BY <1>1, <2>1 DEF BeginBlock, Authority
  <2>3. number' \in 0..MaxNumber /\ stage' = 0 /\ credited' = Nobody
    BY <1>1, <1>a DEF BeginBlock
  <2> QED BY <1>0, <1>1, <2>2, <2>3 DEF BeginBlock, TypeOK
<1>2. CASE AuthorshipHook
  <2> DEFINE author == FindAuthor(sealer.slot)
  <2>1. author \in Accounts \cup {Nobody}
    BY LenProperties DEF TypeOK, FindAuthor
  <2> HIDE DEF author
  <2>2. credited' = author /\ stage' \in 0..6
    BY <1>0, <1>2, HookFacts DEF AuthorshipHook, HookDone, author
  <2>3. lastAuthored' \in [Accounts -> Nat] /\ active' \subseteq Accounts
    <3>1. CASE author = Nobody
      BY <1>2, <3>1 DEF AuthorshipHook, TypeOK, author
    <3>2. CASE author # Nobody
      BY <1>2, <1>a, <2>1, <3>2 DEF AuthorshipHook, TypeOK, author
    <3> QED BY <3>1, <3>2
  <2> QED BY <1>0, <1>2, <2>1, <2>2, <2>3 DEF AuthorshipHook, TypeOK
<1>3. CASE SessionHook
  <2>1. stage' \in 0..6
    BY <1>0, <1>3, HookFacts DEF SessionHook, HookDone
  <2>2. CASE ShouldEndSession
    <3>1. RotateSession
      BY <1>3, <2>2 DEF SessionHook
    <3> QED BY <1>0, <1>3, <2>1, <3>1, RotateTypes DEF SessionHook, TypeOK
  <2>3. CASE ~ShouldEndSession
    BY <1>0, <1>3, <2>1, <2>3 DEF SessionHook, TypeOK
  <2> QED BY <2>2, <2>3
<1>4. CASE OtherHook
  <2>1. stage' \in 0..6
    BY <1>0, <1>4, HookFacts DEF OtherHook, HookDone
  <2> QED BY <1>0, <1>4, <2>1 DEF OtherHook, TypeOK
<1>5. CASE EndBlock
  BY <1>0, <1>5 DEF EndBlock, CachedAuthorities, TypeOK
<1>6. ASSUME NEW a \in Accounts, NEW k \in Keys, SetKeys(a, k) PROVE TypeOK'
  <2>1. nextKeys' \in [Accounts -> Keys \cup {NoKey}] /\ calls' \in 0..MaxCalls
    BY <1>6, <1>a DEF SetKeys, Call, TypeOK
  <2> QED BY <1>0, <1>6, <2>1 DEF SetKeys, TypeOK
<1>7. ASSUME NEW a \in Careless, PurgeKeys(a) PROVE TypeOK'
  <2>1. nextKeys' \in [Accounts -> Keys \cup {NoKey}] /\ calls' \in 0..MaxCalls
    BY <1>7, <1>a, AccountsAssumption DEF PurgeKeys, Call, TypeOK
  <2> QED BY <1>0, <1>7, <2>1 DEF PurgeKeys, TypeOK
<1>8. ASSUME NEW a \in Accounts, RegisterAsCandidate(a) PROVE TypeOK'
  <2>1. candidates' \in Seq(Accounts)
    BY <1>8, AppendFacts DEF RegisterAsCandidate, TypeOK
  <2>2. lastAuthored' \in [Accounts -> Nat] /\ calls' \in 0..MaxCalls
    BY <1>8, <1>a DEF RegisterAsCandidate, Grace, Call, TypeOK
  <2> QED BY <1>0, <1>8, <2>1, <2>2 DEF RegisterAsCandidate, TypeOK
<1>9. ASSUME NEW a \in Accounts, LeaveIntent(a) PROVE TypeOK'
  <2>1. candidates' \in Seq(Accounts)
    BY <1>9, RetainFacts DEF LeaveIntent, TypeOK
  <2>2. lastAuthored' \in [Accounts -> Nat] /\ calls' \in 0..MaxCalls
    BY <1>9, <1>a DEF LeaveIntent, Forget, Call, TypeOK
  <2> QED BY <1>0, <1>9, <2>1, <2>2 DEF LeaveIntent, TypeOK
<1>10. CASE UNCHANGED vars
  BY <1>0, <1>10 DEF vars, TypeOK
<1> QED
  BY <1>1, <1>2, <1>3, <1>4, <1>5, <1>6, <1>7, <1>8, <1>9, <1>10 DEF Next, Horizon

\* The pallets' storage stays well formed: rotation loads no account without
\* keys, and no counter leaves its range.
THEOREM TypeCorrect == Spec => []TypeOK
  BY InitTypeOK, NextTypeOK, PTL DEF Spec

-----------------------------------------------------------------------------
(* The author of a block is paid and its seal is accepted.                 *)

\* Session's validators and Aura's authorities are the same accounts.
SameSeats ==
    /\ DOMAIN validators = DOMAIN authorities
    /\ \A i \in DOMAIN authorities : validators[i] = authorities[i].who

\* Until Authorship runs the sealer's slot is that of its seat; afterwards it is paid.
SealerSeated ==
    stage = 0 => /\ Seat(sealer.slot, authorities) \in DOMAIN authorities
                 /\ sealer.who = authorities[Seat(sealer.slot, authorities)].who
SealerNoted == stage \in 1..5 => credited = sealer.who

\* AuraExt's cache is up to date whenever a block begins.
CacheFresh == stage = 6 => extAuthorities = authorities

SealInv == SameSeats /\ SealerSeated /\ SealerNoted /\ CacheFresh /\ SealAccepted

\* At genesis the validators are the authorities and no block is under way.
LEMMA InitSealInv == Init => SealInv
<1> SUFFICES ASSUME Init PROVE SealInv
  OBVIOUS
<1>1. stage = 6
  BY DEF Init, Idle, HookOrder
<1>2. SameSeats
  BY GenesisFacts DEF Init, SameSeats
<1>3. SealerSeated /\ SealerNoted /\ CacheFresh /\ SealAccepted
  BY <1>1 DEF SealerSeated, SealerNoted, CacheFresh, SealAccepted, Idle, HookOrder, Init
<1> QED
  BY <1>2, <1>3 DEF SealInv

\* Every step keeps seats, sealer and cache in line.
LEMMA NextSealInv == TypeOK /\ SealInv /\ [Next]_vars => SealInv'
<1> SUFFICES ASSUME TypeOK, SealInv, [Next]_vars PROVE SealInv'
  OBVIOUS
<1> USE DEF blockVars, sessionVars
<1>0. /\ stage \in 0..6 /\ Idle = 6 /\ Idle' = 6 /\ (InBlock <=> stage = 5)
      /\ stage \in Int /\ stage >= 0
  BY HookFacts DEF TypeOK, Idle, HookOrder
<1>b. ASSUME UNCHANGED <<sealer, extAuthorities>>, stage # 6, stage' # 6
      PROVE  CacheFresh' /\ SealAccepted'
  BY <1>0, <1>b DEF SealInv, CacheFresh, SealAccepted, Seat
<1>1. ASSUME NEW slot \in Slots, BeginBlock(slot) PROVE SealInv'
  <2>1. SameSeats' /\ stage' = 0
    BY <1>1 DEF BeginBlock, SealInv, SameSeats
  <2>2. /\ sealer'.slot = slot
        /\ sealer'.who = authorities[Seat(slot, authorities)].who
        /\ sealer'.key = authorities[Seat(slot, authorities)].key
        /\ UNCHANGED <<authorities, extAuthorities>> /\ authorities # << >> /\ stage = 6
    BY <1>0, <1>1 DEF BeginBlock
  <2>3. Seat(slot, authorities) \in DOMAIN authorities
    BY <2>2, SeatFacts, CountsAssumption DEF TypeOK
  <2>4. extAuthorities = authorities
    BY <2>2 DEF SealInv, CacheFresh
  <2>5. SealerSeated' /\ SealerNoted' /\ CacheFresh'
    BY <2>1, <2>2, <2>3 DEF SealerSeated, SealerNoted, CacheFresh, Seat
  <2>6. SealAccepted'
    BY <2>2, <2>4 DEF SealAccepted, Seat
  <2> QED BY <2>1, <2>5, <2>6 DEF SealInv
<1>2. CASE AuthorshipHook
  <2>1. stage = 0 /\ stage' = 1
    BY <1>0, <1>2, HookFacts DEF AuthorshipHook, HookDone
  <2>2. credited' = sealer.who /\ sealer' = sealer
    <3>1. /\ Seat(sealer.slot, authorities) \in DOMAIN validators
          /\ validators[Seat(sealer.slot, authorities)] = sealer.who
      BY <2>1 DEF SealInv, SameSeats, SealerSeated
    <3> QED BY <1>2, <3>1 DEF AuthorshipHook, FindAuthor
  <2>3. SameSeats'
    BY <1>2 DEF AuthorshipHook, SealInv, SameSeats
  <2>4. CacheFresh' /\ SealAccepted'
    BY <1>2, <1>b, <2>1 DEF AuthorshipHook
  <2> QED BY <2>1, <2>2, <2>3, <2>4 DEF SealInv, SealerSeated, SealerNoted
<1>3. CASE SessionHook
  <2>1. stage = 2 /\ stage' = 3
    BY <1>0, <1>3, HookFacts DEF SessionHook, HookDone
  <2>2. SealerNoted'
    BY <1>3, <2>1 DEF SessionHook, SealInv, SealerNoted
  <2>3. SameSeats'
    <3>1. CASE ShouldEndSession
      BY <1>3, <3>1 DEF SessionHook, RotateSession, SameSeats
    <3>2. CASE ~ShouldEndSession
      BY <1>3, <3>2 DEF SessionHook, SealInv, SameSeats
    <3> QED BY <3>1, <3>2
  <2>4. CacheFresh' /\ SealAccepted'
    BY <1>3, <1>b, <2>1 DEF SessionHook
  <2> QED BY <2>1, <2>2, <2>3, <2>4 DEF SealInv, SealerSeated
<1>4. CASE OtherHook
  <2>1. stage \in {1, 3, 4} /\ stage' = stage + 1
    BY <1>0, <1>4, HookFacts DEF OtherHook, HookDone
  <2>2. SameSeats' /\ SealerNoted'
    BY <1>4, <2>1 DEF OtherHook, SealInv, SameSeats, SealerNoted
  <2>3. CacheFresh' /\ SealAccepted'
    BY <1>4, <1>b, <2>1 DEF OtherHook
  <2> QED BY <2>1, <2>2, <2>3 DEF SealInv, SealerSeated
<1>5. CASE EndBlock
  <2>1. stage' = 6 /\ extAuthorities' = authorities' /\ SameSeats'
    BY <1>0, <1>5 DEF EndBlock, CachedAuthorities, SealInv, SameSeats
  <2> QED BY <1>0, <2>1 DEF SealInv, SealerSeated, SealerNoted, CacheFresh, SealAccepted
<1>6. CASE UNCHANGED <<stage, sealer, credited, authorities, extAuthorities, validators>>
  BY <1>0, <1>6 DEF SealInv, SameSeats, SealerSeated, SealerNoted, CacheFresh, SealAccepted
<1>7. ASSUME NEW a \in Accounts, NEW k \in Keys, SetKeys(a, k) PROVE SealInv'
  BY <1>6, <1>7 DEF SetKeys
<1>8. ASSUME NEW a \in Careless, PurgeKeys(a) PROVE SealInv'
  BY <1>6, <1>8 DEF PurgeKeys
<1>9. ASSUME NEW a \in Accounts, RegisterAsCandidate(a) PROVE SealInv'
  BY <1>6, <1>9 DEF RegisterAsCandidate
<1>10. ASSUME NEW a \in Accounts, LeaveIntent(a) PROVE SealInv'
  BY <1>6, <1>10 DEF LeaveIntent
<1>11. CASE UNCHANGED vars
  BY <1>6, <1>11 DEF vars
<1> QED
  BY <1>1, <1>2, <1>3, <1>4, <1>5, <1>7, <1>8, <1>9, <1>10, <1>11 DEF Next, Horizon

\* CollatorSelection pays the account whose key sealed the block: Authorship
\* reads Session's validators before Session rotates, in every block.
THEOREM AuthorPaid == Spec => []SealerCredited
<1>1. TypeOK /\ SealInv => SealerCredited
  <2> SUFFICES ASSUME TypeOK, SealInv, InBlock PROVE credited = sealer.who
    BY DEF SealerCredited
  <2>1. stage = 5
    BY HookFacts DEF TypeOK
  <2> QED BY <2>1 DEF SealInv, SealerNoted
<1> QED
  BY <1>1, InitTypeOK, NextTypeOK, InitSealInv, NextSealInv, PTL DEF Spec

\* validate_block verifies the seal of every block, whenever the session rotates:
\* AuraExt caches in on_finalize the authorities that claim the next slot.
THEOREM SealsVerifiable == Spec => []SealAccepted
<1>1. SealInv => SealAccepted
  BY DEF SealInv
<1> QED
  BY <1>1, InitTypeOK, NextTypeOK, InitSealInv, NextSealInv, PTL DEF Spec

-----------------------------------------------------------------------------
(* Session keys.                                                           *)

\* No session key has two owners, and no account two places among the collators.
OneOwner ==
    \A a, b \in Accounts : nextKeys[a] = nextKeys[b] /\ nextKeys[a] # NoKey => a = b
CandidatesApart ==
    IsInjective(candidates) /\ Range(candidates) \cap Range(Invulnerables) = {}

KeysInv == OneOwner /\ CandidatesApart /\ AuthorityKeysDistinct

\* The keys of the invulnerables differ at genesis, and there is no candidate.
LEMMA InitKeysInv == Init => KeysInv
<1> SUFFICES ASSUME Init PROVE KeysInv
  OBVIOUS
<1>1. GenesisKey \in [Range(Invulnerables) -> Keys] /\ IsInjective(GenesisKey) /\ NoKey \notin Keys
  BY AccountsAssumption
<1>2. OneOwner
  <2> SUFFICES ASSUME NEW a \in Accounts, NEW b \in Accounts,
                      nextKeys[a] = nextKeys[b], nextKeys[a] # NoKey
               PROVE  a = b
    BY DEF OneOwner
  <2>1. a \in Range(Invulnerables) /\ b \in Range(Invulnerables)
    BY DEF Init
  <2>2. GenesisKey[a] = GenesisKey[b]
    BY <2>1 DEF Init
  <2> QED BY <1>1, <2>1, <2>2 DEF IsInjective
<1>3. CandidatesApart
  BY DEF Init, CandidatesApart, IsInjective, Range
<1>4. ASSUME NEW i \in DOMAIN Invulnerables, NEW j \in DOMAIN Invulnerables,
             GenesisAuthorities[i].key = GenesisAuthorities[j].key
      PROVE  i = j
  <2>1. Invulnerables[i] = Invulnerables[j]
    BY <1>1, <1>4, GenesisFacts DEF IsInjective
  <2> QED BY <2>1, AccountsAssumption DEF IsInjective
<1>5. AuthorityKeysDistinct
  BY <1>4, GenesisFacts DEF Init, AuthorityKeysDistinct
<1> QED
  BY <1>2, <1>3, <1>5 DEF KeysInv

\* Every step keeps the session keys apart.
LEMMA NextKeysInv == TypeOK /\ KeysInv /\ [Next]_vars => KeysInv'
<1> SUFFICES ASSUME TypeOK, KeysInv, [Next]_vars PROVE KeysInv'
  OBVIOUS
<1> USE DEF blockVars, sessionVars
<1>0. /\ candidates \in Seq(Accounts) /\ nextKeys \in [Accounts -> Keys \cup {NoKey}]
      /\ NoKey \notin Keys
  BY AccountsAssumption DEF TypeOK
<1>1. CASE UNCHANGED <<nextKeys, candidates, authorities, queued>>
  BY <1>1 DEF KeysInv, OneOwner, CandidatesApart, AuthorityKeysDistinct
<1>2. ASSUME NEW slot \in Slots, BeginBlock(slot) PROVE KeysInv'
  BY <1>1, <1>2 DEF BeginBlock
<1>3. CASE AuthorshipHook
  BY <1>1, <1>3 DEF AuthorshipHook
<1>4. CASE SessionHook
  <2>1. CASE ~ShouldEndSession
    BY <1>1, <1>4, <2>1 DEF SessionHook
  <2>2. CASE ShouldEndSession
    <3> DEFINE next == AssembleCollators(ActiveCandidates)
               l == LoadKeys(next)
    <3>1. /\ candidates' = ActiveCandidates /\ nextKeys' = nextKeys
          /\ authorities' = queued /\ queued' = l
      BY <1>4, <2>2 DEF SessionHook, RotateSession
    <3>2. /\ ActiveCandidates \in Seq(Accounts) /\ IsInjective(ActiveCandidates)
          /\ Range(ActiveCandidates) \subseteq Range(candidates)
      BY <1>0, ActiveFacts DEF KeysInv, CandidatesApart
    <3>3. Range(ActiveCandidates) \cap Range(Invulnerables) = {}
      BY <3>2 DEF KeysInv, CandidatesApart
    <3>4. next \in Seq(Accounts) /\ IsInjective(next)
      BY <3>2, <3>3, AssembleFacts
    <3> HIDE DEF next
    <3>5. /\ l \in Seq(Authority)
          /\ \A i \in DOMAIN l : l[i].key = nextKeys[l[i].who]
          /\ \A i, j \in DOMAIN l : l[i].who = l[j].who => i = j
      BY <1>0, <3>4, LoadFacts
    <3> HIDE DEF l
    <3>6. ASSUME NEW i \in DOMAIN l, NEW j \in DOMAIN l, l[i].key = l[j].key PROVE i = j
      <4>1. l[i] \in Authority /\ l[j] \in Authority
        BY <3>5, LenProperties
      <4>2. l[i].who \in Accounts /\ l[j].who \in Accounts /\ l[i].key \in Keys
        BY <4>1 DEF Authority
      <4>3. nextKeys[l[i].who] = nextKeys[l[j].who] /\ nextKeys[l[i].who] # NoKey
        BY <1>0, <3>5, <3>6, <4>2
      <4>4. l[i].who = l[j].who
        BY <4>2, <4>3 DEF KeysInv, OneOwner
      <4> QED BY <3>5, <4>4
    <3>7. AuthorityKeysDistinct'
      BY <3>1, <3>6 DEF KeysInv, AuthorityKeysDistinct
    <3>8. OneOwner' /\ CandidatesApart'
      BY <3>1, <3>2, <3>3 DEF KeysInv, OneOwner, CandidatesApart
    <3> QED BY <3>7, <3>8 DEF KeysInv
  <2> QED BY <2>1, <2>2
<1>5. CASE OtherHook
  BY <1>1, <1>5 DEF OtherHook
<1>6. CASE EndBlock
  BY <1>1, <1>6 DEF EndBlock
<1>7. ASSUME NEW a \in Accounts, NEW k \in Keys, SetKeys(a, k) PROVE KeysInv'
  <2>1. /\ nextKeys' = [nextKeys EXCEPT ![a] = k] /\ \A b \in Accounts : nextKeys[b] # k
        /\ UNCHANGED <<candidates, authorities, queued>>
    BY <1>7 DEF SetKeys, KeyFree
  <2>2. OneOwner'
    <3> SUFFICES ASSUME NEW b \in Accounts, NEW c \in Accounts,
                        nextKeys'[b] = nextKeys'[c], nextKeys'[b] # NoKey
                 PROVE  b = c
      BY DEF OneOwner
    <3>1. nextKeys'[b] = (IF b = a THEN k ELSE nextKeys[b])
      BY <1>0, <2>1
    <3>2. nextKeys'[c] = (IF c = a THEN k ELSE nextKeys[c])
      BY <1>0, <2>1
    <3> QED BY <2>1, <3>1, <3>2 DEF KeysInv, OneOwner
  <2> QED BY <2>1, <2>2 DEF KeysInv, CandidatesApart, AuthorityKeysDistinct
<1>8. ASSUME NEW a \in Careless, PurgeKeys(a) PROVE KeysInv'
  <2>1. /\ nextKeys' = [nextKeys EXCEPT ![a] = NoKey]
        /\ UNCHANGED <<candidates, authorities, queued>>
    BY <1>8 DEF PurgeKeys
  <2>2. OneOwner'
    <3> SUFFICES ASSUME NEW b \in Accounts, NEW c \in Accounts,
                        nextKeys'[b] = nextKeys'[c], nextKeys'[b] # NoKey
                 PROVE  b = c
      BY DEF OneOwner
    <3>1. nextKeys'[b] = (IF b = a THEN NoKey ELSE nextKeys[b])
      BY <1>0, <2>1
    <3>2. nextKeys'[c] = (IF c = a THEN NoKey ELSE nextKeys[c])
      BY <1>0, <2>1
    <3> QED BY <3>1, <3>2 DEF KeysInv, OneOwner
  <2> QED BY <2>1, <2>2 DEF KeysInv, CandidatesApart, AuthorityKeysDistinct
<1>9. ASSUME NEW a \in Accounts, RegisterAsCandidate(a) PROVE KeysInv'
  <2>1. /\ candidates' = Append(candidates, a)
        /\ a \notin Range(Invulnerables) /\ a \notin Range(candidates)
        /\ UNCHANGED <<nextKeys, authorities, queued>>
    BY <1>9 DEF RegisterAsCandidate
  <2>2. IsInjective(candidates') /\ Range(candidates') = Range(candidates) \cup {a}
    BY <1>0, <2>1, AppendFacts DEF KeysInv, CandidatesApart
  <2>3. CandidatesApart'
    BY <2>1, <2>2 DEF KeysInv, CandidatesApart
  <2> QED BY <2>1, <2>3 DEF KeysInv, OneOwner, AuthorityKeysDistinct
<1>10. ASSUME NEW a \in Accounts, LeaveIntent(a) PROVE KeysInv'
  <2>1. /\ candidates' = Retain(candidates, Accounts \ {a})
        /\ UNCHANGED <<nextKeys, authorities, queued>>
    BY <1>10 DEF LeaveIntent
  <2>2. IsInjective(candidates') /\ Range(candidates') \subseteq Range(candidates)
    BY <1>0, <2>1, RetainFacts DEF KeysInv, CandidatesApart
  <2>3. CandidatesApart'
    BY <2>2 DEF KeysInv, CandidatesApart
  <2> QED BY <2>1, <2>3 DEF KeysInv, OneOwner, AuthorityKeysDistinct
<1>11. CASE UNCHANGED vars
  BY <1>1, <1>11 DEF vars
<1> QED
  BY <1>2, <1>3, <1>4, <1>5, <1>6, <1>7, <1>8, <1>9, <1>10, <1>11 DEF Next, Horizon

\* However keys are changed, dropped and taken over while a session waits in
\* the queue, no session key fills two places of the round.
THEOREM KeysApart == Spec => []AuthorityKeysDistinct
<1>1. KeysInv => AuthorityKeysDistinct
  BY DEF KeysInv
<1> QED
  BY <1>1, InitTypeOK, NextTypeOK, InitKeysInv, NextKeysInv, PTL DEF Spec

\* Account a has a place in the authorities s.
Seated(a, s) == \E i \in DOMAIN s : s[i].who = a

\* A careful invulnerable has its keys, and its place now and in the queue.
CarefulSeated ==
    \A a \in Range(Invulnerables) \ Careless :
        nextKeys[a] # NoKey /\ Seated(a, authorities) /\ Seated(a, queued)

\* testnet_genesis seats all invulnerables, in force and in the queue.
LEMMA InitCareful == Init => CarefulSeated
<1> SUFFICES ASSUME Init, NEW a \in Range(Invulnerables) \ Careless
             PROVE  nextKeys[a] # NoKey /\ Seated(a, authorities) /\ Seated(a, queued)
  BY DEF CarefulSeated
<1>1. PICK i \in DOMAIN Invulnerables : a = Invulnerables[i]
  BY DEF Range
<1>2. a \in Accounts /\ NoKey \notin Keys
  BY <1>1, AccountsAssumption, LenProperties
<1>3. nextKeys[a] = GenesisKey[a] /\ GenesisKey[a] \in Keys
  BY <1>1, <1>2, GenesisFacts DEF Init
<1>4. Seated(a, GenesisAuthorities)
  BY <1>1, GenesisFacts DEF Seated
<1> QED
  BY <1>2, <1>3, <1>4 DEF Init

\* Only its owner purges a key, so a rotation finds the careful invulnerables
\* registered.
LEMMA NextCareful == TypeOK /\ CarefulSeated /\ [Next]_vars => CarefulSeated'
<1> SUFFICES ASSUME TypeOK, CarefulSeated, [Next]_vars PROVE CarefulSeated'
  OBVIOUS
<1> USE DEF blockVars, sessionVars
<1>0. /\ candidates \in Seq(Accounts) /\ nextKeys \in [Accounts -> Keys \cup {NoKey}]
      /\ NoKey \notin Keys
  BY AccountsAssumption DEF TypeOK
<1>1. CASE UNCHANGED <<nextKeys, authorities, queued>>
  BY <1>1 DEF CarefulSeated, Seated
<1>2. ASSUME NEW slot \in Slots, BeginBlock(slot) PROVE CarefulSeated'
  BY <1>1, <1>2 DEF BeginBlock
<1>3. CASE AuthorshipHook
  BY <1>1, <1>3 DEF AuthorshipHook
<1>4. CASE SessionHook
  <2>1. CASE ~ShouldEndSession
    BY <1>1, <1>4, <2>1 DEF SessionHook
  <2>2. CASE ShouldEndSession
    <3> DEFINE next == AssembleCollators(ActiveCandidates)
    <3>1. nextKeys' = nextKeys /\ authorities' = queued /\ queued' = LoadKeys(next)
      BY <1>4, <2>2 DEF SessionHook, RotateSession
    <3>2. ActiveCandidates \in Seq(Accounts)
      BY <1>0, ActiveFacts
    <3>3. next \in Seq(Accounts) /\ Range(Invulnerables) \subseteq Range(next)
      BY <3>2, AssembleFacts
    <3> HIDE DEF next
    <3>4. ASSUME NEW a \in Range(Invulnerables) \ Careless PROVE Seated(a, LoadKeys(next))
      <4>1. a \in Range(next) /\ IsRegistered(a)
        BY <3>3 DEF CarefulSeated, IsRegistered
      <4> QED BY <1>0, <3>3, <4>1, LoadFacts DEF Seated
    <3> QED BY <3>1, <3>4 DEF CarefulSeated
  <2> QED BY <2>1, <2>2
<1>5. CASE OtherHook
  BY <1>1, <1>5 DEF OtherHook
<1>6. CASE EndBlock
  BY <1>1, <1>6 DEF EndBlock
<1>7. ASSUME NEW a \in Accounts, NEW k \in Keys, SetKeys(a, k) PROVE CarefulSeated'
  <2>1. nextKeys' = [nextKeys EXCEPT ![a] = k] /\ UNCHANGED <<authorities, queued>>
    BY <1>7 DEF SetKeys
  <2>2. \A b \in Accounts : nextKeys[b] # NoKey => nextKeys'[b] # NoKey
    BY <1>0, <2>1
  <2>3. Range(Invulnerables) \subseteq Accounts
    BY AccountsAssumption, LenProperties DEF Range
  <2> QED BY <2>1, <2>2, <2>3 DEF CarefulSeated, Seated
<1>8. ASSUME NEW a \in Careless, PurgeKeys(a) PROVE CarefulSeated'
  <2>1. nextKeys' = [nextKeys EXCEPT ![a] = NoKey] /\ UNCHANGED <<authorities, queued>>
    BY <1>8 DEF PurgeKeys
  <2>2. \A b \in Accounts \ Careless : nextKeys'[b] = nextKeys[b]
    BY <1>0, <2>1
  <2>3. Range(Invulnerables) \subseteq Accounts
    BY AccountsAssumption, LenProperties DEF Range
  <2> QED BY <2>1, <2>2, <2>3 DEF CarefulSeated, Seated
<1>9. ASSUME NEW a \in Accounts, RegisterAsCandidate(a) PROVE CarefulSeated'
  BY <1>1, <1>9 DEF RegisterAsCandidate
<1>10. ASSUME NEW a \in Accounts, LeaveIntent(a) PROVE CarefulSeated'
  BY <1>1, <1>10 DEF LeaveIntent
<1>11. CASE UNCHANGED vars
  BY <1>1, <1>11 DEF vars
<1> QED
  BY <1>2, <1>3, <1>4, <1>5, <1>6, <1>7, <1>8, <1>9, <1>10, <1>11 DEF Next, Horizon

\* An invulnerable that keeps its keys authors in every session, through any
\* number of rotations and whatever the candidates do.
THEOREM InvulnerablesAuthor == Spec => []InvulnerableAlwaysAuthors
<1>1. SealInv /\ CarefulSeated => InvulnerableAlwaysAuthors
  <2> SUFFICES ASSUME SealInv, CarefulSeated, NEW a \in Range(Invulnerables) \ Careless
               PROVE  a \in Range(validators) /\ \E i \in DOMAIN authorities : authorities[i].who = a
    BY DEF InvulnerableAlwaysAuthors
  <2>1. PICK i \in DOMAIN authorities : authorities[i].who = a
    BY DEF CarefulSeated, Seated
  <2>2. i \in DOMAIN validators /\ validators[i] = a
    BY <2>1 DEF SealInv, SameSeats
  <2> QED BY <2>1, <2>2 DEF Range
<1> QED
  BY <1>1, InitTypeOK, NextTypeOK, InitSealInv, NextSealInv, InitCareful, NextCareful, PTL DEF Spec

-----------------------------------------------------------------------------
(* Active candidates.                                                      *)

\* Blocks of the session so far, the current one included; the block that ends
\* a session is its last one.
Elapsed == IF number % Period = 0 THEN Period ELSE number % Period

\* Once the session rotated in the block that ends it nobody is active, and
\* every active candidate authored one of the blocks of the session.
ActiveInv ==
    /\ number % Period = 0 /\ stage > 2 => active = {}
    /\ \A a \in active \cap Range(candidates) : number - lastAuthored[a] < Elapsed

\* What the remainder does when the block number grows by one.
LEMMA NextRemainder ==
    ASSUME NEW n \in Nat, NEW p \in Nat \ {0}
    PROVE  /\ n % p \in 0..(p - 1)
           /\ (n + 1) % p = IF n % p = p - 1 THEN 0 ELSE (n % p) + 1
<1> DEFINE q == n \div p
           r == n % p
<1>1. q \in Int /\ r \in 0..(p - 1) /\ n = p * q + r
  OBVIOUS
<1>2. \A x, y \in Int : 0 <= y /\ y < p => (p * x + y) % p = y
  OBVIOUS
<1> HIDE DEF q, r
<1>3. CASE r = p - 1
  <2>1. n + 1 = p * (q + 1) + 0
    BY <1>1, <1>3
  <2>2. (p * (q + 1) + 0) % p = 0
    BY <1>1, <1>2
  <2> QED BY <1>1, <1>3, <2>1, <2>2 DEF r
<1>4. CASE r # p - 1
  <2>1. n + 1 = p * q + (r + 1) /\ r + 1 \in Int /\ 0 <= r + 1 /\ r + 1 < p
    BY <1>1, <1>4
  <2>2. (p * q + (r + 1)) % p = r + 1
    BY <1>1, <1>2, <2>1
  <2> QED BY <1>1, <1>4, <2>1, <2>2 DEF r
<1> QED
  BY <1>3, <1>4

\* A session has between one and Period blocks behind it, and a new block adds
\* one unless it begins a session.
LEMMA ElapsedFacts ==
    ASSUME number \in Nat
    PROVE  /\ Elapsed \in 1..Period
           /\ number' = number + 1 /\ number % Period # 0 => Elapsed' = Elapsed + 1
           /\ number' = number => Elapsed' = Elapsed
<1>1. Period \in Nat \ {0}
  BY CountsAssumption
<1>2. /\ number % Period \in 0..(Period - 1)
      /\ (number + 1) % Period = IF number % Period = Period - 1 THEN 0 ELSE (number % Period) + 1
  BY <1>1, NextRemainder
<1> DEFINE r == number % Period
           t == (number + 1) % Period
<1>3. /\ Elapsed = IF r = 0 THEN Period ELSE r
      /\ number' = number + 1 => Elapsed' = IF t = 0 THEN Period ELSE t
      /\ number' = number => Elapsed' = Elapsed
  BY DEF Elapsed
<1>4. r \in 0..(Period - 1) /\ t = IF r = Period - 1 THEN 0 ELSE r + 1
  BY <1>2
<1> HIDE DEF r, t
<1>5. Elapsed \in 1..Period
  BY <1>1, <1>3, <1>4
<1>6. ASSUME number' = number + 1, r # 0 PROVE Elapsed' = Elapsed + 1
  BY <1>1, <1>3, <1>4, <1>6
<1> QED
  BY <1>3, <1>5, <1>6 DEF r

\* Nobody is active at genesis.
LEMMA InitActiveInv == Init => ActiveInv
  BY DEF Init, ActiveInv

\* Every step keeps account of when the active candidates last authored.
LEMMA NextActiveInv == TypeOK /\ ActiveInv /\ [Next]_vars => ActiveInv'
<1> SUFFICES ASSUME TypeOK, ActiveInv, [Next]_vars PROVE ActiveInv'
  OBVIOUS
<1> USE DEF blockVars, sessionVars
<1>0. /\ stage \in 0..6 /\ Idle = 6 /\ Idle' = 6 /\ (InBlock <=> stage = 5)
      /\ stage \in Int /\ stage >= 0
  BY HookFacts DEF TypeOK, Idle, HookOrder
<1>a. /\ number \in Nat /\ lastAuthored \in [Accounts -> Nat] /\ Period \in Nat \ {0}
      /\ Elapsed \in 1..Period /\ candidates \in Seq(Accounts) /\ Range(candidates) \subseteq Accounts
  BY ElapsedFacts, CountsAssumption, LenProperties DEF TypeOK, Range
<1>1. CASE /\ UNCHANGED <<number, candidates, lastAuthored, active>>
           /\ stage > 2 \/ ~(stage' > 2)
  <2>1. Elapsed' = Elapsed
    BY <1>1, <1>a, ElapsedFacts
  <2>2. number % Period = 0 /\ stage' > 2 => stage > 2
    BY <1>0, <1>1
  <2> QED BY <1>1, <2>1, <2>2 DEF ActiveInv
<1>2. ASSUME NEW slot \in Slots, BeginBlock(slot) PROVE ActiveInv'
  <2>1. /\ stage = 6 /\ stage' = 0 /\ number' = number + 1
        /\ UNCHANGED <<candidates, lastAuthored, active>>
    BY <1>0, <1>2 DEF BeginBlock
  <2>2. CASE number % Period = 0
    <3>1. active' = {}
      BY <2>1, <2>2 DEF ActiveInv
    <3> QED BY <3>1 DEF ActiveInv
  <2>3. CASE number % Period # 0
    <3>1. Elapsed' = Elapsed + 1
      BY <1>a, <2>1, <2>3, ElapsedFacts
    <3>2. ASSUME NEW a \in active' \cap Range(candidates') PROVE number' - lastAuthored'[a] < Elapsed'
      <4>1. number - lastAuthored[a] < Elapsed /\ lastAuthored[a] \in Nat
        BY <1>a, <2>1, <3>2 DEF ActiveInv
      <4> QED BY <1>a, <2>1, <3>1, <4>1
    <3>3. ~(stage' > 2)
      BY <2>1
    <3> QED BY <3>2, <3>3 DEF ActiveInv
  <2> QED BY <2>2, <2>3
<1>3. CASE AuthorshipHook
  <2> DEFINE author == FindAuthor(sealer.slot)
  <2>1. stage' = 1 /\ number' = number /\ candidates' = candidates /\ Elapsed' = Elapsed
    BY <1>0, <1>3, <1>a, HookFacts, ElapsedFacts DEF AuthorshipHook, HookDone
  <2>2. \/ UNCHANGED <<lastAuthored, active>>
        \/ /\ lastAuthored' = [lastAuthored EXCEPT ![author] = number]
           /\ active' = active \cup {author}
    BY <1>3 DEF AuthorshipHook
  <2> HIDE DEF author
  <2>3. ASSUME NEW a \in active' \cap Range(candidates') PROVE number' - lastAuthored'[a] < Elapsed'
    <3>1. a \in Accounts /\ a \in Range(candidates) /\ lastAuthored[a] \in Nat
      BY <1>a, <2>1
    <3>2. CASE lastAuthored'[a] = number
      BY <1>a, <2>1, <3>2
    <3>3. CASE lastAuthored'[a] = lastAuthored[a] /\ a \in active
      BY <2>1, <3>1, <3>3 DEF ActiveInv
    <3> QED BY <1>a, <2>2, <3>1, <3>2, <3>3
  <2>4. ~(stage' > 2)
    BY <2>1
  <2> QED BY <2>3, <2>4 DEF ActiveInv
<1>4. CASE SessionHook
  <2>1. number' = number /\ (number % Period = 0 <=> ShouldEndSession)
    BY <1>4 DEF SessionHook, ShouldEndSession
  <2>2. CASE ShouldEndSession
    <3>1. active' = {}
      BY <1>4, <2>2 DEF SessionHook, RotateSession
    <3> QED BY <3>1 DEF ActiveInv
  <2>3. CASE ~ShouldEndSession
    <3>1. UNCHANGED <<candidates, lastAuthored, active>> /\ Elapsed' = Elapsed
      BY <1>4, <1>a, <2>1, <2>3, ElapsedFacts DEF SessionHook
    <3> QED BY <2>1, <2>3, <3>1 DEF ActiveInv
  <2> QED BY <2>2, <2>3
<1>5. CASE OtherHook
  <2>1. stage \in {1, 3, 4} /\ stage' = stage + 1
    BY <1>0, <1>5, HookFacts DEF OtherHook, HookDone
  <2>2. stage > 2 \/ ~(stage' > 2)
    BY <2>1
  <2> QED BY <1>1, <1>5, <2>2 DEF OtherHook
<1>6. CASE EndBlock
  <2>1. stage > 2
    BY <1>0, <1>6 DEF EndBlock
  <2> QED BY <1>1, <1>6, <2>1 DEF EndBlock
<1>7. ASSUME NEW a \in Accounts, NEW k \in Keys, SetKeys(a, k) PROVE ActiveInv'
  <2>1. stage > 2
    BY <1>0, <1>7 DEF SetKeys, Call
  <2> QED BY <1>1, <1>7, <2>1 DEF SetKeys
<1>8. ASSUME NEW a \in Careless, PurgeKeys(a) PROVE ActiveInv'
  <2>1. stage > 2
    BY <1>0, <1>8 DEF PurgeKeys, Call
  <2> QED BY <1>1, <1>8, <2>1 DEF PurgeKeys
<1>9. ASSUME NEW a \in Accounts, RegisterAsCandidate(a) PROVE ActiveInv'
  <2>1. /\ UNCHANGED <<number, stage, active>> /\ Elapsed' = Elapsed
        /\ Range(candidates') = Range(candidates) \cup {a}
        /\ lastAuthored' = [lastAuthored EXCEPT ![a] = number + Period]
    BY <1>9, <1>a, AppendFacts, ElapsedFacts DEF RegisterAsCandidate, Grace, KickThreshold
  <2>2. ASSUME NEW b \in active' \cap Range(candidates') PROVE number' - lastAuthored'[b] < Elapsed'
    <3>1. CASE b = a
      <4>1. lastAuthored'[b] = number + Period
        BY <1>a, <2>1, <3>1
      <4> QED BY <1>a, <2>1, <4>1
    <3>2. CASE b # a
      <4>1. b \in active \cap Range(candidates) /\ lastAuthored'[b] = lastAuthored[b]
        BY <1>a, <2>1, <3>2
      <4> QED BY <2>1, <4>1 DEF ActiveInv
    <3> QED BY <3>1, <3>2
  <2> QED BY <2>1, <2>2 DEF ActiveInv
<1>10. ASSUME NEW a \in Accounts, LeaveIntent(a) PROVE ActiveInv'
  <2>1. /\ UNCHANGED <<number, stage, active>> /\ Elapsed' = Elapsed
        /\ Range(candidates') = Range(candidates) \cap (Accounts \ {a})
        /\ lastAuthored' = Forget({a})
    BY <1>10, <1>a, RetainFacts, ElapsedFacts DEF LeaveIntent
  <2>2. ASSUME NEW b \in active' \cap Range(candidates') PROVE number' - lastAuthored'[b] < Elapsed'
    <3>1. b \in active \cap Range(candidates) /\ lastAuthored'[b] = lastAuthored[b]
      BY <2>1 DEF Forget
    <3> QED BY <2>1, <3>1 DEF ActiveInv
  <2> QED BY <2>1, <2>2 DEF ActiveInv
<1>11. CASE UNCHANGED vars
  <2>1. stage > 2 \/ ~(stage' > 2)
    BY <1>0, <1>11 DEF vars
  <2> QED BY <1>1, <1>11, <2>1 DEF vars
<1> QED
  BY <1>2, <1>3, <1>4, <1>5, <1>6, <1>7, <1>8, <1>9, <1>10, <1>11 DEF Next, Horizon

\* A rotation keeps every candidate that authored a block of the session it
\* ends, for every session length: the threshold of one session is just enough.
THEOREM ActiveKept == Spec => ActiveCandidateKept
<1>1. TypeOK /\ ActiveInv /\ [Next]_vars
        => [SessionHook => Range(candidates) \cap active \subseteq Range(candidates')]_vars
  <2> SUFFICES ASSUME TypeOK, ActiveInv, SessionHook,
                      NEW a \in Range(candidates) \cap active
               PROVE  a \in Range(candidates')
    OBVIOUS
  <2>1. CASE ShouldEndSession
    <3>1. candidates' = ActiveCandidates /\ candidates \in Seq(Accounts)
      BY <2>1 DEF SessionHook, RotateSession, TypeOK
    <3>2. Elapsed = KickThreshold
      BY <2>1 DEF Elapsed, ShouldEndSession, KickThreshold
    <3>3. number - lastAuthored[a] < KickThreshold
      BY <3>2 DEF ActiveInv
    <3> QED BY <3>1, <3>3, ActiveFacts
  <2>2. CASE ~ShouldEndSession
    BY <2>2 DEF SessionHook
  <2> QED BY <2>1, <2>2
<1> QED
  BY <1>1, InitTypeOK, NextTypeOK, InitActiveInv, NextActiveInv, PTL DEF Spec, ActiveCandidateKept

=============================================================================
