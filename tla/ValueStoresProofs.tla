------------------------- MODULE ValueStoresProofs -------------------------
(***************************************************************************)
(* Proofs about the value stores.                                          *)
(***************************************************************************)
EXTENDS ValueStores, ListProofs

-----------------------------------------------------------------------------
(* Containers *)

\* The least of some natural numbers.
LEMMA MinOfSome ==
    ASSUME NEW n \in Nat, NEW s \in SUBSET (0..n), s # {}
    PROVE  Min(s) \in s /\ \A y \in s : Min(s) <= y
<1> DEFINE Good == {m \in 0..n : (\E y \in s : y <= m)
                                 => \E x \in s : \A y \in s : x <= y}
<1>1. 0 \in Good
  BY SMT
<1>2. ASSUME NEW k \in 1..n, k - 1 \in Good PROVE k \in Good
  <2>1. CASE \E y \in s : y <= k - 1
    BY <1>2, <2>1
  <2>2. CASE ~\E y \in s : y <= k - 1
    <3>1. \A y \in s : y \in Int /\ y >= k
      BY <2>2
    <3> QED BY <3>1
  <2> QED BY <2>1, <2>2
<1> HIDE DEF Good
<1>3. n \in Good
  <2>1. 0..n \subseteq Good
    BY <1>1, <1>2, LoopInvariant
  <2> QED BY <2>1
<1>4. PICK x \in s : \A y \in s : x <= y
  <2>1. PICK y : y \in s
    OBVIOUS
  <2>2. y \in 0..n /\ y <= n
    BY <2>1
  <2> QED BY <1>3, <2>1, <2>2 DEF Good
<1> QED BY <1>4 DEF Min

LEMMA ContainsIsIn ==
    ASSUME NEW S, NEW q \in Seq(S), NEW x
    PROVE  Contains(q, x) <=> x \in ToSet(q)
BY DEF Contains, ToSet

\* A copy of a list is the list from behind.
LEMMA CopyKeeps ==
    ASSUME NEW S, NEW q \in Seq(S)
    PROVE  /\ ListCopy(q) \in Seq(S)
           /\ Len(ListCopy(q)) = Len(q)
           /\ ToSet(ListCopy(q)) = ToSet(q)
           /\ IsInjective(q) => IsInjective(ListCopy(q))
<1> DEFINE n == Len(q)
           r == ListCopy(q)
<1>1. n \in Nat /\ DOMAIN q = 1..n
  OBVIOUS
<1>2. r = [i \in 1..n |-> q[(n - i) + 1]]
  BY DEF ListCopy, Reverse
<1>3. \A i \in 1..n : (n - i) + 1 \in 1..n /\ (n - ((n - i) + 1)) + 1 = i
  BY <1>1
<1>4. r \in [1..n -> S]
  BY <1>2, <1>3
<1>5. r \in Seq(S) /\ Len(r) = n /\ DOMAIN r = 1..n
  BY <1>1, <1>4
<1>6. \A i \in 1..n : r[i] = q[(n - i) + 1] /\ q[i] = r[(n - i) + 1]
  BY <1>2, <1>3
<1> HIDE DEF r, n
<1>7. ToSet(r) = ToSet(q)
  <2>1. \A i \in 1..n : r[i] \in ToSet(q) /\ q[i] \in ToSet(r)
    BY <1>1, <1>3, <1>5, <1>6 DEF ToSet
  <2> QED BY <2>1, <1>1, <1>5 DEF ToSet
<1>8. ASSUME IsInjective(q) PROVE IsInjective(r)
  <2> SUFFICES ASSUME NEW i \in 1..n, NEW j \in 1..n, r[i] = r[j] PROVE i = j
    BY <1>5 DEF IsInjective
  <2>1. q[(n - i) + 1] = q[(n - j) + 1]
    BY <1>6
  <2>2. (n - i) + 1 = (n - j) + 1
    BY <1>1, <1>3, <1>8, <2>1 DEF IsInjective
  <2> QED BY <1>1, <2>2
<1> QED BY <1>5, <1>7, <1>8 DEF n, r

\* Pushing what the list does not have.
LEMMA PushIsLarger ==
    ASSUME NEW S, NEW q \in Seq(S), NEW x \in S
    PROVE  /\ ListPush(q, x) \in Seq(S)
           /\ ListPush(q, x) # <<>>
           /\ Len(ListPush(q, x)) = Len(q) + 1
           /\ ToSet(ListPush(q, x)) = ToSet(q) \cup {x}
           /\ IsInjective(q) /\ x \notin ToSet(q) => IsInjective(ListPush(q, x))
<1> DEFINE n == Len(q)
           r == ListPush(q, x)
<1>1. n \in Nat /\ DOMAIN q = 1..n
  OBVIOUS
<1>2. r \in Seq(S) /\ Len(r) = n + 1 /\ DOMAIN r = 1..(n + 1)
  BY <1>1 DEF ListPush
<1>3. r[1] = x /\ \A i \in 1..n : r[i + 1] = q[i]
  BY <1>1 DEF ListPush
<1>4. \A i \in 1..(n + 1) : i = 1 \/ (i - 1 \in 1..n /\ r[i] = q[i - 1])
  <2> TAKE i \in 1..(n + 1)
  <2>1. CASE i # 1
    <3>1. i - 1 \in 1..n /\ (i - 1) + 1 = i
      BY <1>1, <2>1
    <3> QED BY <1>3, <3>1
  <2> QED BY <2>1
<1> HIDE DEF r, n
<1>5. ToSet(r) = ToSet(q) \cup {x}
  <2>1. \A i \in 1..(n + 1) : r[i] \in ToSet(q) \cup {x}
    BY <1>1, <1>3, <1>4 DEF ToSet
  <2>2. \A i \in 1..n : i + 1 \in 1..(n + 1)
    BY <1>1
  <2>3. \A i \in 1..n : q[i] \in ToSet(r)
    BY <1>2, <1>3, <2>2 DEF ToSet
  <2>4. x \in ToSet(r)
    BY <1>1, <1>2, <1>3 DEF ToSet
  <2> QED BY <1>1, <1>2, <2>1, <2>3, <2>4 DEF ToSet
<1>6. ASSUME IsInjective(q), x \notin ToSet(q) PROVE IsInjective(r)
  <2> SUFFICES ASSUME NEW i \in 1..(n + 1), NEW j \in 1..(n + 1), r[i] = r[j]
               PROVE  i = j
    BY <1>2 DEF IsInjective
  <2>1. \A k \in 1..n : q[k] # x
    BY <1>1, <1>6 DEF ToSet
  <2>2. CASE i = 1 \/ j = 1
    BY <1>3, <1>4, <2>1, <2>2
  <2>3. CASE i # 1 /\ j # 1
    <3>1. i - 1 \in 1..n /\ j - 1 \in 1..n /\ q[i - 1] = q[j - 1]
      BY <1>4, <2>3
    <3>2. i - 1 = j - 1
      BY <1>1, <1>6, <3>1 DEF IsInjective
    <3> QED BY <1>1, <3>2
  <2> QED BY <2>2, <2>3
<1>7. r # <<>>
  BY <1>1, <1>2
<1> QED BY <1>2, <1>5, <1>6, <1>7 DEF n, r

\* Taking the first occurrence out of a list without repetition.
LEMMA RemoveTakesOut ==
    ASSUME NEW S, NEW q \in Seq(S), NEW x, IsInjective(q)
    PROVE  /\ RemoveFirst(q, x) \in Seq(S)
           /\ IsInjective(RemoveFirst(q, x))
           /\ ToSet(RemoveFirst(q, x)) = ToSet(q) \ {x}
<1> DEFINE n == Len(q)
           r == RemoveFirst(q, x)
           hits == {i \in 1..n : q[i] = x}
           m == Min(hits)
<1>1. n \in Nat /\ DOMAIN q = 1..n
  OBVIOUS
<1>2. CASE hits = {}
  <2>1. r = q /\ x \notin ToSet(q)
    BY <1>1, <1>2 DEF RemoveFirst, ToSet
  <2> QED BY <2>1
<1>3. CASE hits # {}
  <2>1. m \in hits
    <3>1. hits \in SUBSET (0..n)
      BY <1>1
    <3> HIDE DEF hits
    <3> QED BY <1>1, <1>3, <3>1, MinOfSome
  <2>2. r = SubSeq(q, 1, m - 1) \o SubSeq(q, m + 1, n)
    BY <1>3 DEF RemoveFirst, RemoveAt, SelectInSeq
  <2>3. m \in 1..n /\ q[m] = x
    BY <2>1
  <2> HIDE DEF m, hits
  <2> DEFINE a == SubSeq(q, 1, m - 1)
             b == SubSeq(q, m + 1, n)
  <2>4. /\ a \in Seq(S) /\ Len(a) = m - 1
        /\ \A i \in 1..(m - 1) : a[i] = q[i]
    BY <1>1, <2>3
  <2>5. /\ b \in Seq(S) /\ Len(b) = n - m
        /\ \A i \in 1..(n - m) : b[i] = q[m + i]
    <3>1. \A i \in (m + 1)..n : q[i] \in S
      BY <1>1, <2>3
    <3>2. b = [i \in 1..(n - m) |-> q[m + i]]
      BY <1>1, <2>3
    <3>3. \A i \in 1..(n - m) : q[m + i] \in S
      BY <1>1, <2>3
    <3> HIDE DEF b
    <3>4. b \in [1..(n - m) -> S] /\ n - m \in Nat
      BY <1>1, <2>3, <3>2, <3>3
    <3> QED BY <3>2, <3>4
  <2> HIDE DEF a, b
  <2>6. r = a \o b
    BY <2>2 DEF a, b
  <2>7. /\ r \in Seq(S) /\ Len(r) = n - 1
        /\ \A i \in 1..(m - 1) : r[i] = q[i]
        /\ \A i \in m..(n - 1) : r[i] = q[i + 1]
    <3>1. r \in Seq(S) /\ Len(r) = Len(a) + Len(b)
      BY <2>4, <2>5, <2>6, ConcatProperties
    <3>2. \A i \in 1..(m - 1) : r[i] = a[i]
      BY <1>1, <2>3, <2>4, <2>5, <2>6
    <3>3. \A i \in m..(n - 1) : r[i] = b[i - (m - 1)] /\ i - (m - 1) \in 1..(n - m)
      BY <1>1, <2>3, <2>4, <2>5, <2>6
    <3>4. \A i \in m..(n - 1) : m + (i - (m - 1)) = i + 1
      BY <1>1, <2>3
    <3>5. Len(r) = n - 1
      BY <1>1, <2>3, <2>4, <2>5, <3>1
    <3> QED BY <2>4, <2>5, <3>1, <3>2, <3>3, <3>4, <3>5
  <2> HIDE DEF r
  <2> DEFINE place == [i \in 1..(n - 1) |-> IF i < m THEN i ELSE i + 1]
  <2>8. /\ \A i \in 1..(n - 1) : place[i] \in 1..n /\ place[i] # m /\ r[i] = q[place[i]]
        /\ \A i, j \in 1..(n - 1) : place[i] = place[j] => i = j
        /\ \A k \in 1..n : k # m => \E i \in 1..(n - 1) : place[i] = k
    <3>1. ASSUME NEW i \in 1..(n - 1)
          PROVE  place[i] \in 1..n /\ place[i] # m /\ r[i] = q[place[i]]
      <4>1. CASE i < m
        <5>1. i \in 1..(m - 1)
          BY <2>3, <4>1
        <5> QED BY <1>1, <2>3, <2>7, <4>1, <5>1
      <4>2. CASE ~(i < m)
        <5>1. i \in m..(n - 1)
          BY <1>1, <2>3, <4>2
        <5> QED BY <1>1, <2>3, <2>7, <4>2, <5>1
      <4> QED BY <4>1, <4>2
    <3>2. \A i, j \in 1..(n - 1) : place[i] = place[j] => i = j
      BY <1>1, <2>3
    <3>3. ASSUME NEW k \in 1..n, k # m PROVE \E i \in 1..(n - 1) : place[i] = k
      <4>1. CASE k < m
        <5>1. k \in 1..(n - 1) /\ place[k] = k
          BY <1>1, <2>3, <4>1
        <5> QED BY <5>1
      <4>2. CASE k > m
        <5>1. k - 1 \in 1..(n - 1) /\ place[k - 1] = k
          BY <1>1, <2>3, <4>2
        <5> QED BY <5>1
      <4> QED BY <1>1, <2>3, <3>3, <4>1, <4>2
    <3> QED BY <3>1, <3>2, <3>3
  <2> HIDE DEF place
  <2>9. DOMAIN r = 1..(n - 1)
    BY <1>1, <2>3, <2>7
  <2>10. IsInjective(r)
    BY <1>1, <2>8, <2>9 DEF IsInjective
  <2>11. ToSet(r) = ToSet(q) \ {x}
    <3>1. \A i \in 1..(n - 1) : r[i] \in ToSet(q) /\ r[i] # x
      <4> TAKE i \in 1..(n - 1)
      <4>1. place[i] \in 1..n /\ place[i] # m /\ r[i] = q[place[i]]
        BY <2>8
      <4>2. q[place[i]] # q[m]
        BY <1>1, <2>3, <4>1 DEF IsInjective
      <4> QED BY <1>1, <2>3, <4>1, <4>2 DEF ToSet
    <3>2. \A k \in 1..n : q[k] # x => q[k] \in ToSet(r)
      <4> TAKE k \in 1..n
      <4> HAVE q[k] # x
      <4>1. PICK i \in 1..(n - 1) : place[i] = k
        BY <2>3, <2>8
      <4>2. r[i] = q[k]
        BY <2>8, <4>1
      <4> QED BY <2>9, <4>2 DEF ToSet
    <3> QED BY <1>1, <2>9, <3>1, <3>2 DEF ToSet
  <2> QED BY <2>7, <2>10, <2>11 DEF r
<1> QED BY <1>2, <1>3

\* The rounds of the loop over the texts of a set that is deleted.
IsRemoveTextsRun(r, A, base, q) ==
    /\ r \in [0..Len(q) -> A]
    /\ r[0] = base /\ r[Len(q)] = RemoveTexts(base, q)
    /\ \A k \in 1..Len(q) : r[k] = TableRemove(r[k - 1], q[k])

LEMMA RemoveTextsRuns ==
    ASSUME NEW A, NEW S, NEW q \in Seq(S),
           NEW base \in A, \A a \in A, x \in S : TableRemove(a, x) \in A
    PROVE  \E r : IsRemoveTextsRun(r, A, base, q)
<1> DEFINE n == Len(q)
           Rule(f) == f = [s \in SUBSET DOMAIN q |->
                              IF s = {} THEN base
                              ELSE TableRemove(f[s \ {Max(s)}], q[Max(s)])]
           F == CHOOSE f : Rule(f)
<1>1. n \in Nat /\ DOMAIN q = 1..n /\ \A k \in 1..n : q[k] \in S
  OBVIOUS
<1>2. RemoveTexts(base, q) = F[DOMAIN q]
  BY DEF RemoveTexts, FoldLeft, MapThenFoldSet
<1> DEFINE g == [x \in (1..n) \X A |-> TableRemove(x[2], q[x[1]])]
<1>3. g \in [(1..n) \X A -> A]
  BY <1>1
<1>4. PICK f \in [SUBSET (1..n) -> A] : IsFoldOn(f, base, g, n)
  BY <1>1, <1>3, FoldExists
<1>5. ASSUME NEW s \in SUBSET (1..n), s # {}
      PROVE  g[<<Max(s), f[s \ {Max(s)}]>>] = TableRemove(f[s \ {Max(s)}], q[Max(s)])
  <2>1. Max(s) \in 1..n
    BY <1>1, <1>5, MaxOfSome
  <2>2. f[s \ {Max(s)}] \in A
    OBVIOUS
  <2> QED BY <2>1, <2>2
<1> HIDE DEF g
<1>6. Rule(f)
  BY <1>1, <1>4, <1>5 DEF IsFoldOn
<1> HIDE DEF Rule
<1>7. Rule(F)
  BY <1>6
<1> HIDE DEF F
<1> USE DEF Rule
<1> DEFINE r == [k \in 0..n |-> F[1..k]]
<1>8. r[0] = base
  BY <1>1, <1>7
<1>9. ASSUME NEW k \in 1..n PROVE r[k] = TableRemove(r[k - 1], q[k])
  <2>1. 1..k # {} /\ Max(1..k) = k /\ (1..k) \ {k} = 1..(k - 1)
    BY LastRound
  <2>2. 1..k \in SUBSET DOMAIN q
    BY <1>1
  <2>3. r[k] = F[1..k] /\ r[k - 1] = F[1..(k - 1)]
    BY <1>1
  <2> HIDE DEF r
  <2> QED BY <1>7, <2>1, <2>2, <2>3
<1>10. r[n] = RemoveTexts(base, q)
  BY <1>1, <1>2
<1> DEFINE Good == {k \in 0..n : r[k] \in A}
<1>11. r = [k \in 0..n |-> r[k]]
  OBVIOUS
<1> HIDE DEF r
<1>12. 0 \in Good
  BY <1>1, <1>8
<1>13. ASSUME NEW k \in 1..n, k - 1 \in Good PROVE k \in Good
  BY <1>1, <1>9, <1>13
<1> HIDE DEF Good
<1>14. 0..n \subseteq Good
  BY <1>1, <1>12, <1>13, LoopInvariant
<1>15. \A k \in 0..n : r[k] \in A
  BY <1>14 DEF Good
<1>16. r \in [0..n -> A]
  BY <1>11, <1>15
<1>17. IsRemoveTextsRun(r, A, base, q)
  BY <1>8, <1>9, <1>10, <1>16 DEF IsRemoveTextsRun
<1> QED BY <1>17

\* Putting the texts of a set into the table.
IsPutTextsRun(r, A, base, q, vid) ==
    /\ r \in [0..Len(q) -> A]
    /\ r[0] = base /\ r[Len(q)] = PutTexts(base, q, vid)
    /\ \A k \in 1..Len(q) : r[k] = TablePut(r[k - 1], q[k], vid)

LEMMA PutTextsRuns ==
    ASSUME NEW A, NEW S, NEW q \in Seq(S), NEW vid,
           NEW base \in A, \A a \in A, x \in S : TablePut(a, x, vid) \in A
    PROVE  \E r : IsPutTextsRun(r, A, base, q, vid)
<1> DEFINE n == Len(q)
           Rule(f) == f = [s \in SUBSET DOMAIN q |->
                              IF s = {} THEN base
                              ELSE TablePut(f[s \ {Max(s)}], q[Max(s)], vid)]
           F == CHOOSE f : Rule(f)
<1>1. n \in Nat /\ DOMAIN q = 1..n /\ \A k \in 1..n : q[k] \in S
  OBVIOUS
<1>2. PutTexts(base, q, vid) = F[DOMAIN q]
  BY DEF PutTexts, FoldLeft, MapThenFoldSet
<1> DEFINE g == [x \in (1..n) \X A |-> TablePut(x[2], q[x[1]], vid)]
<1>3. g \in [(1..n) \X A -> A]
  BY <1>1
<1>4. PICK f \in [SUBSET (1..n) -> A] : IsFoldOn(f, base, g, n)
  BY <1>1, <1>3, FoldExists
<1>5. ASSUME NEW s \in SUBSET (1..n), s # {}
      PROVE  g[<<Max(s), f[s \ {Max(s)}]>>] = TablePut(f[s \ {Max(s)}], q[Max(s)], vid)
  <2>1. Max(s) \in 1..n
    BY <1>1, <1>5, MaxOfSome
  <2>2. f[s \ {Max(s)}] \in A
    OBVIOUS
  <2> QED BY <2>1, <2>2
<1> HIDE DEF g
<1>6. Rule(f)
  BY <1>1, <1>4, <1>5 DEF IsFoldOn
<1> HIDE DEF Rule
<1>7. Rule(F)
  BY <1>6
<1> HIDE DEF F
<1> USE DEF Rule
<1> DEFINE r == [k \in 0..n |-> F[1..k]]
<1>8. r[0] = base
  BY <1>1, <1>7
<1>9. ASSUME NEW k \in 1..n PROVE r[k] = TablePut(r[k - 1], q[k], vid)
  <2>1. 1..k # {} /\ Max(1..k) = k /\ (1..k) \ {k} = 1..(k - 1)
    BY LastRound
  <2>2. 1..k \in SUBSET DOMAIN q
    BY <1>1
  <2>3. r[k] = F[1..k] /\ r[k - 1] = F[1..(k - 1)]
    BY <1>1
  <2> HIDE DEF r
  <2> QED BY <1>7, <2>1, <2>2, <2>3
<1>10. r[n] = PutTexts(base, q, vid)
  BY <1>1, <1>2
<1> DEFINE Good == {k \in 0..n : r[k] \in A}
<1>11. r = [k \in 0..n |-> r[k]]
  OBVIOUS
<1> HIDE DEF r
<1>12. 0 \in Good
  BY <1>1, <1>8
<1>13. ASSUME NEW k \in 1..n, k - 1 \in Good PROVE k \in Good
  BY <1>1, <1>9, <1>13
<1> HIDE DEF Good
<1>14. 0..n \subseteq Good
  BY <1>1, <1>12, <1>13, LoopInvariant
<1>15. \A k \in 0..n : r[k] \in A
  BY <1>14 DEF Good
<1>16. r \in [0..n -> A]
  BY <1>11, <1>15
<1>17. IsPutTextsRun(r, A, base, q, vid)
  BY <1>8, <1>9, <1>10, <1>16 DEF IsPutTextsRun
<1> QED BY <1>17

\* Adding the texts of another set.
IsUnionRun(r, A, base, q, set) ==
    /\ r \in [0..Len(q) -> A]
    /\ r[0] = base /\ r[Len(q)] = TextSetUnion(set, q)
    /\ \A k \in 1..Len(q) : r[k] = (IF Contains(r[k - 1], q[k]) THEN r[k - 1] ELSE ListPush(r[k - 1], q[k]))

LEMMA UnionRuns ==
    ASSUME NEW A, NEW S, NEW q \in Seq(S), NEW set,
           NEW base \in A, base = ListCopy(set),
           \A a \in A, x \in S : (IF Contains(a, x) THEN a ELSE ListPush(a, x)) \in A
    PROVE  \E r : IsUnionRun(r, A, base, q, set)
<1> DEFINE n == Len(q)
           Rule(f) == f = [s \in SUBSET DOMAIN q |->
                              IF s = {} THEN base
                              ELSE (IF Contains(f[s \ {Max(s)}], q[Max(s)]) THEN f[s \ {Max(s)}] ELSE ListPush(f[s \ {Max(s)}], q[Max(s)]))]
           F == CHOOSE f : Rule(f)
<1>1. n \in Nat /\ DOMAIN q = 1..n /\ \A k \in 1..n : q[k] \in S
  OBVIOUS
<1>2. TextSetUnion(set, q) = F[DOMAIN q]
  BY DEF TextSetUnion, FoldLeft, MapThenFoldSet
<1> DEFINE g == [x \in (1..n) \X A |-> (IF Contains(x[2], q[x[1]]) THEN x[2] ELSE ListPush(x[2], q[x[1]]))]
<1>3. g \in [(1..n) \X A -> A]
  BY <1>1
<1>4. PICK f \in [SUBSET (1..n) -> A] : IsFoldOn(f, base, g, n)
  BY <1>1, <1>3, FoldExists
<1>5. ASSUME NEW s \in SUBSET (1..n), s # {}
      PROVE  g[<<Max(s), f[s \ {Max(s)}]>>] = (IF Contains(f[s \ {Max(s)}], q[Max(s)]) THEN f[s \ {Max(s)}] ELSE ListPush(f[s \ {Max(s)}], q[Max(s)]))
  <2>1. Max(s) \in 1..n
    BY <1>1, <1>5, MaxOfSome
  <2>2. f[s \ {Max(s)}] \in A
    OBVIOUS
  <2> QED BY <2>1, <2>2
<1> HIDE DEF g
<1>6. Rule(f)
  BY <1>1, <1>4, <1>5 DEF IsFoldOn
<1> HIDE DEF Rule
<1>7. Rule(F)
  BY <1>6
<1> HIDE DEF F
<1> USE DEF Rule
<1> DEFINE r == [k \in 0..n |-> F[1..k]]
<1>8. r[0] = base
  BY <1>1, <1>7
<1>9. ASSUME NEW k \in 1..n PROVE r[k] = (IF Contains(r[k - 1], q[k]) THEN r[k - 1] ELSE ListPush(r[k - 1], q[k]))
  <2>1. 1..k # {} /\ Max(1..k) = k /\ (1..k) \ {k} = 1..(k - 1)
    BY LastRound
  <2>2. 1..k \in SUBSET DOMAIN q
    BY <1>1
  <2>3. r[k] = F[1..k] /\ r[k - 1] = F[1..(k - 1)]
    BY <1>1
  <2> HIDE DEF r
  <2> QED BY <1>7, <2>1, <2>2, <2>3
<1>10. r[n] = TextSetUnion(set, q)
  BY <1>1, <1>2
<1> DEFINE Good == {k \in 0..n : r[k] \in A}
<1>11. r = [k \in 0..n |-> r[k]]
  OBVIOUS
<1> HIDE DEF r
<1>12. 0 \in Good
  BY <1>1, <1>8
<1>13. ASSUME NEW k \in 1..n, k - 1 \in Good PROVE k \in Good
  BY <1>1, <1>9, <1>13
<1> HIDE DEF Good
<1>14. 0..n \subseteq Good
  BY <1>1, <1>12, <1>13, LoopInvariant
<1>15. \A k \in 0..n : r[k] \in A
  BY <1>14 DEF Good
<1>16. r \in [0..n -> A]
  BY <1>11, <1>15
<1>17. IsUnionRun(r, A, base, q, set)
  BY <1>8, <1>9, <1>10, <1>16 DEF IsUnionRun
<1> QED BY <1>17

\* Looking up the texts of a set.
IsMetRun(r, A, base, q) ==
    /\ r \in [0..Len(q) -> A]
    /\ r[0] = base /\ r[Len(q)] = Met(q)
    /\ \A k \in 1..Len(q) : r[k] = Noticed(r[k - 1], TableGet(table, q[k]))

LEMMA MetRuns ==
    ASSUME NEW A, NEW S, NEW q \in Seq(S),
           NEW base \in A, base = <<>>,
           \A a \in A, x \in S : Noticed(a, TableGet(table, x)) \in A
    PROVE  \E r : IsMetRun(r, A, base, q)
<1> DEFINE n == Len(q)
           Rule(f) == f = [s \in SUBSET DOMAIN q |->
                              IF s = {} THEN base
                              ELSE Noticed(f[s \ {Max(s)}], TableGet(table, q[Max(s)]))]
           F == CHOOSE f : Rule(f)
<1>1. n \in Nat /\ DOMAIN q = 1..n /\ \A k \in 1..n : q[k] \in S
  OBVIOUS
<1>2. Met(q) = F[DOMAIN q]
  BY DEF Met, Noticed, FoldLeft, MapThenFoldSet
<1> DEFINE g == [x \in (1..n) \X A |-> Noticed(x[2], TableGet(table, q[x[1]]))]
<1>3. g \in [(1..n) \X A -> A]
  BY <1>1
<1>4. PICK f \in [SUBSET (1..n) -> A] : IsFoldOn(f, base, g, n)
  BY <1>1, <1>3, FoldExists
<1>5. ASSUME NEW s \in SUBSET (1..n), s # {}
      PROVE  g[<<Max(s), f[s \ {Max(s)}]>>] = Noticed(f[s \ {Max(s)}], TableGet(table, q[Max(s)]))
  <2>1. Max(s) \in 1..n
    BY <1>1, <1>5, MaxOfSome
  <2>2. f[s \ {Max(s)}] \in A
    OBVIOUS
  <2> QED BY <2>1, <2>2
<1> HIDE DEF g
<1>6. Rule(f)
  BY <1>1, <1>4, <1>5 DEF IsFoldOn
<1> HIDE DEF Rule
<1>7. Rule(F)
  BY <1>6
<1> HIDE DEF F
<1> USE DEF Rule
<1> DEFINE r == [k \in 0..n |-> F[1..k]]
<1>8. r[0] = base
  BY <1>1, <1>7
<1>9. ASSUME NEW k \in 1..n PROVE r[k] = Noticed(r[k - 1], TableGet(table, q[k]))
  <2>1. 1..k # {} /\ Max(1..k) = k /\ (1..k) \ {k} = 1..(k - 1)
    BY LastRound
  <2>2. 1..k \in SUBSET DOMAIN q
    BY <1>1
  <2>3. r[k] = F[1..k] /\ r[k - 1] = F[1..(k - 1)]
    BY <1>1
  <2> HIDE DEF r
  <2> QED BY <1>7, <2>1, <2>2, <2>3
<1>10. r[n] = Met(q)
  BY <1>1, <1>2
<1> DEFINE Good == {k \in 0..n : r[k] \in A}
<1>11. r = [k \in 0..n |-> r[k]]
  OBVIOUS
<1> HIDE DEF r
<1>12. 0 \in Good
  BY <1>1, <1>8
<1>13. ASSUME NEW k \in 1..n, k - 1 \in Good PROVE k \in Good
  BY <1>1, <1>9, <1>13
<1> HIDE DEF Good
<1>14. 0..n \subseteq Good
  BY <1>1, <1>12, <1>13, LoopInvariant
<1>15. \A k \in 0..n : r[k] \in A
  BY <1>14 DEF Good
<1>16. r \in [0..n -> A]
  BY <1>11, <1>15
<1>17. IsMetRun(r, A, base, q)
  BY <1>8, <1>9, <1>10, <1>16 DEF IsMetRun
<1> QED BY <1>17

\* Deleting sets, one after the other.
IsRemovedRun(r, A, base, q) ==
    /\ r \in [0..Len(q) -> A]
    /\ r[0] = base /\ r[Len(q)] = Removed(base, q)
    /\ \A k \in 1..Len(q) : r[k] = RemoveTexts(r[k - 1], cell[q[k]])

LEMMA RemovedRuns ==
    ASSUME NEW A, NEW S, NEW q \in Seq(S),
           NEW base \in A, \A a \in A, x \in S : RemoveTexts(a, cell[x]) \in A
    PROVE  \E r : IsRemovedRun(r, A, base, q)
<1> DEFINE n == Len(q)
           Rule(f) == f = [s \in SUBSET DOMAIN q |->
                              IF s = {} THEN base
                              ELSE RemoveTexts(f[s \ {Max(s)}], cell[q[Max(s)]])]
           F == CHOOSE f : Rule(f)
<1>1. n \in Nat /\ DOMAIN q = 1..n /\ \A k \in 1..n : q[k] \in S
  OBVIOUS
<1>2. Removed(base, q) = F[DOMAIN q]
  BY DEF Removed, FoldLeft, MapThenFoldSet
<1> DEFINE g == [x \in (1..n) \X A |-> RemoveTexts(x[2], cell[q[x[1]]])]
<1>3. g \in [(1..n) \X A -> A]
  BY <1>1
<1>4. PICK f \in [SUBSET (1..n) -> A] : IsFoldOn(f, base, g, n)
  BY <1>1, <1>3, FoldExists
<1>5. ASSUME NEW s \in SUBSET (1..n), s # {}
      PROVE  g[<<Max(s), f[s \ {Max(s)}]>>] = RemoveTexts(f[s \ {Max(s)}], cell[q[Max(s)]])
  <2>1. Max(s) \in 1..n
    BY <1>1, <1>5, MaxOfSome
  <2>2. f[s \ {Max(s)}] \in A
    OBVIOUS
  <2> QED BY <2>1, <2>2
<1> HIDE DEF g
<1>6. Rule(f)
  BY <1>1, <1>4, <1>5 DEF IsFoldOn
<1> HIDE DEF Rule
<1>7. Rule(F)
  BY <1>6
<1> HIDE DEF F
<1> USE DEF Rule
<1> DEFINE r == [k \in 0..n |-> F[1..k]]
<1>8. r[0] = base
  BY <1>1, <1>7
<1>9. ASSUME NEW k \in 1..n PROVE r[k] = RemoveTexts(r[k - 1], cell[q[k]])
  <2>1. 1..k # {} /\ Max(1..k) = k /\ (1..k) \ {k} = 1..(k - 1)
    BY LastRound
  <2>2. 1..k \in SUBSET DOMAIN q
    BY <1>1
  <2>3. r[k] = F[1..k] /\ r[k - 1] = F[1..(k - 1)]
    BY <1>1
  <2> HIDE DEF r
  <2> QED BY <1>7, <2>1, <2>2, <2>3
<1>10. r[n] = Removed(base, q)
  BY <1>1, <1>2
<1> DEFINE Good == {k \in 0..n : r[k] \in A}
<1>11. r = [k \in 0..n |-> r[k]]
  OBVIOUS
<1> HIDE DEF r
<1>12. 0 \in Good
  BY <1>1, <1>8
<1>13. ASSUME NEW k \in 1..n, k - 1 \in Good PROVE k \in Good
  BY <1>1, <1>9, <1>13
<1> HIDE DEF Good
<1>14. 0..n \subseteq Good
  BY <1>1, <1>12, <1>13, LoopInvariant
<1>15. \A k \in 0..n : r[k] \in A
  BY <1>14 DEF Good
<1>16. r \in [0..n -> A]
  BY <1>11, <1>15
<1>17. IsRemovedRun(r, A, base, q)
  BY <1>8, <1>9, <1>10, <1>16 DEF IsRemovedRun
<1> QED BY <1>17

\* Uniting sets, one after the other.
IsJoinedRun(r, A, base, q) ==
    /\ r \in [0..Len(q) -> A]
    /\ r[0] = base /\ r[Len(q)] = Joined(base, q)
    /\ \A k \in 1..Len(q) : r[k] = TextSetUnion(r[k - 1], GetValue(q[k]))

LEMMA JoinedRuns ==
    ASSUME NEW A, NEW S, NEW q \in Seq(S),
           NEW base \in A, \A a \in A, x \in S : TextSetUnion(a, GetValue(x)) \in A
    PROVE  \E r : IsJoinedRun(r, A, base, q)
<1> DEFINE n == Len(q)
           Rule(f) == f = [s \in SUBSET DOMAIN q |->
                              IF s = {} THEN base
                              ELSE TextSetUnion(f[s \ {Max(s)}], GetValue(q[Max(s)]))]
           F == CHOOSE f : Rule(f)
<1>1. n \in Nat /\ DOMAIN q = 1..n /\ \A k \in 1..n : q[k] \in S
  OBVIOUS
<1>2. Joined(base, q) = F[DOMAIN q]
  BY DEF Joined, FoldLeft, MapThenFoldSet
<1> DEFINE g == [x \in (1..n) \X A |-> TextSetUnion(x[2], GetValue(q[x[1]]))]
<1>3. g \in [(1..n) \X A -> A]
  BY <1>1
<1>4. PICK f \in [SUBSET (1..n) -> A] : IsFoldOn(f, base, g, n)
  BY <1>1, <1>3, FoldExists
<1>5. ASSUME NEW s \in SUBSET (1..n), s # {}
      PROVE  g[<<Max(s), f[s \ {Max(s)}]>>] = TextSetUnion(f[s \ {Max(s)}], GetValue(q[Max(s)]))
  <2>1. Max(s) \in 1..n
    BY <1>1, <1>5, MaxOfSome
  <2>2. f[s \ {Max(s)}] \in A
    OBVIOUS
  <2> QED BY <2>1, <2>2
<1> HIDE DEF g
<1>6. Rule(f)
  BY <1>1, <1>4, <1>5 DEF IsFoldOn
<1> HIDE DEF Rule
<1>7. Rule(F)
  BY <1>6
<1> HIDE DEF F
<1> USE DEF Rule
<1> DEFINE r == [k \in 0..n |-> F[1..k]]
<1>8. r[0] = base
  BY <1>1, <1>7
<1>9. ASSUME NEW k \in 1..n PROVE r[k] = TextSetUnion(r[k - 1], GetValue(q[k]))
  <2>1. 1..k # {} /\ Max(1..k) = k /\ (1..k) \ {k} = 1..(k - 1)
    BY LastRound
  <2>2. 1..k \in SUBSET DOMAIN q
    BY <1>1
  <2>3. r[k] = F[1..k] /\ r[k - 1] = F[1..(k - 1)]
    BY <1>1
  <2> HIDE DEF r
  <2> QED BY <1>7, <2>1, <2>2, <2>3
<1>10. r[n] = Joined(base, q)
  BY <1>1, <1>2
<1> DEFINE Good == {k \in 0..n : r[k] \in A}
<1>11. r = [k \in 0..n |-> r[k]]
  OBVIOUS
<1> HIDE DEF r
<1>12. 0 \in Good
  BY <1>1, <1>8
<1>13. ASSUME NEW k \in 1..n, k - 1 \in Good PROVE k \in Good
  BY <1>1, <1>9, <1>13
<1> HIDE DEF Good
<1>14. 0..n \subseteq Good
  BY <1>1, <1>12, <1>13, LoopInvariant
<1>15. \A k \in 0..n : r[k] \in A
  BY <1>14 DEF Good
<1>16. r \in [0..n -> A]
  BY <1>11, <1>15
<1>17. IsJoinedRun(r, A, base, q)
  BY <1>8, <1>9, <1>10, <1>16 DEF IsJoinedRun
<1> QED BY <1>17

\* Entering the topics of an array into the index.
IsInsertedRun(r, A, base, q, v) ==
    /\ r \in [0..Len(q) -> A]
    /\ r[0] = base /\ r[Len(q)] = InsertedIn(base, v, q)
    /\ \A k \in 1..Len(q) : r[k] = PutAt(r[k - 1], v, q[k])

LEMMA InsertedRuns ==
    ASSUME NEW A, NEW S, NEW q \in Seq(S), NEW v,
           NEW base \in A, \A a \in A, x \in S : PutAt(a, v, x) \in A
    PROVE  \E r : IsInsertedRun(r, A, base, q, v)
<1> DEFINE n == Len(q)
           Rule(f) == f = [s \in SUBSET DOMAIN q |->
                              IF s = {} THEN base
                              ELSE PutAt(f[s \ {Max(s)}], v, q[Max(s)])]
           F == CHOOSE f : Rule(f)
<1>1. n \in Nat /\ DOMAIN q = 1..n /\ \A k \in 1..n : q[k] \in S
  OBVIOUS
<1>2. InsertedIn(base, v, q) = F[DOMAIN q]
  BY DEF InsertedIn, FoldLeft, MapThenFoldSet
<1> DEFINE g == [x \in (1..n) \X A |-> PutAt(x[2], v, q[x[1]])]
<1>3. g \in [(1..n) \X A -> A]
  BY <1>1
<1>4. PICK f \in [SUBSET (1..n) -> A] : IsFoldOn(f, base, g, n)
  BY <1>1, <1>3, FoldExists
<1>5. ASSUME NEW s \in SUBSET (1..n), s # {}
      PROVE  g[<<Max(s), f[s \ {Max(s)}]>>] = PutAt(f[s \ {Max(s)}], v, q[Max(s)])
  <2>1. Max(s) \in 1..n
    BY <1>1, <1>5, MaxOfSome
  <2>2. f[s \ {Max(s)}] \in A
    OBVIOUS
  <2> QED BY <2>1, <2>2
<1> HIDE DEF g
<1>6. Rule(f)
  BY <1>1, <1>4, <1>5 DEF IsFoldOn
<1> HIDE DEF Rule
<1>7. Rule(F)
  BY <1>6
<1> HIDE DEF F
<1> USE DEF Rule
<1> DEFINE r == [k \in 0..n |-> F[1..k]]
<1>8. r[0] = base
  BY <1>1, <1>7
<1>9. ASSUME NEW k \in 1..n PROVE r[k] = PutAt(r[k - 1], v, q[k])
  <2>1. 1..k # {} /\ Max(1..k) = k /\ (1..k) \ {k} = 1..(k - 1)
    BY LastRound
  <2>2. 1..k \in SUBSET DOMAIN q
    BY <1>1
  <2>3. r[k] = F[1..k] /\ r[k - 1] = F[1..(k - 1)]
    BY <1>1
  <2> HIDE DEF r
  <2> QED BY <1>7, <2>1, <2>2, <2>3
<1>10. r[n] = InsertedIn(base, v, q)
  BY <1>1, <1>2
<1> DEFINE Good == {k \in 0..n : r[k] \in A}
<1>11. r = [k \in 0..n |-> r[k]]
  OBVIOUS
<1> HIDE DEF r
<1>12. 0 \in Good
  BY <1>1, <1>8
<1>13. ASSUME NEW k \in 1..n, k - 1 \in Good PROVE k \in Good
  BY <1>1, <1>9, <1>13
<1> HIDE DEF Good
<1>14. 0..n \subseteq Good
  BY <1>1, <1>12, <1>13, LoopInvariant
<1>15. \A k \in 0..n : r[k] \in A
  BY <1>14 DEF Good
<1>16. r \in [0..n -> A]
  BY <1>11, <1>15
<1>17. IsInsertedRun(r, A, base, q, v)
  BY <1>8, <1>9, <1>10, <1>16 DEF IsInsertedRun
<1> QED BY <1>17

\* Taking the topics of an array out of the index.
IsRemovedFromRun(r, A, base, q, v) ==
    /\ r \in [0..Len(q) -> A]
    /\ r[0] = base /\ r[Len(q)] = RemovedFrom(base, v, q)
    /\ \A k \in 1..Len(q) : r[k] = TakeAt(r[k - 1], v, q[k])

LEMMA RemovedFromRuns ==
    ASSUME NEW A, NEW S, NEW q \in Seq(S), NEW v,
           NEW base \in A, \A a \in A, x \in S : TakeAt(a, v, x) \in A
    PROVE  \E r : IsRemovedFromRun(r, A, base, q, v)
<1> DEFINE n == Len(q)
           Rule(f) == f = [s \in SUBSET DOMAIN q |->
                              IF s = {} THEN base
                              ELSE TakeAt(f[s \ {Max(s)}], v, q[Max(s)])]
           F == CHOOSE f : Rule(f)
<1>1. n \in Nat /\ DOMAIN q = 1..n /\ \A k \in 1..n : q[k] \in S
  OBVIOUS
<1>2. RemovedFrom(base, v, q) = F[DOMAIN q]
  BY DEF RemovedFrom, FoldLeft, MapThenFoldSet
<1> DEFINE g == [x \in (1..n) \X A |-> TakeAt(x[2], v, q[x[1]])]
<1>3. g \in [(1..n) \X A -> A]
  BY <1>1
<1>4. PICK f \in [SUBSET (1..n) -> A] : IsFoldOn(f, base, g, n)
  BY <1>1, <1>3, FoldExists
<1>5. ASSUME NEW s \in SUBSET (1..n), s # {}
      PROVE  g[<<Max(s), f[s \ {Max(s)}]>>] = TakeAt(f[s \ {Max(s)}], v, q[Max(s)])
  <2>1. Max(s) \in 1..n
    BY <1>1, <1>5, MaxOfSome
  <2>2. f[s \ {Max(s)}] \in A
    OBVIOUS
  <2> QED BY <2>1, <2>2
<1> HIDE DEF g
<1>6. Rule(f)
  BY <1>1, <1>4, <1>5 DEF IsFoldOn
<1> HIDE DEF Rule
<1>7. Rule(F)
  BY <1>6
<1> HIDE DEF F
<1> USE DEF Rule
<1> DEFINE r == [k \in 0..n |-> F[1..k]]
<1>8. r[0] = base
  BY <1>1, <1>7
<1>9. ASSUME NEW k \in 1..n PROVE r[k] = TakeAt(r[k - 1], v, q[k])
  <2>1. 1..k # {} /\ Max(1..k) = k /\ (1..k) \ {k} = 1..(k - 1)
    BY LastRound
  <2>2. 1..k \in SUBSET DOMAIN q
    BY <1>1
  <2>3. r[k] = F[1..k] /\ r[k - 1] = F[1..(k - 1)]
    BY <1>1
  <2> HIDE DEF r
  <2> QED BY <1>7, <2>1, <2>2, <2>3
<1>10. r[n] = RemovedFrom(base, v, q)
  BY <1>1, <1>2
<1> DEFINE Good == {k \in 0..n : r[k] \in A}
<1>11. r = [k \in 0..n |-> r[k]]
  OBVIOUS
<1> HIDE DEF r
<1>12. 0 \in Good
  BY <1>1, <1>8
<1>13. ASSUME NEW k \in 1..n, k - 1 \in Good PROVE k \in Good
  BY <1>1, <1>9, <1>13
<1> HIDE DEF Good
<1>14. 0..n \subseteq Good
  BY <1>1, <1>12, <1>13, LoopInvariant
<1>15. \A k \in 0..n : r[k] \in A
  BY <1>14 DEF Good
<1>16. r \in [0..n -> A]
  BY <1>11, <1>15
<1>17. IsRemovedFromRun(r, A, base, q, v)
  BY <1>8, <1>9, <1>10, <1>16 DEF IsRemovedFromRun
<1> QED BY <1>17

DoubledOver(n, t, rounds) ==
    FoldLeft(LAMBDA m, round : IF m <= t THEN 2 * m ELSE m, n, rounds)

\* The rounds in which the index grows.
IsDoubledRun(r, A, base, q, t) ==
    /\ r \in [0..Len(q) -> A]
    /\ r[0] = base /\ r[Len(q)] = DoubledOver(base, t, q)
    /\ \A k \in 1..Len(q) : r[k] = (IF r[k - 1] <= t THEN 2 * r[k - 1] ELSE r[k - 1])

LEMMA DoubledRuns ==
    ASSUME NEW A, NEW S, NEW q \in Seq(S), NEW t,
           NEW base \in A, \A a \in A, x \in S : (IF a <= t THEN 2 * a ELSE a) \in A
    PROVE  \E r : IsDoubledRun(r, A, base, q, t)
<1> DEFINE n == Len(q)
           Rule(f) == f = [s \in SUBSET DOMAIN q |->
                              IF s = {} THEN base
                              ELSE (IF f[s \ {Max(s)}] <= t THEN 2 * f[s \ {Max(s)}] ELSE f[s \ {Max(s)}])]
           F == CHOOSE f : Rule(f)
<1>1. n \in Nat /\ DOMAIN q = 1..n /\ \A k \in 1..n : q[k] \in S
  OBVIOUS
<1>2. DoubledOver(base, t, q) = F[DOMAIN q]
  BY DEF DoubledOver, FoldLeft, MapThenFoldSet
<1> DEFINE g == [x \in (1..n) \X A |-> (IF x[2] <= t THEN 2 * x[2] ELSE x[2])]
<1>3. g \in [(1..n) \X A -> A]
  BY <1>1
<1>4. PICK f \in [SUBSET (1..n) -> A] : IsFoldOn(f, base, g, n)
  BY <1>1, <1>3, FoldExists
<1>5. ASSUME NEW s \in SUBSET (1..n), s # {}
      PROVE  g[<<Max(s), f[s \ {Max(s)}]>>] = (IF f[s \ {Max(s)}] <= t THEN 2 * f[s \ {Max(s)}] ELSE f[s \ {Max(s)}])
  <2>1. Max(s) \in 1..n
    BY <1>1, <1>5, MaxOfSome
  <2>2. f[s \ {Max(s)}] \in A
    OBVIOUS
  <2> QED BY <2>1, <2>2
<1> HIDE DEF g
<1>6. Rule(f)
  BY <1>1, <1>4, <1>5 DEF IsFoldOn
<1> HIDE DEF Rule
<1>7. Rule(F)
  BY <1>6
<1> HIDE DEF F
<1> USE DEF Rule
<1> DEFINE r == [k \in 0..n |-> F[1..k]]
<1>8. r[0] = base
  BY <1>1, <1>7
<1>9. ASSUME NEW k \in 1..n PROVE r[k] = (IF r[k - 1] <= t THEN 2 * r[k - 1] ELSE r[k - 1])
  <2>1. 1..k # {} /\ Max(1..k) = k /\ (1..k) \ {k} = 1..(k - 1)
    BY LastRound
  <2>2. 1..k \in SUBSET DOMAIN q
    BY <1>1
  <2>3. r[k] = F[1..k] /\ r[k - 1] = F[1..(k - 1)]
    BY <1>1
  <2> HIDE DEF r
  <2>4. F[1..k] = (IF F[1..(k - 1)] <= t THEN 2 * F[1..(k - 1)] ELSE F[1..(k - 1)])
    BY <1>7, <2>1, <2>2
  <2> QED BY <2>3, <2>4
<1>10. r[n] = DoubledOver(base, t, q)
  BY <1>1, <1>2
<1> DEFINE Good == {k \in 0..n : r[k] \in A}
<1>11. r = [k \in 0..n |-> r[k]]
  OBVIOUS
<1> HIDE DEF r
<1>12. 0 \in Good
  BY <1>1, <1>8
<1>13. ASSUME NEW k \in 1..n, k - 1 \in Good PROVE k \in Good
  BY <1>1, <1>9, <1>13
<1> HIDE DEF Good
<1>14. 0..n \subseteq Good
  BY <1>1, <1>12, <1>13, LoopInvariant
<1>15. \A k \in 0..n : r[k] \in A
  BY <1>14 DEF Good
<1>16. r \in [0..n -> A]
  BY <1>11, <1>15
<1>17. IsDoubledRun(r, A, base, q, t)
  BY <1>8, <1>9, <1>10, <1>16 DEF IsDoubledRun
<1> QED BY <1>17

\* Sorting the members again.
IsSortedRun(r, A, base, q) ==
    /\ r \in [0..Len(q) -> A]
    /\ r[0] = base /\ r[Len(q)] = Sorted(q)
    /\ \A k \in 1..Len(q) : r[k] = InsertMember(r[k - 1], q[k])

LEMMA SortedRuns ==
    ASSUME NEW A, NEW S, NEW q \in Seq(S),
           NEW base \in A, base = <<>>,
           \A a \in A, x \in S : InsertMember(a, x) \in A
    PROVE  \E r : IsSortedRun(r, A, base, q)
<1> DEFINE n == Len(q)
           Rule(f) == f = [s \in SUBSET DOMAIN q |->
                              IF s = {} THEN base
                              ELSE InsertMember(f[s \ {Max(s)}], q[Max(s)])]
           F == CHOOSE f : Rule(f)
<1>1. n \in Nat /\ DOMAIN q = 1..n /\ \A k \in 1..n : q[k] \in S
  OBVIOUS
<1>2. Sorted(q) = F[DOMAIN q]
  BY DEF Sorted, FoldLeft, MapThenFoldSet
<1> DEFINE g == [x \in (1..n) \X A |-> InsertMember(x[2], q[x[1]])]
<1>3. g \in [(1..n) \X A -> A]
  BY <1>1
<1>4. PICK f \in [SUBSET (1..n) -> A] : IsFoldOn(f, base, g, n)
  BY <1>1, <1>3, FoldExists
<1>5. ASSUME NEW s \in SUBSET (1..n), s # {}
      PROVE  g[<<Max(s), f[s \ {Max(s)}]>>] = InsertMember(f[s \ {Max(s)}], q[Max(s)])
  <2>1. Max(s) \in 1..n
    BY <1>1, <1>5, MaxOfSome
  <2>2. f[s \ {Max(s)}] \in A
    OBVIOUS
  <2> QED BY <2>1, <2>2
<1> HIDE DEF g
<1>6. Rule(f)
  BY <1>1, <1>4, <1>5 DEF IsFoldOn
<1> HIDE DEF Rule
<1>7. Rule(F)
  BY <1>6
<1> HIDE DEF F
<1> USE DEF Rule
<1> DEFINE r == [k \in 0..n |-> F[1..k]]
<1>8. r[0] = base
  BY <1>1, <1>7
<1>9. ASSUME NEW k \in 1..n PROVE r[k] = InsertMember(r[k - 1], q[k])
  <2>1. 1..k # {} /\ Max(1..k) = k /\ (1..k) \ {k} = 1..(k - 1)
    BY LastRound
  <2>2. 1..k \in SUBSET DOMAIN q
    BY <1>1
  <2>3. r[k] = F[1..k] /\ r[k - 1] = F[1..(k - 1)]
    BY <1>1
  <2> HIDE DEF r
  <2> QED BY <1>7, <2>1, <2>2, <2>3
<1>10. r[n] = Sorted(q)
  BY <1>1, <1>2
<1> DEFINE Good == {k \in 0..n : r[k] \in A}
<1>11. r = [k \in 0..n |-> r[k]]
  OBVIOUS
<1> HIDE DEF r
<1>12. 0 \in Good
  BY <1>1, <1>8
<1>13. ASSUME NEW k \in 1..n, k - 1 \in Good PROVE k \in Good
  BY <1>1, <1>9, <1>13
<1> HIDE DEF Good
<1>14. 0..n \subseteq Good
  BY <1>1, <1>12, <1>13, LoopInvariant
<1>15. \A k \in 0..n : r[k] \in A
  BY <1>14 DEF Good
<1>16. r \in [0..n -> A]
  BY <1>11, <1>15
<1>17. IsSortedRun(r, A, base, q)
  BY <1>8, <1>9, <1>10, <1>16 DEF IsSortedRun
<1> QED BY <1>17

-----------------------------------------------------------------------------
(* Tables and sets of texts *)

\* What a table gives for a text.
Number == Nat

Tables(S) == UNION {[D -> Number] : D \in SUBSET S}

LEMMA TableIs ==
    ASSUME NEW S, NEW tab
    PROVE  tab \in Tables(S) <=> /\ DOMAIN tab \subseteq S
                                 /\ tab = [x \in DOMAIN tab |-> tab[x]]
                                 /\ \A x \in DOMAIN tab : tab[x] \in Number
<1>1. ASSUME tab \in Tables(S)
      PROVE  /\ DOMAIN tab \subseteq S
             /\ tab = [x \in DOMAIN tab |-> tab[x]]
             /\ \A x \in DOMAIN tab : tab[x] \in Number
  <2>1. PICK D \in SUBSET S : tab \in [D -> Number]
    BY <1>1 DEF Tables
  <2> QED BY <2>1
<1>2. ASSUME /\ DOMAIN tab \subseteq S
             /\ tab = [x \in DOMAIN tab |-> tab[x]]
             /\ \A x \in DOMAIN tab : tab[x] \in Number
      PROVE  tab \in Tables(S)
  <2>1. DOMAIN tab \in SUBSET S /\ tab \in [DOMAIN tab -> Number]
    BY <1>2
  <2> QED BY <2>1 DEF Tables
<1> QED BY <1>1, <1>2

LEMMA EmptyIsTable ==
    ASSUME NEW S
    PROVE  EmptyTable \in Tables(S) /\ DOMAIN EmptyTable = {}
<1>1. EmptyTable \in [{} -> Number]
  BY DEF EmptyTable
<1> QED BY <1>1 DEF Tables

\* What a table is after a value has been put.
IsPut(b, a, x, v) ==
    /\ DOMAIN b = DOMAIN a \cup {x}
    /\ \A y \in DOMAIN a \cup {x} : b[y] = IF y = x THEN v ELSE a[y]

LEMMA PutIs ==
    ASSUME NEW S, NEW tab \in Tables(S), NEW x \in S, NEW v \in Number
    PROVE  /\ TablePut(tab, x, v) \in Tables(S)
           /\ IsPut(TablePut(tab, x, v), tab, x, v)
<1>1. DOMAIN tab \subseteq S /\ \A y \in DOMAIN tab : tab[y] \in Number
  BY TableIs
<1>2. DOMAIN tab \cup {x} \in SUBSET S
  BY <1>1
<1>3. TablePut(tab, x, v) \in [DOMAIN tab \cup {x} -> Number]
  BY <1>1 DEF TablePut
<1>4. TablePut(tab, x, v) \in Tables(S)
  BY <1>2, <1>3 DEF Tables
<1>5. IsPut(TablePut(tab, x, v), tab, x, v)
  BY DEF TablePut, IsPut
<1> QED BY <1>4, <1>5

\* The table with the keys of one value more.
HasPut(new, tab, keys, w) ==
    /\ DOMAIN new = DOMAIN tab \cup keys
    /\ \A y \in DOMAIN tab \cup keys : new[y] = IF y \in keys THEN w ELSE tab[y]

\* The table without some keys.
HasTaken(new, tab, keys) ==
    /\ DOMAIN new = DOMAIN tab \ keys
    /\ \A y \in DOMAIN tab \ keys : new[y] = tab[y]

LEMMA RemoveIs ==
    ASSUME NEW S, NEW tab \in Tables(S), NEW x
    PROVE  /\ TableRemove(tab, x) \in Tables(S)
           /\ HasTaken(TableRemove(tab, x), tab, {x})
<1>1. DOMAIN tab \subseteq S /\ \A y \in DOMAIN tab : tab[y] \in Number
  BY TableIs
<1>2. DOMAIN tab \ {x} \in SUBSET S
  BY <1>1
<1>3. TableRemove(tab, x) \in [DOMAIN tab \ {x} -> Number]
  BY <1>1 DEF TableRemove, Restrict
<1>4. TableRemove(tab, x) \in Tables(S)
  BY <1>2, <1>3 DEF Tables
<1>5. HasTaken(TableRemove(tab, x), tab, {x})
  BY DEF TableRemove, Restrict, HasTaken
<1> QED BY <1>4, <1>5

\* First(q, k) grows by the element of round k and ends with the whole list.
LEMMA FirstGrows ==
    ASSUME NEW S, NEW q \in Seq(S)
    PROVE  /\ First(q, 0) = {}
           /\ First(q, Len(q)) = ToSet(q)
           /\ \A k \in 1..Len(q) : First(q, k) = First(q, k - 1) \cup {q[k]}
<1>1. Len(q) \in Nat /\ DOMAIN q = 1..Len(q)
  OBVIOUS
<1>2. First(q, 0) = {}
  BY DEF First
<1>3. First(q, Len(q)) = ToSet(q)
  BY <1>1 DEF First, ToSet
<1>4. ASSUME NEW k \in 1..Len(q)
      PROVE  First(q, k) = First(q, k - 1) \cup {q[k]}
  <2>1. \A i \in 1..k : i = k \/ i \in 1..(k - 1)
    OBVIOUS
  <2>2. 1..(k - 1) \subseteq 1..k /\ k \in 1..k
    OBVIOUS
  <2> QED BY <2>1, <2>2 DEF First
<1> QED BY <1>2, <1>3, <1>4

\* All texts of a set lead to its vid.
LEMMA PutTextsPuts ==
    ASSUME NEW S, NEW tab \in Tables(S), NEW q \in Seq(S), NEW vid \in Number
    PROVE  /\ PutTexts(tab, q, vid) \in Tables(S)
           /\ HasPut(PutTexts(tab, q, vid), tab, ToSet(q), vid)
<1> DEFINE n == Len(q)
<1>1. n \in Nat /\ \A k \in 1..n : q[k] \in S
  OBVIOUS
<1>2. \A t \in Tables(S), x \in S : TablePut(t, x, vid) \in Tables(S)
  BY PutIs
<1>9. \A t \in Tables(S), x \in S : IsPut(TablePut(t, x, vid), t, x, vid)
  BY PutIs
<1>0. PICK r : IsPutTextsRun(r, Tables(S), tab, q, vid)
  BY <1>2, PutTextsRuns
<1>3. /\ r \in [0..n -> Tables(S)]
      /\ r[0] = tab /\ r[n] = PutTexts(tab, q, vid)
      /\ \A k \in 1..n : r[k] = TablePut(r[k - 1], q[k], vid)
  BY <1>0 DEF IsPutTextsRun
<1> DEFINE Good == {k \in 0..n :
                      /\ DOMAIN r[k] = DOMAIN tab \cup First(q, k)
                      /\ \A y \in DOMAIN r[k] :
                            r[k][y] = IF y \in First(q, k) THEN vid ELSE tab[y]}
<1>4. 0 \in Good
  BY <1>1, <1>3, FirstGrows
<1>5. ASSUME NEW k \in 1..n, k - 1 \in Good PROVE k \in Good
  <2> DEFINE a == r[k - 1]
             x == q[k]
  <2>1. a \in Tables(S) /\ r[k] = TablePut(a, x, vid) /\ x \in S
    BY <1>1, <1>3
  <2>2. First(q, k) = First(q, k - 1) \cup {q[k]}
    BY FirstGrows
  <2>3. /\ DOMAIN r[k] = DOMAIN a \cup {x}
        /\ \A y \in DOMAIN a \cup {x} : r[k][y] = IF y = x THEN vid ELSE a[y]
    <3> HIDE DEF a, x
    <3> DEFINE b == TablePut(a, x, vid)
    <3>1. a \in Tables(S) /\ x \in S
      BY <2>1
    <3>2. IsPut(b, a, x, vid)
      BY <1>9, <3>1
    <3>3. r[k] = b
      BY <2>1
    <3> HIDE DEF b
    <3> QED BY <3>2, <3>3 DEF IsPut
  <2> QED BY <1>1, <1>5, <2>2, <2>3
<1> HIDE DEF Good
<1>6. 0..n \subseteq Good
  BY <1>1, <1>4, <1>5, LoopInvariant
<1>7. n \in Good
  BY <1>1, <1>6
<1>8. First(q, n) = ToSet(q)
  BY FirstGrows
<1>10. HasPut(r[n], tab, ToSet(q), vid)
  BY <1>1, <1>7, <1>8 DEF Good, HasPut
<1> QED BY <1>1, <1>3, <1>10

\* No text of a set that is deleted leads anywhere.
LEMMA RemoveTextsRemoves ==
    ASSUME NEW S, NEW tab \in Tables(S), NEW q \in Seq(S)
    PROVE  /\ RemoveTexts(tab, q) \in Tables(S)
           /\ HasTaken(RemoveTexts(tab, q), tab, ToSet(q))
<1> DEFINE n == Len(q)
<1>1. n \in Nat /\ \A k \in 1..n : q[k] \in S
  OBVIOUS
<1>2. \A t \in Tables(S), x \in S : TableRemove(t, x) \in Tables(S)
  BY RemoveIs
<1>0. PICK r : IsRemoveTextsRun(r, Tables(S), tab, q)
  BY <1>2, RemoveTextsRuns
<1>3. /\ r \in [0..n -> Tables(S)]
      /\ r[0] = tab /\ r[n] = RemoveTexts(tab, q)
      /\ \A k \in 1..n : r[k] = TableRemove(r[k - 1], q[k])
  BY <1>0 DEF IsRemoveTextsRun
<1> DEFINE Good == {k \in 0..n :
                      /\ DOMAIN r[k] = DOMAIN tab \ First(q, k)
                      /\ \A y \in DOMAIN r[k] : r[k][y] = tab[y]}
<1>4. 0 \in Good
  BY <1>1, <1>3, FirstGrows
<1>5. ASSUME NEW k \in 1..n, k - 1 \in Good PROVE k \in Good
  <2> DEFINE a == r[k - 1]
             x == q[k]
  <2>1. a \in Tables(S) /\ r[k] = TableRemove(a, x)
    BY <1>1, <1>3
  <2>2. First(q, k) = First(q, k - 1) \cup {q[k]}
    BY FirstGrows
  <2>3. /\ DOMAIN r[k] = DOMAIN a \ {x}
        /\ \A y \in DOMAIN a \ {x} : r[k][y] = a[y]
    <3> HIDE DEF a, x
    <3> DEFINE b == TableRemove(a, x)
    <3>1. a \in Tables(S)
      BY <2>1
    <3>2. HasTaken(b, a, {x})
      BY <3>1, RemoveIs
    <3>3. r[k] = b
      BY <2>1
    <3> HIDE DEF b
    <3> QED BY <3>2, <3>3 DEF HasTaken
  <2> QED BY <1>1, <1>5, <2>2, <2>3
<1> HIDE DEF Good
<1>6. 0..n \subseteq Good
  BY <1>1, <1>4, <1>5, LoopInvariant
<1>7. n \in Good
  BY <1>1, <1>6
<1>8. First(q, n) = ToSet(q)
  BY FirstGrows
<1>10. HasTaken(r[n], tab, ToSet(q))
  BY <1>1, <1>7, <1>8 DEF Good, HasTaken
<1> QED BY <1>1, <1>3, <1>10

\* The texts of some sets.
TextsOf(gone) == UNION {ToSet(cell[w]) : w \in gone}

\* Nor does any text of several sets.
LEMMA RemovedRemoves ==
    ASSUME NEW S, NEW V, NEW tab \in Tables(S), NEW vids \in Seq(V),
           \A w \in V : cell[w] \in Seq(S)
    PROVE  /\ Removed(tab, vids) \in Tables(S)
           /\ HasTaken(Removed(tab, vids), tab, TextsOf(ToSet(vids)))
<1> DEFINE n == Len(vids)
           Texts(k) == UNION {ToSet(cell[w]) : w \in First(vids, k)}
<1>1. n \in Nat /\ \A k \in 1..n : vids[k] \in V
  OBVIOUS
<1>2. \A t \in Tables(S), w \in V : RemoveTexts(t, cell[w]) \in Tables(S)
  BY RemoveTextsRemoves
<1>0. PICK r : IsRemovedRun(r, Tables(S), tab, vids)
  BY <1>2, RemovedRuns
<1>3. /\ r \in [0..n -> Tables(S)]
      /\ r[0] = tab /\ r[n] = Removed(tab, vids)
      /\ \A k \in 1..n : r[k] = RemoveTexts(r[k - 1], cell[vids[k]])
  BY <1>0 DEF IsRemovedRun
<1> DEFINE Good == {k \in 0..n :
                      /\ DOMAIN r[k] = DOMAIN tab \ Texts(k)
                      /\ \A y \in DOMAIN r[k] : r[k][y] = tab[y]}
<1>4. 0 \in Good
  <2>1. Texts(0) = {}
    BY FirstGrows
  <2> HIDE DEF Texts
  <2> QED BY <1>1, <1>3, <2>1
<1>5. ASSUME NEW k \in 1..n, k - 1 \in Good PROVE k \in Good
  <2> DEFINE a == r[k - 1]
             x == cell[vids[k]]
  <2>1. a \in Tables(S) /\ r[k] = RemoveTexts(a, x) /\ x \in Seq(S)
    BY <1>1, <1>3
  <2>2. Texts(k) = Texts(k - 1) \cup ToSet(cell[vids[k]])
    <3>1. First(vids, k) = First(vids, k - 1) \cup {vids[k]}
      BY FirstGrows
    <3> QED BY <3>1
  <2>3. /\ DOMAIN r[k] = DOMAIN a \ ToSet(x)
        /\ \A y \in DOMAIN a \ ToSet(x) : r[k][y] = a[y]
    <3> HIDE DEF a, x
    <3> DEFINE b == RemoveTexts(a, x)
    <3>1. a \in Tables(S) /\ x \in Seq(S)
      BY <2>1
    <3>2. HasTaken(b, a, ToSet(x))
      BY <3>1, RemoveTextsRemoves
    <3>3. r[k] = b
      BY <2>1
    <3> HIDE DEF b
    <3> QED BY <3>2, <3>3 DEF HasTaken
  <2> HIDE DEF Texts
  <2> QED BY <1>1, <1>5, <2>2, <2>3
<1> HIDE DEF Good
<1>6. 0..n \subseteq Good
  BY <1>1, <1>4, <1>5, LoopInvariant
<1>7. n \in Good
  BY <1>1, <1>6
<1>8. First(vids, n) = ToSet(vids)
  BY FirstGrows
<1>9. Texts(n) = TextsOf(ToSet(vids))
  BY <1>8 DEF TextsOf
<1>10. DOMAIN r[n] = DOMAIN tab \ Texts(n) /\ \A y \in DOMAIN r[n] : r[n][y] = tab[y]
  BY <1>7 DEF Good
<1>11. r[n] = Removed(tab, vids) /\ r[n] \in Tables(S)
  BY <1>1, <1>3
<1> HIDE DEF Texts, n
<1> QED BY <1>9, <1>10, <1>11 DEF HasTaken

-----------------------------------------------------------------------------
(* Lists in which nothing is twice *)

\* The list q has the elements of T, each once.
Enumerates(q, S, T) == q \in Lists(S) /\ ToSet(q) = T

LEMMA CopyEnumerates ==
    ASSUME NEW S, NEW q \in Lists(S)
    PROVE  Enumerates(ListCopy(q), S, ToSet(q))
BY CopyKeeps DEF Lists, Enumerates

LEMMA PushEnumerates ==
    ASSUME NEW S, NEW q \in Lists(S), NEW x \in S, x \notin ToSet(q)
    PROVE  Enumerates(ListPush(q, x), S, ToSet(q) \cup {x})
BY PushIsLarger DEF Lists, Enumerates

\* Pushing an element unless it is there.
LEMMA PushNew ==
    ASSUME NEW S, NEW q \in Lists(S), NEW x \in S
    PROVE  Enumerates(IF Contains(q, x) THEN q ELSE ListPush(q, x),
                      S, ToSet(q) \cup {x})
<1>1. Contains(q, x) <=> x \in ToSet(q)
  BY ContainsIsIn DEF Lists
<1>2. CASE x \in ToSet(q)
  BY <1>1, <1>2 DEF Enumerates
<1>3. CASE x \notin ToSet(q)
  BY <1>1, <1>3, PushEnumerates
<1> QED BY <1>2, <1>3

LEMMA EmptyEnumerates ==
    ASSUME NEW S
    PROVE  <<>> \in Lists(S) /\ ToSet(<<>>) = {}
BY DEF Lists, IsInjective, ToSet

\* A loop over a list that adds to a set what each element brings.
LEMMA UnionLoop ==
    ASSUME NEW S, NEW q \in Seq(S), NEW part, NEW f,
           \A k \in 1..Len(q) : f[k] = f[k - 1] \cup part[q[k]]
    PROVE  f[Len(q)] = f[0] \cup UNION {part[w] : w \in ToSet(q)}
<1> DEFINE n == Len(q)
<1>1. n \in Nat
  OBVIOUS
<1> DEFINE Good == {k \in 0..n : f[k] = f[0] \cup UNION {part[w] : w \in First(q, k)}}
<1>2. 0 \in Good
  <2>1. First(q, 0) = {}
    BY FirstGrows
  <2> QED BY <1>1, <2>1
<1>3. ASSUME NEW k \in 1..n, k - 1 \in Good PROVE k \in Good
  <2>1. First(q, k) = First(q, k - 1) \cup {q[k]}
    BY FirstGrows
  <2>2. UNION {part[w] : w \in First(q, k)}
          = (UNION {part[w] : w \in First(q, k - 1)}) \cup part[q[k]]
    BY <2>1
  <2>3. f[k - 1] = f[0] \cup UNION {part[w] : w \in First(q, k - 1)}
    BY <1>3
  <2>4. f[k] = f[k - 1] \cup part[q[k]]
    OBVIOUS
  <2> QED BY <1>1, <2>2, <2>3, <2>4
<1> HIDE DEF Good
<1>4. 0..n \subseteq Good
  BY <1>1, <1>2, <1>3, LoopInvariant
<1>5. n \in Good
  BY <1>1, <1>4
<1>6. First(q, n) = ToSet(q)
  BY FirstGrows
<1> QED BY <1>5, <1>6 DEF Good

\* The same for a loop that builds a list: the run r of lists.
Gathered(r, S, Q, q, part) ==
    /\ q \in Seq(Q)
    /\ r \in [0..Len(q) -> Lists(S)]
    /\ \A k \in 1..Len(q) : ToSet(r[k]) = ToSet(r[k - 1]) \cup part[q[k]]

HasGathered(r, S, q, part) ==
    Enumerates(r[Len(q)], S, ToSet(r[0]) \cup UNION {part[w] : w \in ToSet(q)})

LEMMA GatherLoop ==
    ASSUME NEW S, NEW Q, NEW q, NEW part, NEW r, Gathered(r, S, Q, q, part)
    PROVE  HasGathered(r, S, q, part)
<1>0. q \in Seq(Q)
  BY DEF Gathered
<1> DEFINE f == [k \in 0..Len(q) |-> ToSet(r[k])]
<1>1. Len(q) \in Nat
  BY <1>0
<1>2. \A k \in 1..Len(q) : f[k] = f[k - 1] \cup part[q[k]]
  <2> TAKE k \in 1..Len(q)
  <2>1. k \in 0..Len(q) /\ k - 1 \in 0..Len(q)
    BY <1>1
  <2> QED BY <2>1 DEF Gathered
<1>3. f[Len(q)] = ToSet(r[Len(q)]) /\ f[0] = ToSet(r[0])
  BY <1>1
<1> HIDE DEF f
<1>4. f[Len(q)] = f[0] \cup UNION {part[w] : w \in ToSet(q)}
  BY <1>0, <1>2, UnionLoop
<1>5. r[Len(q)] \in Lists(S)
  BY <1>1 DEF Gathered
<1> QED BY <1>3, <1>4, <1>5 DEF Enumerates, HasGathered

\* The union of two sets of texts has the texts of both, each once.
LEMMA UnionJoins ==
    ASSUME NEW S, NEW set \in Lists(S), NEW other \in Seq(S)
    PROVE  Enumerates(TextSetUnion(set, other), S, ToSet(set) \cup ToSet(other))
<1> DEFINE Step(a, x) == IF Contains(a, x) THEN a ELSE ListPush(a, x)
           part == [x \in S |-> {x}]
<1>1. Len(other) \in Nat /\ \A k \in 1..Len(other) : other[k] \in S
  OBVIOUS
<1>2. \A a \in Lists(S), x \in S : Enumerates(Step(a, x), S, ToSet(a) \cup {x})
  BY PushNew
<1>3. \A a \in Lists(S), x \in S : Step(a, x) \in Lists(S)
  <2> HIDE DEF Step
  <2> QED BY <1>2 DEF Enumerates
<1>4. ListCopy(set) \in Lists(S) /\ ToSet(ListCopy(set)) = ToSet(set)
  BY CopyEnumerates DEF Enumerates
<1>5. PICK r : IsUnionRun(r, Lists(S), ListCopy(set), other, set)
  BY <1>3, <1>4, UnionRuns
<1>6. /\ r \in [0..Len(other) -> Lists(S)]
      /\ r[0] = ListCopy(set) /\ r[Len(other)] = TextSetUnion(set, other)
      /\ \A k \in 1..Len(other) : r[k] = Step(r[k - 1], other[k])
  BY <1>5 DEF IsUnionRun
<1>7. ASSUME NEW k \in 1..Len(other)
      PROVE  ToSet(r[k]) = ToSet(r[k - 1]) \cup part[other[k]]
  <2>1. k - 1 \in 0..Len(other)
    BY <1>1
  <2>2. r[k - 1] \in Lists(S) /\ other[k] \in S
    BY <1>1, <1>6, <2>1
  <2>3. part[other[k]] = {other[k]}
    BY <2>2
  <2>4. r[k] = Step(r[k - 1], other[k])
    BY <1>6
  <2> HIDE DEF Step, part
  <2>5. Enumerates(Step(r[k - 1], other[k]), S, ToSet(r[k - 1]) \cup {other[k]})
    BY <1>2, <2>2
  <2> QED BY <2>3, <2>4, <2>5 DEF Enumerates
<1>8. UNION {part[w] : w \in ToSet(other)} = ToSet(other)
  <2>1. ToSet(other) \subseteq S
    BY <1>1 DEF ToSet
  <2>2. \A w \in ToSet(other) : part[w] = {w}
    BY <2>1
  <2> HIDE DEF part
  <2> QED BY <2>2
<1> HIDE DEF part
<1>9. Gathered(r, S, S, other, part)
  BY <1>6, <1>7 DEF Gathered
<1>10. HasGathered(r, S, other, part)
  BY <1>9, GatherLoop
<1> QED BY <1>4, <1>6, <1>8, <1>10 DEF HasGathered

\* The vids that the texts of T lead to.
Led(T) == {table[x] : x \in T \cap DOMAIN table}

LEMMA NoticedIs ==
    ASSUME NEW V, 0 \notin V, NEW a \in Lists(V), NEW x,
           \A y \in DOMAIN table : table[y] \in V
    PROVE  Enumerates(Noticed(a, TableGet(table, x)), V, ToSet(a) \cup Led({x}))
<1>1. CASE x \notin DOMAIN table
  <2>1. TableGet(table, x) = 0 /\ Led({x}) = {}
    BY <1>1 DEF TableGet, Led
  <2>2. Noticed(a, 0) = a
    BY DEF Noticed
  <2> QED BY <2>1, <2>2 DEF Enumerates
<1>2. CASE x \in DOMAIN table
  <2> DEFINE w == table[x]
             b == IF Contains(a, w) THEN a ELSE ListPush(a, w)
  <2>1. TableGet(table, x) = w /\ Led({x}) = {w} /\ w \in V
    BY <1>2 DEF TableGet, Led
  <2> HIDE DEF w
  <2>2. Enumerates(b, V, ToSet(a) \cup {w})
    BY <2>1, PushNew
  <2>3. Noticed(a, w) = b
    BY <2>1 DEF Noticed
  <2> HIDE DEF b
  <2> QED BY <2>1, <2>2, <2>3
<1> QED BY <1>1, <1>2

\* The sets that the texts of a set are in.
LEMMA MetFinds ==
    ASSUME NEW S, NEW V, 0 \notin V, NEW v \in Seq(S),
           \A x \in DOMAIN table : table[x] \in V
    PROVE  Enumerates(Met(v), V, Led(ToSet(v)))
<1> DEFINE Step(a, x) == Noticed(a, TableGet(table, x))
           part == [x \in S |-> Led({x})]
<1>1. Len(v) \in Nat /\ \A k \in 1..Len(v) : v[k] \in S
  OBVIOUS
<1>2. \A a \in Lists(V), x \in S : Enumerates(Step(a, x), V, ToSet(a) \cup Led({x}))
  BY NoticedIs
<1>3. \A a \in Lists(V), x \in S : Step(a, x) \in Lists(V)
  <2> HIDE DEF Step
  <2> QED BY <1>2 DEF Enumerates
<1>4. <<>> \in Lists(V) /\ ToSet(<<>>) = {}
  BY EmptyEnumerates
<1>5. PICK r : IsMetRun(r, Lists(V), <<>>, v)
  BY <1>3, <1>4, MetRuns
<1>6. /\ r \in [0..Len(v) -> Lists(V)]
      /\ r[0] = <<>> /\ r[Len(v)] = Met(v)
      /\ \A k \in 1..Len(v) : r[k] = Step(r[k - 1], v[k])
  BY <1>5 DEF IsMetRun
<1>7. ASSUME NEW k \in 1..Len(v)
      PROVE  ToSet(r[k]) = ToSet(r[k - 1]) \cup part[v[k]]
  <2>1. k - 1 \in 0..Len(v)
    BY <1>1
  <2>2. r[k - 1] \in Lists(V) /\ v[k] \in S
    BY <1>1, <1>6, <2>1
  <2>3. part[v[k]] = Led({v[k]})
    BY <2>2
  <2>4. r[k] = Step(r[k - 1], v[k])
    BY <1>6
  <2> HIDE DEF Step, part
  <2>5. Enumerates(Step(r[k - 1], v[k]), V, ToSet(r[k - 1]) \cup Led({v[k]}))
    BY <1>2, <2>2
  <2> QED BY <2>3, <2>4, <2>5 DEF Enumerates
<1>8. UNION {part[w] : w \in ToSet(v)} = Led(ToSet(v))
  <2>1. ToSet(v) \subseteq S
    BY <1>1 DEF ToSet
  <2>2. \A w \in ToSet(v) : part[w] = Led({w})
    BY <2>1
  <2> HIDE DEF part
  <2> QED BY <2>2 DEF Led
<1> HIDE DEF part
<1>9. Gathered(r, V, S, v, part)
  BY <1>6, <1>7 DEF Gathered
<1>10. HasGathered(r, V, v, part)
  BY <1>9, GatherLoop
<1>11. ToSet(r[0]) = {}
  BY <1>4, <1>6
<1> QED BY <1>6, <1>8, <1>10, <1>11 DEF HasGathered

\* The union of a set with the sets of some vids.
LEMMA JoinedJoins ==
    ASSUME NEW S, NEW V, NEW vids \in Seq(V), NEW v \in Lists(S),
           \A w \in V : GetValue(w) \in Seq(S)
    PROVE  Enumerates(Joined(v, vids), S,
                      ToSet(v) \cup UNION {ToSet(GetValue(w)) : w \in ToSet(vids)})
<1> DEFINE Step(a, w) == TextSetUnion(a, GetValue(w))
           part == [w \in V |-> ToSet(GetValue(w))]
<1>1. Len(vids) \in Nat /\ \A k \in 1..Len(vids) : vids[k] \in V
  OBVIOUS
<1>2. \A a \in Lists(S), w \in V :
         Enumerates(Step(a, w), S, ToSet(a) \cup ToSet(GetValue(w)))
  BY UnionJoins
<1>3. \A a \in Lists(S), w \in V : Step(a, w) \in Lists(S)
  <2> HIDE DEF Step
  <2> QED BY <1>2 DEF Enumerates
<1>5. PICK r : IsJoinedRun(r, Lists(S), v, vids)
  BY <1>3, JoinedRuns
<1>6. /\ r \in [0..Len(vids) -> Lists(S)]
      /\ r[0] = v /\ r[Len(vids)] = Joined(v, vids)
      /\ \A k \in 1..Len(vids) : r[k] = Step(r[k - 1], vids[k])
  BY <1>5 DEF IsJoinedRun
<1>7. ASSUME NEW k \in 1..Len(vids)
      PROVE  ToSet(r[k]) = ToSet(r[k - 1]) \cup part[vids[k]]
  <2>1. k - 1 \in 0..Len(vids)
    BY <1>1
  <2>2. vids[k] \in V
    BY <1>1
  <2>6. r[k - 1] \in Lists(S)
    <3>1. r \in [0..Len(vids) -> Lists(S)]
      BY <1>6
    <3> QED BY <2>1, <3>1
  <2>3. part[vids[k]] = ToSet(GetValue(vids[k]))
    BY <2>2
  <2>4. r[k] = Step(r[k - 1], vids[k])
    BY <1>6
  <2> HIDE DEF Step, part
  <2>5. Enumerates(Step(r[k - 1], vids[k]), S,
                   ToSet(r[k - 1]) \cup ToSet(GetValue(vids[k])))
    BY <1>2, <2>2, <2>6
  <2> QED BY <2>3, <2>4, <2>5 DEF Enumerates
<1>8. UNION {part[w] : w \in ToSet(vids)}
        = UNION {ToSet(GetValue(w)) : w \in ToSet(vids)}
  <2>1. ToSet(vids) \subseteq V
    BY <1>1 DEF ToSet
  <2>2. \A w \in ToSet(vids) : part[w] = ToSet(GetValue(w))
    BY <2>1
  <2> HIDE DEF part
  <2> QED BY <2>2
<1> HIDE DEF part
<1>9. Gathered(r, S, V, vids, part)
  BY <1>6, <1>7 DEF Gathered
<1>10. HasGathered(r, S, vids, part)
  BY <1>9, GatherLoop
<1> QED BY <1>6, <1>8, <1>10 DEF HasGathered

-----------------------------------------------------------------------------
(* The topic index *)

\* The doubling ends beyond t, whatever n it starts with.
LEMMA DoubledGrows ==
    ASSUME NEW n \in Nat \ {0}, NEW t \in Nat
    PROVE  Doubled(n, t) \in Nat \ {0} /\ Doubled(n, t) > t /\ Doubled(n, t) >= n
<1> DEFINE q == [round \in 1..t |-> round]
           Step(a) == IF a <= t THEN 2 * a ELSE a
<1>1. q \in Seq(Nat) /\ Len(q) = t
  OBVIOUS
<1>2. \A a \in Nat \ {0} : /\ Step(a) \in Nat \ {0} /\ Step(a) >= a
                           /\ Step(a) > t \/ Step(a) >= a + 1
  OBVIOUS
<1>3. Doubled(n, t) = DoubledOver(n, t, q)
  BY DEF Doubled, DoubledOver
<1> HIDE DEF q
<1>4. PICK r : IsDoubledRun(r, Nat \ {0}, n, q, t)
  <2>1. \A a \in Nat \ {0}, x \in Nat : (IF a <= t THEN 2 * a ELSE a) \in Nat \ {0}
    BY <1>2
  <2> QED BY <1>1, <2>1, DoubledRuns
<1>5. /\ r \in [0..t -> Nat \ {0}]
      /\ r[0] = n /\ r[t] = Doubled(n, t)
      /\ \A k \in 1..t : r[k] = Step(r[k - 1])
  BY <1>1, <1>3, <1>4 DEF IsDoubledRun
<1> HIDE DEF Step
<1> DEFINE Good == {k \in 0..t : r[k] >= n /\ (r[k] > t \/ r[k] >= n + k)}
<1>6. 0 \in Good
  BY <1>5
<1>7. ASSUME NEW k \in 1..t, k - 1 \in Good PROVE k \in Good
  <2> DEFINE a == r[k - 1]
  <2>1. a \in Nat \ {0} /\ k \in 0..t
    BY <1>5
  <2>2. a >= n /\ (a > t \/ a >= n + (k - 1))
    BY <1>7
  <2>3. r[k] = Step(a)
    BY <1>5
  <2> HIDE DEF a
  <2>4. Step(a) \in Nat \ {0} /\ Step(a) >= a /\ (Step(a) > t \/ Step(a) >= a + 1)
    BY <1>2, <2>1
  <2>5. Step(a) >= n /\ (Step(a) > t \/ Step(a) >= n + k)
    BY <1>2, <2>1, <2>2, <2>4
  <2> QED BY <2>1, <2>3, <2>5
<1> HIDE DEF Good
<1>8. 0..t \subseteq Good
  BY <1>6, <1>7, LoopInvariant
<1>9. t \in Good /\ t \in 0..t
  BY <1>8
<1>10. r[t] \in Nat \ {0} /\ r[t] >= n /\ (r[t] > t \/ r[t] >= n + t)
  BY <1>5, <1>9 DEF Good
<1> QED BY <1>5, <1>10

\* An index: buckets for the topics up to some number.
Indexes(B) == UNION {[1..d -> B] : d \in Nat}

LEMMA IndexIs ==
    ASSUME NEW B, NEW idx \in Indexes(B)
    PROVE  \E d \in Nat : idx \in [1..d -> B]
BY DEF Indexes

\* What growing keeps and adds.
IsGrown(new, idx, t) ==
    /\ DOMAIN idx \subseteq DOMAIN new
    /\ t \in DOMAIN new
    /\ \A u \in DOMAIN idx : new[u] = idx[u]
    /\ \A u \in DOMAIN new \ DOMAIN idx : new[u] = EmptyBucket

LEMMA GrownGrows ==
    ASSUME NEW B, EmptyBucket \in B, NEW idx \in Indexes(B), NEW t \in Topic
    PROVE  Grown(idx, t) \in Indexes(B) /\ IsGrown(Grown(idx, t), idx, t)
<1>1. PICK d \in Nat : idx \in [1..d -> B]
  BY IndexIs
<1>2. Cardinality(DOMAIN idx) = d
  <2>1. Cardinality(1..d) = d
    BY FS_Interval
  <2> QED BY <1>1, <2>1
<1> DEFINE m == Doubled(d + 1, t)
<1>3. m \in Nat \ {0} /\ m > t /\ m >= d + 1 /\ t \in Nat /\ t >= 1
  <2>1. t \in Nat /\ t >= 1 /\ d + 1 \in Nat \ {0}
    BY DEF Topic
  <2> QED BY <2>1, DoubledGrows
<1>4. Grown(idx, t) = [u \in 1..(m - 1) |-> IF u \in DOMAIN idx THEN idx[u] ELSE EmptyBucket]
  BY <1>2 DEF Grown
<1> HIDE DEF m
<1>5. m - 1 \in Nat /\ t \in 1..(m - 1) /\ 1..d \subseteq 1..(m - 1)
  BY <1>3
<1>6. Grown(idx, t) \in [1..(m - 1) -> B]
  BY <1>1, <1>4
<1>7. Grown(idx, t) \in Indexes(B)
  BY <1>5, <1>6 DEF Indexes
<1>8. IsGrown(Grown(idx, t), idx, t)
  BY <1>1, <1>4, <1>5 DEF IsGrown
<1> QED BY <1>7, <1>8

Buckets == [len : Int, list : Lists(Number), isTable : BOOLEAN, tab : Tables(Number)]

\* The bucket b has the vids vs and counts the occurrences occ.
Fits(b, vs, occ) ==
    /\ b \in Buckets
    /\ BucketVids(b) = vs
    /\ IsInjective(b.list)
    /\ b.isTable => b.list = <<>>
    /\ IsFiniteSet(occ)
    /\ b.len = Cardinality(occ)

LEMMA EmptyFits == EmptyBucket \in Buckets /\ Fits(EmptyBucket, {}, {})
<1>1. EmptyBucket \in Buckets
  BY EmptyIsTable, EmptyEnumerates DEF EmptyBucket, Buckets
<1>2. BucketVids(EmptyBucket) = {}
  BY DEF EmptyBucket, BucketVids, ToSet
<1>3. EmptyBucket.list = <<>> /\ EmptyBucket.len = 0
  BY DEF EmptyBucket
<1>4. IsInjective(EmptyBucket.list)
  BY <1>3 DEF IsInjective
<1> QED BY <1>1, <1>2, <1>3, <1>4, FS_EmptySet DEF Fits

\* One occurrence more.
LEMMA WithFits ==
    ASSUME NEW b, NEW vs, NEW occ, Fits(b, vs, occ),
           NEW v \in Number, NEW o, o \notin occ
    PROVE  Fits(BucketWith(b, v), vs \cup {v}, occ \cup {o})
<1> DEFINE c == BucketWith(b, v)
           list == b.list
           tab == b.tab
<1>1. /\ b \in Buckets /\ b.len \in Int /\ list \in Lists(Number)
      /\ b.isTable \in BOOLEAN /\ tab \in Tables(Number)
  BY DEF Fits, Buckets, Lists
<1>2. IsFiniteSet(occ \cup {o}) /\ Cardinality(occ \cup {o}) = b.len + 1
  BY FS_AddElement DEF Fits
<1>3. b = [len |-> b.len, list |-> list, isTable |-> b.isTable, tab |-> tab]
  BY <1>1 DEF Buckets
<1>4. CASE b.isTable
  <2> DEFINE t == TablePut(tab, v, 1)
  <2>1. t \in Tables(Number) /\ IsPut(t, tab, v, 1)
    BY <1>1, PutIs DEF Number
  <2>2. DOMAIN t = DOMAIN tab \cup {v}
    BY <2>1 DEF IsPut
  <2> HIDE DEF t
  <2>3. c = [len |-> b.len + 1, list |-> list, isTable |-> b.isTable, tab |-> t]
    BY <1>3, <1>4 DEF BucketWith, t
  <2>4. c \in Buckets /\ c.isTable /\ c.tab = t /\ c.list = <<>> /\ c.len = b.len + 1
    BY <1>1, <1>4, <2>1, <2>3, EmptyEnumerates DEF Buckets, Fits
  <2>5. BucketVids(c) = vs \cup {v}
    BY <1>4, <2>2, <2>4 DEF BucketVids, Fits
  <2>6. IsInjective(c.list)
    BY <2>4 DEF IsInjective
  <2> HIDE DEF c
  <2>7. Fits(c, vs \cup {v}, occ \cup {o})
    BY <1>2, <2>4, <2>5, <2>6 DEF Fits
  <2> QED BY <2>7 DEF c
<1>5. CASE ~b.isTable /\ b.len + 1 <= Threshold
  <2> DEFINE l == IF Contains(list, v) THEN list ELSE ListPush(list, v)
  <2>1. list \in Lists(Number)
    BY <1>1
  <2>2. Enumerates(l, Number, ToSet(list) \cup {v})
    BY <2>1, PushNew
  <2> HIDE DEF l
  <2>3. c = [len |-> b.len + 1, list |-> l, isTable |-> b.isTable, tab |-> tab]
    BY <1>3, <1>5 DEF BucketWith, l
  <2>4. l \in Seq(Number) /\ IsInjective(l) /\ ToSet(l) = ToSet(list) \cup {v}
    BY <2>2 DEF Enumerates, Lists
  <2>5. c \in Buckets /\ ~c.isTable /\ c.list = l /\ c.len = b.len + 1
    BY <1>1, <1>5, <2>3, <2>4 DEF Buckets, Lists
  <2>6. BucketVids(c) = vs \cup {v}
    BY <1>5, <2>4, <2>5 DEF BucketVids, Fits
  <2> HIDE DEF c
  <2>7. Fits(c, vs \cup {v}, occ \cup {o})
    BY <1>2, <2>4, <2>5, <2>6 DEF Fits
  <2> QED BY <2>7 DEF c
<1>6. CASE ~b.isTable /\ ~(b.len + 1 <= Threshold)
  <2> DEFINE t == [w \in ToSet(list) \cup {v} |-> 1]
  <2>1. t \in Tables(Number) /\ DOMAIN t = ToSet(list) \cup {v}
    <3>1. ToSet(list) \cup {v} \in SUBSET Number
      BY <1>1 DEF ToSet, Lists
    <3>2. t \in [ToSet(list) \cup {v} -> Number]
      BY DEF Number
    <3> QED BY <3>1, <3>2 DEF Tables
  <2> HIDE DEF t
  <2>3. c = [len |-> b.len + 1, list |-> <<>>, isTable |-> TRUE, tab |-> t]
    BY <1>3, <1>6 DEF BucketWith, t
  <2>4. c \in Buckets /\ c.isTable /\ c.tab = t /\ c.list = <<>> /\ c.len = b.len + 1
    BY <1>1, <2>1, <2>3, EmptyEnumerates DEF Buckets
  <2>5. BucketVids(c) = vs \cup {v}
    BY <1>6, <2>1, <2>4 DEF BucketVids, Fits
  <2>6. IsInjective(c.list)
    BY <2>4 DEF IsInjective
  <2> HIDE DEF c
  <2>7. Fits(c, vs \cup {v}, occ \cup {o})
    BY <1>2, <2>4, <2>5, <2>6 DEF Fits
  <2> QED BY <2>7 DEF c
<1> QED BY <1>4, <1>5, <1>6

\* One occurrence less.
LEMMA WithoutFits ==
    ASSUME NEW b, NEW vs, NEW occ, Fits(b, vs, occ),
           NEW v \in Number, NEW o, o \in occ
    PROVE  Fits(BucketWithout(b, v), vs \ {v}, occ \ {o})
<1> DEFINE c == BucketWithout(b, v)
           list == b.list
           tab == b.tab
<1>1. /\ b \in Buckets /\ b.len \in Int /\ list \in Lists(Number)
      /\ b.isTable \in BOOLEAN /\ tab \in Tables(Number)
  BY DEF Fits, Buckets, Lists
<1>2. IsFiniteSet(occ \ {o}) /\ Cardinality(occ \ {o}) = b.len - 1
  BY FS_RemoveElement DEF Fits
<1>3. b = [len |-> b.len, list |-> list, isTable |-> b.isTable, tab |-> tab]
  BY <1>1 DEF Buckets
<1>4. CASE b.isTable
  <2> DEFINE t == TableRemove(tab, v)
  <2>2. t \in Tables(Number) /\ HasTaken(t, tab, {v})
    BY <1>1, RemoveIs
  <2>1. t \in Tables(Number) /\ DOMAIN t = DOMAIN tab \ {v}
    BY <2>2 DEF HasTaken
  <2> HIDE DEF t
  <2>3. c = [len |-> b.len - 1, list |-> list, isTable |-> b.isTable, tab |-> t]
    BY <1>3, <1>4 DEF BucketWithout, t
  <2>4. c \in Buckets /\ c.isTable /\ c.tab = t /\ c.list = <<>> /\ c.len = b.len - 1
    BY <1>1, <1>4, <2>1, <2>3, EmptyEnumerates DEF Buckets, Fits
  <2>5. BucketVids(c) = vs \ {v}
    BY <1>4, <2>1, <2>4 DEF BucketVids, Fits
  <2>6. IsInjective(c.list)
    BY <2>4 DEF IsInjective
  <2> HIDE DEF c
  <2>7. Fits(c, vs \ {v}, occ \ {o})
    BY <1>2, <2>4, <2>5, <2>6 DEF Fits
  <2> QED BY <2>7 DEF c
<1>5. CASE ~b.isTable
  <2> DEFINE l == RemoveFirst(list, v)
  <2>4. l \in Seq(Number) /\ IsInjective(l) /\ ToSet(l) = ToSet(list) \ {v}
    BY <1>1, RemoveTakesOut DEF Lists
  <2> HIDE DEF l
  <2>3. c = [len |-> b.len - 1, list |-> l, isTable |-> b.isTable, tab |-> tab]
    BY <1>3, <1>5 DEF BucketWithout, ListRemove, l
  <2>5. c \in Buckets /\ ~c.isTable /\ c.list = l /\ c.len = b.len - 1
    BY <1>1, <1>5, <2>3, <2>4 DEF Buckets, Lists
  <2>6. BucketVids(c) = vs \ {v}
    BY <1>5, <2>4, <2>5 DEF BucketVids, Fits
  <2> HIDE DEF c
  <2>7. Fits(c, vs \ {v}, occ \ {o})
    BY <1>2, <2>4, <2>5, <2>6 DEF Fits
  <2> QED BY <2>7 DEF c
<1> QED BY <1>4, <1>5

LEMMA BucketWithTyped ==
    ASSUME NEW b \in Buckets, NEW v \in Number
    PROVE  BucketWith(b, v) \in Buckets
<1> DEFINE list == b.list
           tab == b.tab
           l == IF Contains(list, v) THEN list ELSE ListPush(list, v)
           t == TablePut(tab, v, 1)
           u == [w \in ToSet(list) \cup {v} |-> 1]
<1>1. /\ b.len \in Int /\ list \in Lists(Number)
      /\ b.isTable \in BOOLEAN /\ tab \in Tables(Number)
      /\ b = [len |-> b.len, list |-> list, isTable |-> b.isTable, tab |-> tab]
  BY DEF Buckets
<1>2. l \in Lists(Number)
  <2>1. Enumerates(l, Number, ToSet(list) \cup {v})
    BY <1>1, PushNew
  <2> QED BY <2>1 DEF Enumerates
<1>3. t \in Tables(Number)
  BY <1>1, PutIs DEF Number
<1>4. u \in Tables(Number)
  <2>1. ToSet(list) \cup {v} \in SUBSET Number
    BY <1>1 DEF ToSet, Lists
  <2>2. u \in [ToSet(list) \cup {v} -> Number]
    BY DEF Number
  <2> QED BY <2>1, <2>2 DEF Tables
<1>5. BucketWith(b, v)
        \in {[len |-> b.len + 1, list |-> list, isTable |-> b.isTable, tab |-> t],
             [len |-> b.len + 1, list |-> l, isTable |-> b.isTable, tab |-> tab],
             [len |-> b.len + 1, list |-> <<>>, isTable |-> TRUE, tab |-> u]}
  BY <1>1 DEF BucketWith
<1> HIDE DEF l, t, u
<1>6. [len |-> b.len + 1, list |-> list, isTable |-> b.isTable, tab |-> t] \in Buckets
  BY <1>1, <1>3 DEF Buckets
<1>7. [len |-> b.len + 1, list |-> l, isTable |-> b.isTable, tab |-> tab] \in Buckets
  BY <1>1, <1>2 DEF Buckets
<1>8. [len |-> b.len + 1, list |-> <<>>, isTable |-> TRUE, tab |-> u] \in Buckets
  <2>1. <<>> \in Lists(Number)
    BY EmptyEnumerates
  <2> QED BY <1>1, <1>4, <2>1 DEF Buckets
<1> QED BY <1>5, <1>6, <1>7, <1>8

LEMMA BucketWithoutTyped ==
    ASSUME NEW b \in Buckets, NEW v \in Number
    PROVE  BucketWithout(b, v) \in Buckets
<1> DEFINE list == b.list
           tab == b.tab
           l == RemoveFirst(list, v)
           t == TableRemove(tab, v)
<1>1. /\ b.len \in Int /\ list \in Lists(Number)
      /\ b.isTable \in BOOLEAN /\ tab \in Tables(Number)
      /\ b = [len |-> b.len, list |-> list, isTable |-> b.isTable, tab |-> tab]
  BY DEF Buckets
<1>2. l \in Lists(Number)
  BY <1>1, RemoveTakesOut DEF Lists
<1>3. t \in Tables(Number)
  BY <1>1, RemoveIs
<1>5. BucketWithout(b, v)
        \in {[len |-> b.len - 1, list |-> list, isTable |-> b.isTable, tab |-> t],
             [len |-> b.len - 1, list |-> l, isTable |-> b.isTable, tab |-> tab]}
  BY <1>1 DEF BucketWithout, ListRemove
<1> HIDE DEF l, t
<1> QED BY <1>1, <1>2, <1>3, <1>5 DEF Buckets

\* The index has for every topic t the vids vs[t], and counts occ[t].
IndexFits(idx, vs, occ) ==
    /\ idx \in Indexes(Buckets)
    /\ \A t \in DOMAIN idx : Fits(idx[t], vs[t], occ[t])
    /\ \A t \in Topic \ DOMAIN idx : vs[t] = {} /\ occ[t] = {}

LEMMA PutAtTyped ==
    ASSUME NEW idx \in Indexes(Buckets), NEW v \in Number, NEW t \in Topic
    PROVE  PutAt(idx, v, t) \in Indexes(Buckets)
<1> DEFINE g == Grown(idx, t)
<1>1. g \in Indexes(Buckets) /\ t \in DOMAIN g
  BY EmptyFits, GrownGrows DEF IsGrown
<1>2. PutAt(idx, v, t) = [g EXCEPT ![t] = BucketWith(g[t], v)]
  BY DEF PutAt
<1> HIDE DEF g
<1>3. PICK d \in Nat : g \in [1..d -> Buckets]
  BY <1>1, IndexIs
<1>4. BucketWith(g[t], v) \in Buckets
  BY <1>1, <1>3, BucketWithTyped
<1>5. PutAt(idx, v, t) \in [1..d -> Buckets]
  BY <1>2, <1>3, <1>4
<1> QED BY <1>5 DEF Indexes

LEMMA TakeAtTyped ==
    ASSUME NEW idx \in Indexes(Buckets), NEW v \in Number, NEW t \in Topic
    PROVE  TakeAt(idx, v, t) \in Indexes(Buckets)
<1>2. TakeAt(idx, v, t) = [idx EXCEPT ![t] = BucketWithout(idx[t], v)]
  BY DEF TakeAt
<1>3. PICK d \in Nat : idx \in [1..d -> Buckets]
  BY IndexIs
<1>4. t \in 1..d => BucketWithout(idx[t], v) \in Buckets
  BY <1>3, BucketWithoutTyped
<1>5. TakeAt(idx, v, t) \in [1..d -> Buckets]
  BY <1>2, <1>3, <1>4
<1> QED BY <1>5 DEF Indexes

\* One topic more.
OneMore(vs, occ, vs2, occ2, v, t, o) ==
    /\ vs \in [Topic -> SUBSET Number] /\ vs2 \in [Topic -> SUBSET Number]
    /\ DOMAIN occ = Topic /\ DOMAIN occ2 = Topic
    /\ v \in Number /\ t \in Topic /\ o \notin occ[t]
    /\ \A u \in Topic : /\ vs2[u] = IF u = t THEN vs[u] \cup {v} ELSE vs[u]
                        /\ occ2[u] = IF u = t THEN occ[u] \cup {o} ELSE occ[u]

LEMMA PutAtFits ==
    ASSUME NEW idx, NEW vs, NEW occ, NEW v, NEW t, NEW o, NEW vs2, NEW occ2,
           IndexFits(idx, vs, occ), OneMore(vs, occ, vs2, occ2, v, t, o)
    PROVE  IndexFits(PutAt(idx, v, t), vs2, occ2)
<1> USE DEF OneMore
<1> DEFINE g == Grown(idx, t)
           new == PutAt(idx, v, t)
<1>1. g \in Indexes(Buckets) /\ IsGrown(g, idx, t)
  BY EmptyFits, GrownGrows DEF IndexFits
<1>2. new = [g EXCEPT ![t] = BucketWith(g[t], v)]
  BY DEF PutAt
<1>3. new \in Indexes(Buckets)
  BY PutAtTyped DEF IndexFits
<1> HIDE DEF g, new
<1>4. PICK d \in Nat : g \in [1..d -> Buckets]
  BY <1>1, IndexIs
<1>5. DOMAIN new = 1..d /\ DOMAIN g = 1..d /\ 1..d \subseteq Topic /\ t \in 1..d
  BY <1>1, <1>2, <1>4 DEF Topic, IsGrown
<1>6. \A u \in DOMAIN g : Fits(g[u], vs[u], occ[u])
  <2> SUFFICES ASSUME NEW u \in DOMAIN g PROVE Fits(g[u], vs[u], occ[u])
    OBVIOUS
  <2>1. CASE u \in DOMAIN idx
    <3>1. g[u] = idx[u] /\ Fits(idx[u], vs[u], occ[u])
      BY <1>1, <2>1 DEF IsGrown, IndexFits
    <3> QED BY <3>1
  <2>2. CASE u \notin DOMAIN idx
    <3>1. vs[u] = {} /\ occ[u] = {} /\ g[u] = EmptyBucket
      BY <1>1, <1>5, <2>2 DEF IsGrown, IndexFits
    <3> QED BY <3>1, EmptyFits
  <2> QED BY <2>1, <2>2
<1>7. Fits(BucketWith(g[t], v), vs[t] \cup {v}, occ[t] \cup {o})
  <2>1. Fits(g[t], vs[t], occ[t])
    BY <1>5, <1>6
  <2> QED BY <2>1, WithFits
<1>8. \A u \in DOMAIN new : Fits(new[u], vs2[u], occ2[u])
  <2> SUFFICES ASSUME NEW u \in 1..d PROVE Fits(new[u], vs2[u], occ2[u])
    BY <1>5
  <2>1. CASE u = t
    <3>1. new[u] = BucketWith(g[t], v) /\ vs2[u] = vs[t] \cup {v} /\ occ2[u] = occ[t] \cup {o}
      BY <1>2, <1>5, <2>1
    <3> QED BY <1>7, <3>1
  <2>2. CASE u # t
    <3>1. new[u] = g[u] /\ vs2[u] = vs[u] /\ occ2[u] = occ[u]
      BY <1>2, <1>5, <2>2
    <3>2. Fits(g[u], vs[u], occ[u])
      BY <1>5, <1>6
    <3> QED BY <3>1, <3>2
  <2> QED BY <2>1, <2>2
<1>9. \A u \in Topic \ DOMAIN new : vs2[u] = {} /\ occ2[u] = {}
  <2> SUFFICES ASSUME NEW u \in Topic \ 1..d PROVE vs2[u] = {} /\ occ2[u] = {}
    BY <1>5
  <2>1. u \notin DOMAIN idx /\ u # t
    BY <1>1, <1>5 DEF IsGrown
  <2>2. vs[u] = {} /\ occ[u] = {}
    BY <2>1 DEF IndexFits
  <2> QED BY <2>1, <2>2
<1>10. IndexFits(new, vs2, occ2)
  BY <1>3, <1>8, <1>9 DEF IndexFits
<1> QED BY <1>10 DEF new

\* One topic less.
OneLess(vs, occ, vs2, occ2, v, t, o) ==
    /\ vs \in [Topic -> SUBSET Number] /\ vs2 \in [Topic -> SUBSET Number]
    /\ DOMAIN occ = Topic /\ DOMAIN occ2 = Topic
    /\ v \in Number /\ t \in Topic /\ o \in occ[t]
    /\ \A u \in Topic : /\ vs2[u] = IF u = t THEN vs[u] \ {v} ELSE vs[u]
                        /\ occ2[u] = IF u = t THEN occ[u] \ {o} ELSE occ[u]

LEMMA TakeAtFits ==
    ASSUME NEW idx, NEW vs, NEW occ, NEW v, NEW t, NEW o, NEW vs2, NEW occ2,
           IndexFits(idx, vs, occ), OneLess(vs, occ, vs2, occ2, v, t, o)
    PROVE  IndexFits(TakeAt(idx, v, t), vs2, occ2)
<1> USE DEF OneLess
<1> DEFINE new == TakeAt(idx, v, t)
<1>1. idx \in Indexes(Buckets) /\ t \in DOMAIN idx
  BY DEF IndexFits
<1>2. new = [idx EXCEPT ![t] = BucketWithout(idx[t], v)]
  BY DEF TakeAt
<1>3. new \in Indexes(Buckets)
  BY TakeAtTyped DEF IndexFits
<1> HIDE DEF new
<1>4. PICK d \in Nat : idx \in [1..d -> Buckets]
  BY <1>1, IndexIs
<1>5. DOMAIN new = 1..d /\ DOMAIN idx = 1..d /\ 1..d \subseteq Topic /\ t \in 1..d
  BY <1>1, <1>2, <1>4 DEF Topic
<1>6. \A u \in DOMAIN idx : Fits(idx[u], vs[u], occ[u])
  BY DEF IndexFits
<1>7. Fits(BucketWithout(idx[t], v), vs[t] \ {v}, occ[t] \ {o})
  <2>1. Fits(idx[t], vs[t], occ[t])
    BY <1>5, <1>6
  <2> QED BY <2>1, WithoutFits
<1>8. \A u \in DOMAIN new : Fits(new[u], vs2[u], occ2[u])
  <2> SUFFICES ASSUME NEW u \in 1..d PROVE Fits(new[u], vs2[u], occ2[u])
    BY <1>5
  <2>1. CASE u = t
    <3>1. new[u] = BucketWithout(idx[t], v) /\ vs2[u] = vs[t] \ {v} /\ occ2[u] = occ[t] \ {o}
      BY <1>2, <1>5, <2>1
    <3> QED BY <1>7, <3>1
  <2>2. CASE u # t
    <3>1. new[u] = idx[u] /\ vs2[u] = vs[u] /\ occ2[u] = occ[u]
      BY <1>2, <1>5, <2>2
    <3>2. Fits(idx[u], vs[u], occ[u])
      BY <1>5, <1>6
    <3> QED BY <3>1, <3>2
  <2> QED BY <2>1, <2>2
<1>9. \A u \in Topic \ DOMAIN new : vs2[u] = {} /\ occ2[u] = {}
  <2> SUFFICES ASSUME NEW u \in Topic \ 1..d PROVE vs2[u] = {} /\ occ2[u] = {}
    BY <1>5
  <2>1. u \notin DOMAIN idx /\ u # t
    BY <1>5
  <2>2. vs[u] = {} /\ occ[u] = {}
    BY <2>1 DEF IndexFits
  <2> QED BY <2>1, <2>2
<1>10. IndexFits(new, vs2, occ2)
  BY <1>3, <1>8, <1>9 DEF IndexFits
<1> QED BY <1>10 DEF new

\* The occurrences of topic t in an array, up to place k, under the vid v.
At(v, array, t, k) == {<<v, i>> : i \in {j \in 1..k : array[j] = t}}

AtStep(v, array, t, k) ==
    /\ At(v, array, t, k) = IF array[k] = t THEN At(v, array, t, k - 1) \cup {<<v, k>>}
                            ELSE At(v, array, t, k - 1)
    /\ <<v, k>> \notin At(v, array, t, k - 1)
    /\ array[k] = t => <<v, k>> \in At(v, array, t, Len(array))

LEMMA AtGrows ==
    ASSUME NEW v, NEW array \in Seq(Topic), NEW t
    PROVE  /\ At(v, array, t, 0) = {}
           /\ \A k \in 1..Len(array) : AtStep(v, array, t, k)
<1>1. At(v, array, t, 0) = {}
  BY DEF At
<1>2. ASSUME NEW k \in 1..Len(array)
      PROVE  AtStep(v, array, t, k)
  <2>1. \A i : i \in 1..k <=> i = k \/ i \in 1..(k - 1)
    OBVIOUS
  <2>2. {j \in 1..k : array[j] = t}
          = {j \in 1..(k - 1) : array[j] = t} \cup (IF array[k] = t THEN {k} ELSE {})
    BY <2>1
  <2>3. At(v, array, t, k) = IF array[k] = t THEN At(v, array, t, k - 1) \cup {<<v, k>>}
                             ELSE At(v, array, t, k - 1)
    BY <2>2 DEF At
  <2>4. <<v, k>> \notin At(v, array, t, k - 1)
    <3>1. k \notin 1..(k - 1)
      OBVIOUS
    <3> QED BY <3>1 DEF At
  <2>5. array[k] = t => <<v, k>> \in At(v, array, t, Len(array))
    BY DEF At
  <2> QED BY <2>3, <2>4, <2>5 DEF AtStep
<1> QED BY <1>1, <1>2

\* The whole array: what it adds to and takes from the sets of a topic.
VidsWith(vs, v, array, k) ==
    [t \in Topic |-> IF t \in First(array, k) THEN vs[t] \cup {v} ELSE vs[t]]

OccWith(occ, v, array, k) == [t \in Topic |-> occ[t] \cup At(v, array, t, k)]

VidsWithout(vs, v, array, k) ==
    [t \in Topic |-> IF t \in First(array, k) THEN vs[t] \ {v} ELSE vs[t]]

OccWithout(occ, v, array, k) == [t \in Topic |-> occ[t] \ At(v, array, t, k)]

LEMMA InsertedFits ==
    ASSUME NEW idx, NEW vs \in [Topic -> SUBSET Number], NEW occ, DOMAIN occ = Topic,
           occ = [t \in Topic |-> occ[t]],
           IndexFits(idx, vs, occ), NEW v \in Number, NEW array \in Seq(Topic),
           \A t \in Topic, k \in 1..Len(array) : <<v, k>> \notin occ[t]
    PROVE  IndexFits(InsertedIn(idx, v, array), VidsWith(vs, v, array, Len(array)),
                     OccWith(occ, v, array, Len(array)))
<1> DEFINE n == Len(array)
           A(k) == VidsWith(vs, v, array, k)
           O(k) == OccWith(occ, v, array, k)
<1>1. n \in Nat /\ \A k \in 1..n : array[k] \in Topic
  OBVIOUS
<1>2. \A a \in Indexes(Buckets), t \in Topic : PutAt(a, v, t) \in Indexes(Buckets)
  BY PutAtTyped
<1>3. PICK r : IsInsertedRun(r, Indexes(Buckets), idx, array, v)
  BY <1>2, InsertedRuns DEF IndexFits
<1>4. /\ r \in [0..n -> Indexes(Buckets)]
      /\ r[0] = idx /\ r[n] = InsertedIn(idx, v, array)
      /\ \A k \in 1..n : r[k] = PutAt(r[k - 1], v, array[k])
  BY <1>3 DEF IsInsertedRun
<1>5. \A k \in 0..n : A(k) \in [Topic -> SUBSET Number] /\ DOMAIN O(k) = Topic
  BY DEF VidsWith, OccWith
<1> DEFINE Good == {k \in 0..n : IndexFits(r[k], A(k), O(k))}
<1>6. 0 \in Good
  <2>1. A(0) = vs
    BY FirstGrows DEF VidsWith
  <2>2. O(0) = occ
    <3>1. \A t \in Topic : occ[t] \cup At(v, array, t, 0) = occ[t]
      BY AtGrows
    <3> QED BY <3>1 DEF OccWith
  <2> HIDE DEF A, O
  <2> QED BY <1>1, <1>4, <2>1, <2>2
<1>7. ASSUME NEW k \in 1..n, k - 1 \in Good PROVE k \in Good
  <2> DEFINE t == array[k]
  <2>1. t \in Topic /\ k - 1 \in 0..n /\ k \in 0..n
    BY <1>1
  <2>2. IndexFits(r[k - 1], A(k - 1), O(k - 1))
    BY <1>7
  <2>3. <<v, k>> \notin O(k - 1)[t]
    <3>1. AtStep(v, array, t, k)
      BY AtGrows
    <3> QED BY <2>1, <3>1 DEF OccWith, AtStep
  <2>4. \A u \in Topic : A(k)[u] = IF u = t THEN A(k - 1)[u] \cup {v} ELSE A(k - 1)[u]
    <3>1. First(array, k) = First(array, k - 1) \cup {t}
      BY FirstGrows
    <3> QED BY <3>1 DEF VidsWith
  <2>5. \A u \in Topic :
           O(k)[u] = IF u = t THEN O(k - 1)[u] \cup {<<v, k>>} ELSE O(k - 1)[u]
    <3>1. \A u \in Topic :
             At(v, array, u, k) = IF u = t THEN At(v, array, u, k - 1) \cup {<<v, k>>}
                                  ELSE At(v, array, u, k - 1)
      <4> TAKE u \in Topic
      <4>1. AtStep(v, array, u, k)
        BY AtGrows
      <4> QED BY <4>1 DEF AtStep
    <3> QED BY <3>1 DEF OccWith
  <2>6. r[k] = PutAt(r[k - 1], v, t)
    BY <1>4
  <2>7. A(k - 1) \in [Topic -> SUBSET Number] /\ DOMAIN O(k - 1) = Topic
    BY <1>5, <2>1
  <2>8. A(k) \in [Topic -> SUBSET Number] /\ DOMAIN O(k) = Topic
    BY <1>5, <2>1
  <2> HIDE DEF A, O, t
  <2>9. IndexFits(PutAt(r[k - 1], v, t), A(k), O(k))
    <3>1. OneMore(A(k - 1), O(k - 1), A(k), O(k), v, t, <<v, k>>)
      BY <2>1, <2>3, <2>4, <2>5, <2>7, <2>8 DEF OneMore
    <3> QED BY <2>2, <3>1, PutAtFits
  <2> QED BY <2>1, <2>6, <2>9
<1> HIDE DEF Good
<1>8. 0..n \subseteq Good
  BY <1>1, <1>6, <1>7, LoopInvariant
<1>9. n \in Good
  BY <1>1, <1>8
<1> QED BY <1>4, <1>9 DEF Good

LEMMA RemovedFromFits ==
    ASSUME NEW idx, NEW vs \in [Topic -> SUBSET Number], NEW occ, DOMAIN occ = Topic,
           occ = [t \in Topic |-> occ[t]],
           IndexFits(idx, vs, occ), NEW v \in Number, NEW array \in Seq(Topic),
           \A t \in Topic : At(v, array, t, Len(array)) \subseteq occ[t]
    PROVE  IndexFits(RemovedFrom(idx, v, array), VidsWithout(vs, v, array, Len(array)),
                     OccWithout(occ, v, array, Len(array)))
<1> DEFINE n == Len(array)
           A(k) == VidsWithout(vs, v, array, k)
           O(k) == OccWithout(occ, v, array, k)
<1>1. n \in Nat /\ \A k \in 1..n : array[k] \in Topic
  OBVIOUS
<1>2. \A a \in Indexes(Buckets), t \in Topic : TakeAt(a, v, t) \in Indexes(Buckets)
  BY TakeAtTyped
<1>3. PICK r : IsRemovedFromRun(r, Indexes(Buckets), idx, array, v)
  BY <1>2, RemovedFromRuns DEF IndexFits
<1>4. /\ r \in [0..n -> Indexes(Buckets)]
      /\ r[0] = idx /\ r[n] = RemovedFrom(idx, v, array)
      /\ \A k \in 1..n : r[k] = TakeAt(r[k - 1], v, array[k])
  BY <1>3 DEF IsRemovedFromRun
<1>5. \A k \in 0..n : A(k) \in [Topic -> SUBSET Number] /\ DOMAIN O(k) = Topic
  BY DEF VidsWithout, OccWithout
<1> DEFINE Good == {k \in 0..n : IndexFits(r[k], A(k), O(k))}
<1>6. 0 \in Good
  <2>1. A(0) = vs
    BY FirstGrows DEF VidsWithout
  <2>2. O(0) = occ
    <3>1. \A t \in Topic : occ[t] \ At(v, array, t, 0) = occ[t]
      BY AtGrows
    <3> QED BY <3>1 DEF OccWithout
  <2> HIDE DEF A, O
  <2> QED BY <1>1, <1>4, <2>1, <2>2
<1>7. ASSUME NEW k \in 1..n, k - 1 \in Good PROVE k \in Good
  <2> DEFINE t == array[k]
  <2>1. t \in Topic /\ k - 1 \in 0..n /\ k \in 0..n
    BY <1>1
  <2>2. IndexFits(r[k - 1], A(k - 1), O(k - 1))
    BY <1>7
  <2>3. <<v, k>> \in O(k - 1)[t]
    <3>2. AtStep(v, array, t, k)
      BY AtGrows
    <3>1. <<v, k>> \in At(v, array, t, n) /\ <<v, k>> \notin At(v, array, t, k - 1)
      BY <3>2 DEF AtStep
    <3> QED BY <2>1, <3>1 DEF OccWithout
  <2>4. \A u \in Topic : A(k)[u] = IF u = t THEN A(k - 1)[u] \ {v} ELSE A(k - 1)[u]
    <3>1. First(array, k) = First(array, k - 1) \cup {t}
      BY FirstGrows
    <3> QED BY <3>1 DEF VidsWithout
  <2>5. \A u \in Topic :
           O(k)[u] = IF u = t THEN O(k - 1)[u] \ {<<v, k>>} ELSE O(k - 1)[u]
    <3>1. \A u \in Topic :
             At(v, array, u, k) = IF u = t THEN At(v, array, u, k - 1) \cup {<<v, k>>}
                                  ELSE At(v, array, u, k - 1)
      <4> TAKE u \in Topic
      <4>1. AtStep(v, array, u, k)
        BY AtGrows
      <4> QED BY <4>1 DEF AtStep
    <3> QED BY <3>1 DEF OccWithout
  <2>6. r[k] = TakeAt(r[k - 1], v, t)
    BY <1>4
  <2>7. A(k - 1) \in [Topic -> SUBSET Number] /\ DOMAIN O(k - 1) = Topic
    BY <1>5, <2>1
  <2>8. A(k) \in [Topic -> SUBSET Number] /\ DOMAIN O(k) = Topic
    BY <1>5, <2>1
  <2> HIDE DEF A, O, t
  <2>9. IndexFits(TakeAt(r[k - 1], v, t), A(k), O(k))
    <3>1. OneLess(A(k - 1), O(k - 1), A(k), O(k), v, t, <<v, k>>)
      BY <2>1, <2>3, <2>4, <2>5, <2>7, <2>8 DEF OneLess
    <3> QED BY <2>2, <3>1, TakeAtFits
  <2> QED BY <2>1, <2>6, <2>9
<1> HIDE DEF Good
<1>8. 0..n \subseteq Good
  BY <1>1, <1>6, <1>7, LoopInvariant
<1>9. n \in Good
  BY <1>1, <1>8
<1> QED BY <1>4, <1>9 DEF Good

-----------------------------------------------------------------------------
(* Sorted members *)

\* The list r is q with m put in at place p.
IsInserted(r, q, m, p) ==
    /\ r \in Seq(Membership)
    /\ Len(r) = Len(q) + 1
    /\ p \in 1..(Len(q) + 1)
    /\ \A i \in 1..(Len(q) + 1) :
          r[i] = IF i < p THEN q[i] ELSE IF i = p THEN m ELSE q[i - 1]

LEMMA InsertAtInserts ==
    ASSUME NEW q \in Seq(Membership), NEW m \in Membership, NEW p \in 1..(Len(q) + 1)
    PROVE  IsInserted(InsertAt(q, p, m), q, m, p)
<1> DEFINE n == Len(q)
           a == SubSeq(q, 1, p - 1)
           c == SubSeq(q, p, n)
           r == InsertAt(q, p, m)
<1>1. n \in Nat /\ p \in Nat /\ p >= 1 /\ p <= n + 1
  OBVIOUS
<1>2. a \in Seq(Membership) /\ Len(a) = p - 1 /\ \A i \in 1..(p - 1) : a[i] = q[i]
  BY <1>1
<1>3. /\ c \in Seq(Membership) /\ Len(c) = (n + 1) - p
      /\ \A i \in 1..((n + 1) - p) : c[i] = q[(p + i) - 1]
  BY <1>1
<1>4. r = a \o <<m>> \o c
  BY DEF InsertAt
<1> HIDE DEF a, c, r, n
<1> DEFINE d == a \o <<m>>
<1>5. /\ d \in Seq(Membership) /\ Len(d) = p
      /\ \A i \in 1..p : d[i] = IF i < p THEN a[i] ELSE m
  BY <1>1, <1>2
<1>6. r = d \o c
  BY <1>4
<1> HIDE DEF d
<1>7. r \in Seq(Membership) /\ Len(r) = n + 1
  BY <1>1, <1>3, <1>5, <1>6
<1>8. ASSUME NEW i \in 1..(n + 1)
      PROVE  r[i] = IF i < p THEN q[i] ELSE IF i = p THEN m ELSE q[i - 1]
  <2>1. CASE i <= p
    <3>1. i \in 1..p
      BY <1>1, <2>1
    <3>2. r[i] = d[i]
      BY <1>3, <1>5, <1>6, <3>1
    <3>3. i < p => i \in 1..(p - 1)
      BY <1>1, <3>1
    <3> QED BY <1>1, <1>2, <1>5, <2>1, <3>1, <3>2, <3>3
  <2>2. CASE i > p
    <3>1. i - p \in 1..((n + 1) - p) /\ (p + (i - p)) - 1 = i - 1
      BY <1>1, <2>2
    <3>2. r[i] = c[i - p]
      BY <1>1, <1>3, <1>5, <1>6, <2>2
    <3> QED BY <1>1, <1>3, <2>2, <3>1, <3>2
  <2> QED BY <1>1, <2>1, <2>2
<1> QED BY <1>1, <1>7, <1>8 DEF IsInserted, n, r

\* The place of a member is behind those whose roles are not greater.
IsPlace(q, m, p) ==
    /\ p \in 1..(Len(q) + 1)
    /\ \A i \in 1..(p - 1) : q[i].role <= m.role
    /\ p <= Len(q) => q[p].role > m.role

LEMMA InsertMemberInserts ==
    ASSUME NEW q \in Seq(Membership), NEW m \in Membership
    PROVE  \E p : IsPlace(q, m, p) /\ IsInserted(InsertMember(q, m), q, m, p)
<1> DEFINE n == Len(q)
           s == {i \in DOMAIN q : \A j \in 1..i : q[j].role <= m.role}
           bad == {i \in 1..n : q[i].role > m.role}
<1>1. n \in Nat /\ DOMAIN q = 1..n /\ m.role \in Nat /\ \A i \in 1..n : q[i].role \in Nat
  <2>1. n \in Nat /\ DOMAIN q = 1..n /\ \A i \in 1..n : q[i] \in Membership
    OBVIOUS
  <2>2. \A x \in Membership : x.role \in Nat
    BY DEF Membership, Topic
  <2> QED BY <2>1, <2>2
<1>2. ASSUME NEW k \in 0..n, s = 1..k
      PROVE  Cardinality(s) = k
  <2>1. k \in Int /\ k >= 0
    BY <1>1
  <2>2. Cardinality(1..k) = IF 1 > k THEN 0 ELSE (k - 1) + 1
    BY <2>1, FS_Interval
  <2> HIDE DEF s
  <2> QED BY <1>2, <2>1, <2>2
<1>3. ASSUME NEW k \in 0..n, s = 1..k, IsPlace(q, m, k + 1)
      PROVE  \E p : IsPlace(q, m, p) /\ IsInserted(InsertMember(q, m), q, m, p)
  <2>1. InsertMember(q, m) = InsertAt(q, 1 + k, m)
    BY <1>2, <1>3 DEF InsertMember
  <2>2. 1 + k \in 1..(n + 1) /\ 1 + k = k + 1
    BY <1>1
  <2>3. IsInserted(InsertAt(q, 1 + k, m), q, m, 1 + k)
    BY <2>2, InsertAtInserts
  <2> QED BY <1>3, <2>1, <2>2, <2>3
<1>4. CASE bad = {}
  <2>1. \A i \in 1..n : q[i].role <= m.role
    BY <1>1, <1>4
  <2>2. s = 1..n
    BY <1>1, <2>1
  <2>3. IsPlace(q, m, n + 1)
    BY <1>1, <2>1 DEF IsPlace
  <2>4. n \in 0..n
    BY <1>1
  <2> HIDE DEF n, s
  <2> QED BY <1>3, <2>2, <2>3, <2>4
<1>5. CASE bad # {}
  <2> DEFINE b == Min(bad)
  <2>1. bad \in SUBSET (0..n)
    BY <1>1
  <2>2. b \in bad /\ \A y \in bad : b <= y
    <3> HIDE DEF bad
    <3> QED BY <1>1, <1>5, <2>1, MinOfSome
  <2> HIDE DEF b
  <2>3. b \in 1..n /\ q[b].role > m.role
    BY <2>2
  <2>4. \A i \in 1..(b - 1) : i \in 1..n /\ q[i].role <= m.role
    <3> TAKE i \in 1..(b - 1)
    <3>1. i \in 1..n /\ ~(b <= i)
      BY <1>1, <2>3
    <3>2. i \notin bad
      BY <2>2, <3>1
    <3> QED BY <1>1, <3>1, <3>2
  <2>5. s = 1..(b - 1)
    <3>1. \A i \in s : i < b
      <4> TAKE i \in s
      <4>1. i \in 1..n /\ \A j \in 1..i : q[j].role <= m.role
        BY <1>1
      <4>2. ~(q[b].role <= m.role)
        BY <1>1, <2>3
      <4>3. b \notin 1..i
        BY <4>1, <4>2
      <4> QED BY <2>3, <4>1, <4>3
    <3>2. \A i \in 1..(b - 1) : i \in s
      <4> TAKE i \in 1..(b - 1)
      <4>1. \A j \in 1..i : j \in 1..(b - 1)
        BY <2>3
      <4> QED BY <1>1, <2>4, <4>1
    <3> QED BY <1>1, <2>3, <3>1, <3>2
  <2>6. IsPlace(q, m, (b - 1) + 1)
    BY <1>1, <2>3, <2>4 DEF IsPlace
  <2>7. b - 1 \in 0..n
    BY <1>1, <2>3
  <2> HIDE DEF n, s
  <2> QED BY <1>3, <2>5, <2>6, <2>7
<1> QED BY <1>4, <1>5

\* The roles of the list ascend.
Rising(q) == \A i \in 2..Len(q) : q[i].role > q[i - 1].role

\* No two members of the list have one role.
RolesDiffer(q) == \A i, j \in 1..Len(q) : q[i].role = q[j].role => i = j

LEMMA InsertMemberKeeps ==
    ASSUME NEW q \in Seq(Membership), NEW m \in Membership
    PROVE  /\ InsertMember(q, m) \in Seq(Membership)
           /\ ToSet(InsertMember(q, m)) = ToSet(q) \cup {m}
           /\ Rising(q) /\ (\A x \in ToSet(q) : x.role # m.role)
                 => Rising(InsertMember(q, m))
<1> DEFINE n == Len(q)
           r == InsertMember(q, m)
<1>1. PICK p : IsPlace(q, m, p) /\ IsInserted(r, q, m, p)
  BY InsertMemberInserts
<1> HIDE DEF r
<1>2. n \in Nat /\ DOMAIN q = 1..n /\ p \in 1..(n + 1)
  BY <1>1 DEF IsPlace
<1>3. /\ r \in Seq(Membership) /\ Len(r) = n + 1 /\ DOMAIN r = 1..(n + 1)
      /\ \A i \in 1..(n + 1) : r[i] = IF i < p THEN q[i] ELSE IF i = p THEN m ELSE q[i - 1]
  BY <1>1, <1>2 DEF IsInserted
<1>4. ToSet(r) = ToSet(q) \cup {m}
  <2>1. \A i \in 1..(n + 1) : r[i] \in ToSet(q) \cup {m}
    <3> TAKE i \in 1..(n + 1)
    <3>1. (i < p => i \in 1..n) /\ (i > p => i - 1 \in 1..n)
      BY <1>2
    <3> QED BY <1>2, <1>3, <3>1 DEF ToSet
  <2>2. \A i \in 1..n : q[i] \in ToSet(r)
    <3> TAKE i \in 1..n
    <3>1. CASE i < p
      <4>1. i \in 1..(n + 1) /\ r[i] = q[i]
        BY <1>2, <1>3, <3>1
      <4> QED BY <1>3, <4>1 DEF ToSet
    <3>2. CASE i >= p
      <4>1. i + 1 \in 1..(n + 1) /\ (i + 1) - 1 = i /\ i + 1 > p
        BY <1>2, <3>2
      <4>2. r[i + 1] = q[i]
        BY <1>2, <1>3, <4>1
      <4> QED BY <1>3, <4>1, <4>2 DEF ToSet
    <3> QED BY <1>2, <3>1, <3>2
  <2>3. m \in ToSet(r)
    BY <1>2, <1>3 DEF ToSet
  <2> QED BY <1>2, <1>3, <2>1, <2>2, <2>3 DEF ToSet
<1>5. ASSUME Rising(q), \A x \in ToSet(q) : x.role # m.role PROVE Rising(r)
  <2> SUFFICES ASSUME NEW i \in 2..(n + 1) PROVE r[i].role > r[i - 1].role
    BY <1>2, <1>3 DEF Rising
  <2>1. \A j \in 1..n : q[j].role \in Nat /\ q[j].role # m.role
    <3> TAKE j \in 1..n
    <3>1. q[j] \in Membership /\ q[j] \in ToSet(q)
      BY <1>2 DEF ToSet
    <3> QED BY <1>5, <3>1 DEF Membership, Topic
  <2>2. m.role \in Nat
    BY DEF Membership, Topic
  <2>3. i \in 1..(n + 1) /\ i - 1 \in 1..(n + 1) /\ i - 1 < i
    BY <1>2
  <2>4. CASE i < p
    <3>1. i \in 2..n
      BY <1>2, <2>4
    <3>2. r[i] = q[i] /\ r[i - 1] = q[i - 1]
      BY <1>2, <1>3, <2>3, <2>4
    <3> QED BY <1>5, <3>1, <3>2 DEF Rising
  <2>5. CASE i = p
    <3>1. r[i] = m /\ r[i - 1] = q[i - 1] /\ i - 1 \in 1..(p - 1) /\ i - 1 \in 1..n
      BY <1>2, <1>3, <2>3, <2>5
    <3>2. q[i - 1].role <= m.role
      BY <1>1, <3>1 DEF IsPlace
    <3> QED BY <2>1, <2>2, <3>1, <3>2
  <2>6. CASE i = p + 1
    <3>1. r[i] = q[p] /\ r[i - 1] = m /\ p <= n
      BY <1>2, <1>3, <2>3, <2>6
    <3> QED BY <1>1, <3>1 DEF IsPlace
  <2>7. CASE i > p + 1
    <3>1. r[i] = q[i - 1] /\ r[i - 1] = q[(i - 1) - 1] /\ i - 1 \in 2..n
      BY <1>2, <1>3, <2>3, <2>7
    <3> QED BY <1>5, <3>1 DEF Rising
  <2> QED BY <1>2, <2>3, <2>4, <2>5, <2>6, <2>7
<1> QED BY <1>3, <1>4, <1>5 DEF r

\* Sorting keeps the members; they rise when no two have one role.
LEMMA SortedSorts ==
    ASSUME NEW q \in Seq(Membership)
    PROVE  /\ Sorted(q) \in Seq(Membership)
           /\ ToSet(Sorted(q)) = ToSet(q)
           /\ RolesDiffer(q) => Rising(Sorted(q))
<1> DEFINE n == Len(q)
<1>1. n \in Nat /\ \A k \in 1..n : q[k] \in Membership
  OBVIOUS
<1>2. <<>> \in Seq(Membership) /\ Rising(<<>>) /\ ToSet(<<>>) = {}
  BY DEF Rising, ToSet
<1>3. \A a \in Seq(Membership), m \in Membership : InsertMember(a, m) \in Seq(Membership)
  BY InsertMemberKeeps
<1>4. PICK r : IsSortedRun(r, Seq(Membership), <<>>, q)
  BY <1>2, <1>3, SortedRuns
<1>5. /\ r \in [0..n -> Seq(Membership)]
      /\ r[0] = <<>> /\ r[n] = Sorted(q)
      /\ \A k \in 1..n : r[k] = InsertMember(r[k - 1], q[k])
  BY <1>4 DEF IsSortedRun
<1>6. ToSet(r[0]) = {} /\ Rising(r[0])
  BY <1>2, <1>5
<1> DEFINE Good == {k \in 0..n : /\ ToSet(r[k]) = First(q, k)
                                 /\ RolesDiffer(q) => Rising(r[k])}
<1>7. 0 \in Good
  <2>1. First(q, 0) = {}
    BY FirstGrows
  <2>2. ToSet(r[0]) = First(q, 0) /\ (RolesDiffer(q) => Rising(r[0]))
    BY <1>6, <2>1
  <2>3. 0 \in 0..n
    BY <1>1
  <2> QED BY <2>2, <2>3
<1>8. ASSUME NEW k \in 1..n, k - 1 \in Good PROVE k \in Good
  <2> DEFINE a == r[k - 1]
             m == q[k]
  <2>1. k - 1 \in 0..n /\ k \in 0..n
    BY <1>1
  <2>2. a \in Seq(Membership) /\ m \in Membership
    BY <1>1, <1>5, <2>1
  <2>3. r[k] = InsertMember(a, m)
    BY <1>5
  <2>4. ToSet(a) = First(q, k - 1) /\ (RolesDiffer(q) => Rising(a))
    BY <1>8
  <2>5. First(q, k) = First(q, k - 1) \cup {m}
    BY FirstGrows
  <2>6. RolesDiffer(q) => \A x \in First(q, k - 1) : x.role # m.role
    <3> SUFFICES ASSUME RolesDiffer(q), NEW x \in First(q, k - 1) PROVE x.role # m.role
      OBVIOUS
    <3>1. PICK i \in 1..(k - 1) : x = q[i]
      BY DEF First
    <3>2. i \in 1..n /\ i # k
      BY <1>1, <3>1
    <3> QED BY <3>1, <3>2 DEF RolesDiffer
  <2> HIDE DEF a, m
  <2>7. /\ ToSet(InsertMember(a, m)) = ToSet(a) \cup {m}
        /\ Rising(a) /\ (\A x \in ToSet(a) : x.role # m.role)
              => Rising(InsertMember(a, m))
    BY <2>2, InsertMemberKeeps
  <2> QED BY <2>1, <2>3, <2>4, <2>5, <2>6, <2>7
<1> HIDE DEF Good
<1>9. 0..n \subseteq Good
  BY <1>1, <1>7, <1>8, LoopInvariant
<1>10. n \in Good
  BY <1>1, <1>9
<1>11. First(q, n) = ToSet(q)
  BY FirstGrows
<1> QED BY <1>1, <1>5, <1>10, <1>11 DEF Good

-----------------------------------------------------------------------------
(* Values in which topics are replaced *)

\* The elements of a list are finitely many, and as many as it is long when
\* nothing is twice.
LEMMA CountToSet ==
    ASSUME NEW S, NEW q \in Seq(S)
    PROVE  /\ IsFiniteSet(ToSet(q))
           /\ Cardinality(ToSet(q)) <= Len(q)
           /\ IsInjective(q) => Cardinality(ToSet(q)) = Len(q)
<1> DEFINE n == Len(q)
<1>1. n \in Nat /\ q \in [1..n -> ToSet(q)] /\ DOMAIN q = 1..n
  BY ElementInSet
<1>2. q \in Surjection(1..n, ToSet(q))
  BY <1>1 DEF Surjection, ToSet
<1>3. IsFiniteSet(1..n) /\ Cardinality(1..n) = n
  <2>1. Cardinality(1..n) = IF 1 > n THEN 0 ELSE (n - 1) + 1
    BY <1>1, FS_Interval
  <2>2. IsFiniteSet(1..n)
    BY <1>1, FS_Interval
  <2> QED BY <1>1, <2>1, <2>2
<1>4. /\ IsFiniteSet(ToSet(q)) /\ Cardinality(ToSet(q)) <= Cardinality(1..n)
      /\ (Cardinality(ToSet(q)) = Cardinality(1..n) <=> q \in Injection(1..n, ToSet(q)))
  BY <1>2, <1>3, FS_Surjection
<1>5. IsInjective(q) => q \in Injection(1..n, ToSet(q))
  BY <1>1 DEF Injection, IsInjective
<1> QED BY <1>3, <1>4, <1>5

\* Lists of one length: when one has no element twice and all its elements
\* are in the other, they have the same elements.
LEMMA SameLength ==
    ASSUME NEW S, NEW a \in Lists(S), NEW b \in Seq(S), Len(a) = Len(b),
           ToSet(a) \subseteq ToSet(b)
    PROVE  ToSet(a) = ToSet(b)
<1>1. a \in Seq(S) /\ IsInjective(a)
  BY DEF Lists
<1>2. IsFiniteSet(ToSet(a)) /\ Cardinality(ToSet(a)) = Len(a)
  BY <1>1, CountToSet
<1>3. IsFiniteSet(ToSet(b)) /\ Cardinality(ToSet(b)) <= Len(b)
  BY CountToSet
<1>4. Cardinality(ToSet(a)) <= Cardinality(ToSet(b))
  BY <1>3, FS_Subset
<1>5. Cardinality(ToSet(a)) \in Nat /\ Cardinality(ToSet(b)) \in Nat
  BY <1>2, <1>3, FS_CardinalityType
<1>6. Cardinality(ToSet(b)) = Cardinality(ToSet(a))
  BY <1>2, <1>3, <1>4, <1>5
<1> QED BY <1>3, <1>6, FS_Subset

LEMMA SameElements ==
    ASSUME NEW S, NEW a \in Lists(S), NEW b \in Lists(S), ToSet(a) = ToSet(b)
    PROVE  Len(a) = Len(b)
BY CountToSet DEF Lists

LEMMA TopicsTyped ==
    ASSUME NEW v \in ASidpType
    PROVE  /\ TopicsOf(v) \in Seq(Topic)
           /\ Len(TopicsOf(v)) = 1 + 2 * Len(v.members)
<1> DEFINE n == Len(v.members)
           q == TopicsOf(v)
<1>1. v.type \in Topic /\ v.members \in Seq(Membership)
  BY DEF ASidpType
<1>2. n \in Nat /\ \A i \in 1..n : v.members[i] \in Membership
  BY <1>1
<1>3. \A i \in 1..n : v.members[i].role \in Topic /\ v.members[i].player \in Topic
  BY <1>2 DEF Membership
<1>4. q = [i \in 1..(1 + 2 * n) |->
             IF i = 1 THEN v.type
             ELSE IF i % 2 = 0 THEN v.members[i \div 2].role
             ELSE v.members[i \div 2].player]
  BY DEF TopicsOf
<1> HIDE DEF n, q
<1>5. \A i \in 1..(1 + 2 * n) : i = 1 \/ i \div 2 \in 1..n
  BY <1>2
<1>6. q \in [1..(1 + 2 * n) -> Topic]
  BY <1>1, <1>3, <1>4, <1>5 DEF n
<1>7. 1 + 2 * n \in Nat
  BY <1>2
<1>8. q \in Seq(Topic) /\ Len(q) = 1 + 2 * n
  BY <1>6, <1>7
<1> QED BY <1>8 DEF n, q

LEMMA StayTyped ==
    ASSUME NEW mergeSet \in Seq(Topic) \ {<<>>}
    PROVE  /\ Head(mergeSet) \in Topic
           /\ ToSet(Tail(mergeSet)) = {mergeSet[i] : i \in 2..Len(mergeSet)}
           /\ ToSet(mergeSet) = ToSet(Tail(mergeSet)) \cup {Head(mergeSet)}
           /\ mergeSet[1] = Head(mergeSet)
           /\ \A t \in Topic : Stay(mergeSet, t) \in Topic
<1> DEFINE n == Len(mergeSet)
           tail == Tail(mergeSet)
<1>1. n \in Nat /\ n >= 1 /\ DOMAIN mergeSet = 1..n /\ mergeSet \in Seq(Topic)
  OBVIOUS
<1>2. mergeSet[1] = Head(mergeSet) /\ mergeSet[1] \in Topic
  BY <1>1
<1>3. tail \in Seq(Topic) /\ Len(tail) = n - 1 /\ \A i \in 1..(n - 1) : tail[i] = mergeSet[i + 1]
  BY <1>1
<1> HIDE DEF tail, n
<1>4. ToSet(tail) = {mergeSet[i] : i \in 2..n}
  <2>1. DOMAIN tail = 1..(n - 1)
    BY <1>1, <1>3
  <2>2. \A i \in 1..(n - 1) : i + 1 \in 2..n
    BY <1>1
  <2>3. \A i \in 2..n : i - 1 \in 1..(n - 1) /\ (i - 1) + 1 = i
    BY <1>1
  <2>4. \A i \in 2..n : mergeSet[i] = tail[i - 1]
    BY <1>3, <2>3
  <2> QED BY <1>3, <2>1, <2>2, <2>3, <2>4 DEF ToSet
<1>5. ToSet(mergeSet) = ToSet(tail) \cup {mergeSet[1]}
  <2>1. \A i : i \in 1..n <=> i = 1 \/ i \in 2..n
    BY <1>1
  <2> QED BY <1>1, <1>4, <2>1 DEF ToSet
<1>6. \A t \in Topic : Stay(mergeSet, t) \in Topic
  BY <1>2 DEF Stay
<1> QED BY <1>2, <1>4, <1>5, <1>6 DEF tail, n

\* A topic set in which topics are replaced.
LEMMA ReplaceInSetKeeps ==
    ASSUME NEW set \in Lists(Topic), NEW mergeSet \in Seq(Topic) \ {<<>>}
    PROVE  /\ ReplaceInSet(set, mergeSet) \in Lists(Topic)
           /\ ReplaceAsserts(set, mergeSet) =>
                 ToSet(ReplaceInSet(set, mergeSet))
                    = {Stay(mergeSet, t) : t \in ToSet(set)}
<1> DEFINE n == Len(mergeSet)
           h == Head(mergeSet)
           tail == ToSet(Tail(mergeSet))
           gone == {i \in 2..n : SetContains(set, mergeSet[i])}
           new == ReplaceInSet(set, mergeSet)
<1>1. /\ h \in Topic /\ mergeSet[1] = h /\ tail = {mergeSet[i] : i \in 2..n}
      /\ ToSet(mergeSet) = tail \cup {h}
  BY StayTyped
<1>2. set \in Seq(Topic) /\ IsInjective(set) /\ n \in Nat
  BY DEF Lists
<1>3. \A t : SetContains(set, t) <=> t \in ToSet(set)
  BY <1>2, ContainsIsIn DEF SetContains
<1>4. \A t : Stay(mergeSet, t) = IF t \in tail THEN h ELSE t
  BY DEF Stay
<1>5. gone = {i \in 2..n : mergeSet[i] \in ToSet(set)}
  BY <1>3
<1>6. CASE gone = {}
  <2>1. new = set
    BY <1>6 DEF ReplaceInSet
  <2>2. tail \cap ToSet(set) = {}
    BY <1>1, <1>5, <1>6
  <2>3. \A t \in ToSet(set) : Stay(mergeSet, t) = t
    BY <1>4, <2>2
  <2> HIDE DEF tail, gone, new
  <2>4. {Stay(mergeSet, t) : t \in ToSet(set)} = ToSet(set)
    BY <2>3
  <2> QED BY <2>1, <2>4 DEF new
<1>7. CASE gone # {}
  <2> DEFINE i == Min(gone)
             x == mergeSet[i]
             less == RemoveFirst(set, x)
  <2>1. i \in gone
    <3>1. gone \in SUBSET (0..n)
      BY <1>2
    <3> HIDE DEF gone
    <3> QED BY <1>2, <1>7, <3>1, MinOfSome
  <2>2. i \in 2..n /\ x \in ToSet(set) /\ x \in tail
    BY <1>1, <1>5, <2>1
  <2>3. new = SetAdd(less, h)
    BY <1>1, <1>7 DEF ReplaceInSet, SetRemove
  <2> HIDE DEF i, x
  <2>4. less \in Seq(Topic) /\ IsInjective(less) /\ ToSet(less) = ToSet(set) \ {x}
    BY <1>2, RemoveTakesOut
  <2> HIDE DEF less, new, h, tail, gone
  <2>5. new \in Lists(Topic) /\ ToSet(new) = (ToSet(set) \ {x}) \cup {h}
    <3>1. SetContains(less, h) <=> h \in ToSet(less)
      BY <2>4, ContainsIsIn DEF SetContains
    <3>2. CASE h \in ToSet(less)
      <4>1. new = less
        BY <2>3, <3>1, <3>2 DEF SetAdd
      <4> QED BY <2>4, <3>2, <4>1 DEF Lists
    <3>3. CASE h \notin ToSet(less)
      <4>1. new = Append(less, h)
        BY <2>3, <3>1, <3>3 DEF SetAdd
      <4>2. /\ Append(less, h) \in Lists(Topic)
            /\ ToSet(Append(less, h)) = ToSet(less) \cup {h}
        BY <1>1, <2>4, <3>3, AppendIsLarger DEF Lists
      <4> QED BY <2>4, <4>1, <4>2
    <3> QED BY <3>2, <3>3
  <2>6. ASSUME ReplaceAsserts(set, mergeSet)
        PROVE  ToSet(new) = {Stay(mergeSet, t) : t \in ToSet(set)}
    <3> DEFINE both == ToSet(set) \cap ToSet(mergeSet)
    <3>1. x \in both /\ Cardinality(both) <= 1
      BY <1>1, <2>2, <2>6 DEF ReplaceAsserts, tail
    <3>2. both = {x}
      <4>1. IsFiniteSet(both)
        <5>1. IsFiniteSet(ToSet(mergeSet))
          BY CountToSet
        <5> QED BY <5>1, FS_Subset
      <4> HIDE DEF both
      <4>2. Cardinality(both) \in Nat
        BY <4>1, FS_CardinalityType
      <4>3. Cardinality(both) # 0
        BY <3>1, <4>1, FS_EmptySet
      <4>4. Cardinality(both) = 1
        BY <3>1, <4>2, <4>3
      <4>5. \E y : both = {y}
        BY <4>1, <4>4, FS_Singleton
      <4> QED BY <3>1, <4>5
    <3>3. \A t \in ToSet(set) : t \in tail => t = x
      BY <1>1, <3>2
    <3>4. \A t \in ToSet(set) : Stay(mergeSet, t) = IF t = x THEN h ELSE t
      BY <1>4, <2>2, <3>3 DEF h, tail
    <3> HIDE DEF both
    <3> QED BY <2>2, <2>5, <3>4
  <2> QED BY <2>5, <2>6 DEF new
<1> QED BY <1>6, <1>7

\* The roles of a list that rises are in order.
LEMMA RisingOrder ==
    ASSUME NEW q \in Seq(Membership), Rising(q)
    PROVE  \A i, j \in 1..Len(q) : i < j => q[i].role < q[j].role
<1> DEFINE n == Len(q)
<1>1. n \in Nat /\ \A i \in 1..n : q[i].role \in Nat
  <2>1. n \in Nat /\ \A i \in 1..n : q[i] \in Membership
    OBVIOUS
  <2> QED BY <2>1 DEF Membership, Topic
<1>2. ASSUME NEW i \in 1..n, NEW j \in 1..n, i < j PROVE q[i].role < q[j].role
  <2> DEFINE Good == {k \in 0..n : \A x \in 1..k : x < k => q[x].role < q[k].role}
  <2>1. 0 \in Good
    BY <1>1
  <2>2. ASSUME NEW k \in 1..n, k - 1 \in Good PROVE k \in Good
    <3> SUFFICES ASSUME NEW x \in 1..k, x < k PROVE q[x].role < q[k].role
      BY <1>1
    <3>1. k \in 2..n /\ k - 1 \in 1..n /\ x \in 1..(k - 1)
      BY <1>1
    <3>2. q[k].role > q[k - 1].role
      BY <3>1 DEF Rising
    <3>3. x < k - 1 => q[x].role < q[k - 1].role
      BY <2>2, <3>1
    <3>4. x = k - 1 \/ x < k - 1
      BY <3>1
    <3>5. q[x].role \in Nat /\ q[k].role \in Nat /\ q[k - 1].role \in Nat
      BY <1>1, <3>1
    <3> QED BY <3>2, <3>3, <3>4, <3>5
  <2> HIDE DEF Good
  <2>3. 0..n \subseteq Good
    BY <1>1, <2>1, <2>2, LoopInvariant
  <2>4. j \in Good
    BY <1>1, <2>3
  <2>5. \A x \in 1..j : x < j => q[x].role < q[j].role
    BY <2>4 DEF Good
  <2>6. i \in 1..j
    BY <1>2
  <2> QED BY <1>2, <2>5, <2>6
<1> QED BY <1>2

\* Members whose roles rise have different roles.
LEMMA RisingDiffers ==
    ASSUME NEW q \in Seq(Membership), Rising(q)
    PROVE  RolesDiffer(q)
<1> DEFINE n == Len(q)
<1>1. n \in Nat /\ \A i \in 1..n : q[i].role \in Nat
  <2>1. n \in Nat /\ \A i \in 1..n : q[i] \in Membership
    OBVIOUS
  <2> QED BY <2>1 DEF Membership, Topic
<1>2. \A i, j \in 1..n : i < j => q[i].role < q[j].role
  BY RisingOrder
<1>3. ASSUME NEW i \in 1..n, NEW j \in 1..n, q[i].role = q[j].role PROVE i = j
  <2>1. q[i].role \in Nat /\ q[j].role \in Nat
    BY <1>1
  <2>2. ~(i < j) /\ ~(j < i)
    BY <1>2, <1>3, <2>1
  <2> QED BY <2>2
<1> QED BY <1>3 DEF RolesDiffer

\* Two topics that become one are both in the merge set.
LEMMA StayClash ==
    ASSUME NEW mergeSet \in Seq(Topic) \ {<<>>}, NEW s, NEW t, s # t,
           Stay(mergeSet, s) = Stay(mergeSet, t)
    PROVE  s \in ToSet(mergeSet) /\ t \in ToSet(mergeSet)
<1>1. ToSet(mergeSet) = ToSet(Tail(mergeSet)) \cup {Head(mergeSet)}
  BY StayTyped
<1> QED BY <1>1 DEF Stay

LEMMA ReplaceInASidpKeeps ==
    ASSUME NEW v \in ASidpType, NEW mergeSet \in Seq(Topic) \ {<<>>}
    PROVE  LET new == ReplaceInASidp(v, mergeSet)
           IN  /\ new \in ASidpType
               /\ new.type = Stay(mergeSet, v.type)
               /\ ToSet(new.members)
                     = {ReplacedMember(m, mergeSet) : m \in ToSet(v.members)}
               /\ Rising(v.members) /\ ~Rising(new.members) =>
                     \E x, y \in ToSet(v.members) :
                        /\ x.role # y.role
                        /\ x.role \in ToSet(mergeSet) /\ y.role \in ToSet(mergeSet)
<1> DEFINE new == ReplaceInASidp(v, mergeSet)
           q == v.members
           n == Len(q)
           r == [i \in DOMAIN q |-> ReplacedMember(q[i], mergeSet)]
<1>1. v.type \in Topic /\ q \in Seq(Membership)
  BY DEF ASidpType
<1>2. n \in Nat /\ DOMAIN q = 1..n /\ \A i \in 1..n : q[i] \in Membership
  BY <1>1
<1>3. \A m \in Membership : ReplacedMember(m, mergeSet) \in Membership
  BY StayTyped DEF ReplacedMember, Membership
<1>4. r \in Seq(Membership) /\ Len(r) = n
  BY <1>2, <1>3
<1>5. ToSet(r) = {ReplacedMember(m, mergeSet) : m \in ToSet(q)}
  BY <1>2 DEF ToSet
<1>6. new = [type |-> Stay(mergeSet, v.type), members |-> Sorted(r)]
  BY DEF ReplaceInASidp
<1>11. \A i \in 1..n : r[i].role = Stay(mergeSet, q[i].role)
  BY <1>2 DEF ReplacedMember
<1> HIDE DEF r, q, n, new
<1>7. /\ Sorted(r) \in Seq(Membership) /\ ToSet(Sorted(r)) = ToSet(r)
      /\ RolesDiffer(r) => Rising(Sorted(r))
  BY <1>4, SortedSorts
<1>8. new \in ASidpType /\ new.type = Stay(mergeSet, v.type) /\ new.members = Sorted(r)
  <2>1. Stay(mergeSet, v.type) \in Topic
    BY <1>1, StayTyped
  <2> QED BY <1>6, <1>7, <2>1 DEF ASidpType
<1>9. ASSUME Rising(q), ~Rising(new.members)
      PROVE  \E x, y \in ToSet(q) : /\ x.role # y.role
                                    /\ x.role \in ToSet(mergeSet)
                                    /\ y.role \in ToSet(mergeSet)
  <2>1. ~RolesDiffer(r)
    BY <1>7, <1>8, <1>9
  <2>2. PICK i \in 1..n, j \in 1..n : r[i].role = r[j].role /\ i # j
    BY <1>4, <2>1 DEF RolesDiffer
  <2>3. RolesDiffer(q)
    BY <1>1, <1>9, RisingDiffers
  <2>4. q[i].role # q[j].role
    BY <2>2, <2>3 DEF RolesDiffer, n
  <2>5. Stay(mergeSet, q[i].role) = Stay(mergeSet, q[j].role)
    BY <1>11, <2>2
  <2>6. q[i].role \in ToSet(mergeSet) /\ q[j].role \in ToSet(mergeSet)
    BY <2>4, <2>5, StayClash
  <2>7. q[i] \in ToSet(q) /\ q[j] \in ToSet(q)
    BY <1>2 DEF ToSet
  <2> QED BY <2>4, <2>6, <2>7
<1> QED BY <1>5, <1>7, <1>8, <1>9 DEF new, q

\* Two elements of a finite set.
LEMMA TwoOfSome ==
    ASSUME NEW S, IsFiniteSet(S), NEW x \in S, NEW y \in S, x # y
    PROVE  Cardinality(S) > 1
<1>1. Cardinality(S) \in Nat
  BY FS_CardinalityType
<1>2. Cardinality(S) # 0
  BY FS_EmptySet
<1>3. Cardinality(S) # 1
  <2>1. ~ \E z : S = {z}
    OBVIOUS
  <2> QED BY <2>1, FS_Singleton
<1> QED BY <1>1, <1>2, <1>3

-----------------------------------------------------------------------------
(* What the tables say of the cells *)

LiveIn(n, cells) == {v \in 1..n : cells[v] # Free}

KeysOf(k, v) ==
    CASE k \in {"TopicSet", "SlowASidp"} -> {}
      [] k = "TextSet"  -> ToSet(v)
      [] OTHER          -> {v}

AllKeys(k) == UNION {KeysOf(k, v) : v \in ValuesOf(k)}

CellsOk(k, n, length, cells) ==
    /\ k \in Kinds
    /\ n \in Number
    /\ length \in Nat /\ n < length
    /\ DOMAIN cells = 1..(length - 1)
    /\ \A v \in LiveIn(n, cells) : cells[v] \in ValuesOf(k)

\* Every key of a live value leads to it, and nothing else is in the table.
TableOk(k, tab, live, cells) ==
    /\ tab \in Tables(AllKeys(k))
    /\ \A x \in DOMAIN tab : tab[x] \in live /\ x \in KeysOf(k, cells[tab[x]])
    /\ \A v \in live : \A x \in KeysOf(k, cells[v]) : x \in DOMAIN tab /\ tab[x] = v

LEMMA PutOk ==
    ASSUME NEW k, NEW tab, NEW live, NEW cells, TableOk(k, tab, live, cells),
           NEW w, w \notin live, NEW v, KeysOf(k, v) \cap DOMAIN tab = {},
           NEW new \in Tables(AllKeys(k)), HasPut(new, tab, KeysOf(k, v), w),
           NEW cells2, cells2[w] = v, \A u \in live : cells2[u] = cells[u]
    PROVE  TableOk(k, new, live \cup {w}, cells2)
<1>1. \A x \in DOMAIN tab : tab[x] \in live /\ x \in KeysOf(k, cells[tab[x]])
  BY DEF TableOk
<1>2. \A u \in live : \A x \in KeysOf(k, cells[u]) : x \in DOMAIN tab /\ tab[x] = u
  BY DEF TableOk
<1>3. ASSUME NEW x \in DOMAIN new
      PROVE  new[x] \in live \cup {w} /\ x \in KeysOf(k, cells2[new[x]])
  <2>1. CASE x \in KeysOf(k, v)
    BY <2>1 DEF HasPut
  <2>2. CASE x \notin KeysOf(k, v)
    <3>1. x \in DOMAIN tab /\ new[x] = tab[x]
      BY <2>2 DEF HasPut
    <3>2. tab[x] \in live /\ x \in KeysOf(k, cells[tab[x]])
      BY <1>1, <3>1
    <3>3. cells2[tab[x]] = cells[tab[x]]
      BY <3>2
    <3> QED BY <3>1, <3>2, <3>3
  <2> QED BY <2>1, <2>2
<1>4. ASSUME NEW u \in live \cup {w}, NEW x \in KeysOf(k, cells2[u])
      PROVE  x \in DOMAIN new /\ new[x] = u
  <2>1. CASE u = w
    BY <2>1, <1>4 DEF HasPut
  <2>2. CASE u # w
    <3>1. u \in live /\ cells2[u] = cells[u]
      BY <2>2
    <3>2. x \in DOMAIN tab /\ tab[x] = u
      BY <1>2, <1>4, <3>1
    <3>3. x \notin KeysOf(k, v)
      BY <3>2
    <3> QED BY <3>2, <3>3 DEF HasPut
  <2> QED BY <2>1, <2>2
<1> QED BY <1>3, <1>4 DEF TableOk

LEMMA TakeOk ==
    ASSUME NEW k, NEW tab, NEW live, NEW cells, TableOk(k, tab, live, cells),
           NEW gone, gone \subseteq live,
           NEW new \in Tables(AllKeys(k)),
           HasTaken(new, tab, UNION {KeysOf(k, cells[v]) : v \in gone}),
           NEW cells2, \A u \in live \ gone : cells2[u] = cells[u]
    PROVE  TableOk(k, new, live \ gone, cells2)
<1> DEFINE keys == UNION {KeysOf(k, cells[v]) : v \in gone}
<1>1. \A x \in DOMAIN tab : tab[x] \in live /\ x \in KeysOf(k, cells[tab[x]])
  BY DEF TableOk
<1>2. \A u \in live : \A x \in KeysOf(k, cells[u]) : x \in DOMAIN tab /\ tab[x] = u
  BY DEF TableOk
<1>3. ASSUME NEW x \in DOMAIN new
      PROVE  new[x] \in live \ gone /\ x \in KeysOf(k, cells2[new[x]])
  <2>1. x \in DOMAIN tab /\ new[x] = tab[x] /\ x \notin keys
    BY DEF HasTaken
  <2>2. tab[x] \in live /\ x \in KeysOf(k, cells[tab[x]])
    BY <1>1, <2>1
  <2>3. tab[x] \notin gone
    BY <2>1, <2>2
  <2>4. cells2[tab[x]] = cells[tab[x]]
    BY <2>2, <2>3
  <2> QED BY <2>1, <2>2, <2>3, <2>4
<1>4. ASSUME NEW u \in live \ gone, NEW x \in KeysOf(k, cells2[u])
      PROVE  x \in DOMAIN new /\ new[x] = u
  <2>1. x \in KeysOf(k, cells[u])
    BY <1>4
  <2>2. x \in DOMAIN tab /\ tab[x] = u
    BY <1>2, <2>1
  <2>3. x \notin keys
    <3> SUFFICES ASSUME NEW v \in gone, x \in KeysOf(k, cells[v]) PROVE FALSE
      OBVIOUS
    <3>1. tab[x] = v
      BY <1>2
    <3> QED BY <2>2, <3>1
  <2> QED BY <2>2, <2>3 DEF HasTaken
<1> QED BY <1>3, <1>4 DEF TableOk

\* The vids of the values that hold a topic, and where they hold it.
Holders(live, cells) ==
    [t \in Topic |-> {v \in live : t \in ToSet(TopicsOf(cells[v]))}]

Places(live, cells) ==
    [t \in Topic |->
        UNION {At(v, TopicsOf(cells[v]), t, Len(TopicsOf(cells[v]))) : v \in live}]

IndexOk(idx, live, cells) == IndexFits(idx, Holders(live, cells), Places(live, cells))

LEMMA AtIsPlace ==
    ASSUME NEW v, NEW array, NEW t, NEW k, NEW o \in At(v, array, t, k)
    PROVE  o[1] = v
BY DEF At

LEMMA IndexPutOk ==
    ASSUME NEW idx, NEW live, live \subseteq Number, NEW cells, IndexOk(idx, live, cells),
           NEW w \in Number, w \notin live, NEW v \in ASidpType,
           NEW cells2, cells2[w] = v, \A u \in live : cells2[u] = cells[u]
    PROVE  IndexOk(InsertedIn(idx, w, TopicsOf(v)), live \cup {w}, cells2)
<1> DEFINE array == TopicsOf(v)
           n == Len(array)
           H == Holders(live, cells)
           O == Places(live, cells)
<1>1. array \in Seq(Topic) /\ n \in Nat /\ DOMAIN array = 1..n
  BY TopicsTyped
<1>2. H \in [Topic -> SUBSET Number] /\ DOMAIN O = Topic /\ O = [t \in Topic |-> O[t]]
  BY DEF Holders, Places
<1>3. \A t \in Topic, k \in 1..n : <<w, k>> \notin O[t]
  <2> SUFFICES ASSUME NEW t \in Topic, NEW k \in 1..n, <<w, k>> \in O[t] PROVE FALSE
    OBVIOUS
  <2>1. PICK u \in live : <<w, k>> \in At(u, TopicsOf(cells[u]), t, Len(TopicsOf(cells[u])))
    BY DEF Places
  <2>2. <<w, k>>[1] = u
    BY <2>1, AtIsPlace
  <2> QED BY <2>2
<1>4. ToSet(array) = First(array, n)
  BY <1>1, FirstGrows
<1>5. VidsWith(H, w, array, n) = Holders(live \cup {w}, cells2)
  <2>1. \A t \in Topic :
           (IF t \in First(array, n) THEN H[t] \cup {w} ELSE H[t])
              = {u \in live \cup {w} : t \in ToSet(TopicsOf(cells2[u]))}
    <3> TAKE t \in Topic
    <3>1. H[t] = {u \in live : t \in ToSet(TopicsOf(cells2[u]))}
      BY DEF Holders
    <3>2. t \in First(array, n) <=> t \in ToSet(TopicsOf(cells2[w]))
      BY <1>4
    <3> HIDE DEF H, array
    <3> QED BY <3>1, <3>2
  <2> QED BY <2>1 DEF VidsWith, Holders
<1>6. OccWith(O, w, array, n) = Places(live \cup {w}, cells2)
  <2> DEFINE P(u, t) == At(u, TopicsOf(cells2[u]), t, Len(TopicsOf(cells2[u])))
  <2>1. \A t \in Topic : O[t] \cup At(w, array, t, n) = UNION {P(u, t) : u \in live \cup {w}}
    <3> TAKE t \in Topic
    <3>1. O[t] = UNION {P(u, t) : u \in live}
      BY DEF Places
    <3>2. At(w, array, t, n) = P(w, t)
      OBVIOUS
    <3> HIDE DEF P, O, array, n
    <3> QED BY <3>1, <3>2
  <2> QED BY <2>1 DEF OccWith, Places
<1> HIDE DEF array, n, H, O
<1>7. IndexFits(idx, H, O)
  BY DEF IndexOk, H, O
<1>8. IndexFits(InsertedIn(idx, w, array), VidsWith(H, w, array, n), OccWith(O, w, array, n))
  BY <1>1, <1>2, <1>3, <1>7, InsertedFits DEF n
<1> QED BY <1>5, <1>6, <1>8 DEF IndexOk, array

LEMMA IndexTakeOk ==
    ASSUME NEW idx, NEW live, live \subseteq Number, NEW cells, IndexOk(idx, live, cells),
           NEW w \in live, cells[w] \in ASidpType,
           NEW cells2, \A u \in live \ {w} : cells2[u] = cells[u]
    PROVE  IndexOk(RemovedFrom(idx, w, TopicsOf(cells[w])), live \ {w}, cells2)
<1> DEFINE array == TopicsOf(cells[w])
           n == Len(array)
           H == Holders(live, cells)
           O == Places(live, cells)
<1>1. array \in Seq(Topic) /\ n \in Nat /\ DOMAIN array = 1..n
  BY TopicsTyped
<1>2. H \in [Topic -> SUBSET Number] /\ DOMAIN O = Topic /\ O = [t \in Topic |-> O[t]]
  BY DEF Holders, Places
<1>3. \A t \in Topic : At(w, array, t, n) \subseteq O[t]
  BY DEF Places
<1>4. ToSet(array) = First(array, n)
  BY <1>1, FirstGrows
<1>5. VidsWithout(H, w, array, n) = Holders(live \ {w}, cells2)
  <2>1. \A t \in Topic :
           (IF t \in First(array, n) THEN H[t] \ {w} ELSE H[t])
              = {u \in live \ {w} : t \in ToSet(TopicsOf(cells2[u]))}
    <3> TAKE t \in Topic
    <3>1. H[t] = {u \in live : t \in ToSet(TopicsOf(cells[u]))}
      BY DEF Holders
    <3>2. t \in First(array, n) <=> t \in ToSet(TopicsOf(cells[w]))
      BY <1>4
    <3>3. \A u \in live \ {w} : TopicsOf(cells2[u]) = TopicsOf(cells[u])
      OBVIOUS
    <3> HIDE DEF H, array
    <3> QED BY <3>1, <3>2, <3>3
  <2> QED BY <2>1 DEF VidsWithout, Holders
<1>6. OccWithout(O, w, array, n) = Places(live \ {w}, cells2)
  <2> DEFINE P(u, t) == At(u, TopicsOf(cells[u]), t, Len(TopicsOf(cells[u])))
             Q(u, t) == At(u, TopicsOf(cells2[u]), t, Len(TopicsOf(cells2[u])))
  <2>1. \A t \in Topic : O[t] \ At(w, array, t, n) = UNION {Q(u, t) : u \in live \ {w}}
    <3> TAKE t \in Topic
    <3>1. O[t] = UNION {P(u, t) : u \in live}
      BY DEF Places
    <3>2. At(w, array, t, n) = P(w, t)
      OBVIOUS
    <3>3. \A u \in live \ {w} : Q(u, t) = P(u, t)
      OBVIOUS
    <3>4. \A u \in live : \A o \in P(u, t) : o[1] = u
      BY AtIsPlace
    <3> HIDE DEF P, Q, O, array, n
    <3> QED BY <3>1, <3>2, <3>3, <3>4
  <2> QED BY <2>1 DEF OccWithout, Places
<1> HIDE DEF array, n, H, O
<1>7. IndexFits(idx, H, O)
  BY DEF IndexOk, H, O
<1>8. IndexFits(RemovedFrom(idx, w, array), VidsWithout(H, w, array, n),
                OccWithout(O, w, array, n))
  BY <1>1, <1>2, <1>3, <1>7, RemovedFromFits DEF n
<1> QED BY <1>5, <1>6, <1>8 DEF IndexOk, array

-----------------------------------------------------------------------------
(* The calls that change the store *)

StoreOk ==
    /\ CellsOk(kind, count, size, cell)
    /\ TableOk(kind, table, Live, cell)
    /\ kind = "ASidp" => IndexOk(index, Live, cell)

LEMMA LiveIs == Live = LiveIn(count, cell)
BY DEF Live, LiveIn, Vids

LEMMA KeysIs == ASSUME NEW v PROVE Keys(v) = KeysOf(kind, v)
BY DEF Keys, KeysOf

\* What a new cell is.
HasNewCell(cells, v) ==
    /\ count' = count + 1 /\ count' \in Number /\ count' <= MaxVid /\ answer' = count'
    /\ CellsOk(kind, count', size', cell')
    /\ LiveIn(count', cell') = LiveIn(count, cells) \cup {count'}
    /\ count' \notin LiveIn(count, cells)
    /\ cell'[count'] = v
    /\ \A u \in 1..count : cell'[u] = cells[u]

LEMMA NewCellIs ==
    ASSUME NEW cells, CellsOk(kind, count, size, cells),
           NEW v \in ValuesOf(kind), NewCellIn(cells, v)
    PROVE  HasNewCell(cells, v)
<1>1. /\ kind \in Kinds /\ count \in Nat /\ size \in Nat /\ count < size
      /\ \A u \in LiveIn(count, cells) : cells[u] \in ValuesOf(kind)
  BY DEF CellsOk, Number
<1>2. /\ count < MaxVid
      /\ count' = count + 1
      /\ size' = IF count' >= size THEN 2 * size ELSE size
      /\ cell' = [w \in 1..(size' - 1) |->
                     IF w = count' THEN v ELSE IF w < count' THEN cells[w] ELSE Free]
      /\ answer' = count'
  BY DEF NewCellIn
<1>3. v # Free
  BY <1>1, CallersAssumption
<1>4. count' \in Nat /\ count' <= MaxVid /\ size' \in Nat /\ count' < size'
  BY <1>1, <1>2, ValueStoresAssumption
<1>5. 1..count' \subseteq 1..(size' - 1) /\ \A u : u \in 1..count' <=> u = count' \/ u \in 1..count
  BY <1>1, <1>2, <1>4
<1>6. DOMAIN cell' = 1..(size' - 1)
  BY <1>2
<1>7. cell'[count'] = v
  BY <1>1, <1>2, <1>5
<1>8. ASSUME NEW u \in 1..count PROVE cell'[u] = cells[u]
  <2>1. u \in 1..(size' - 1) /\ u < count' /\ u # count'
    BY <1>1, <1>2, <1>5
  <2> QED BY <1>2, <2>1
<1>9. LiveIn(count', cell') = LiveIn(count, cells) \cup {count'}
  BY <1>3, <1>5, <1>7, <1>8 DEF LiveIn
<1>10. \A u \in LiveIn(count', cell') : cell'[u] \in ValuesOf(kind)
  <2> SUFFICES ASSUME NEW u \in LiveIn(count', cell') PROVE cell'[u] \in ValuesOf(kind)
    OBVIOUS
  <2>1. CASE u = count'
    BY <1>7, <2>1
  <2>2. CASE u # count'
    <3>1. u \in LiveIn(count, cells) /\ u \in 1..count
      BY <1>9, <2>2 DEF LiveIn
    <3> QED BY <1>1, <1>8, <3>1
  <2> QED BY <2>1, <2>2
<1>11. count' \notin LiveIn(count, cells)
  BY <1>1, <1>2 DEF LiveIn
<1>12. CellsOk(kind, count', size', cell')
  BY <1>1, <1>4, <1>6, <1>10 DEF CellsOk, Number
<1> QED BY <1>2, <1>4, <1>7, <1>8, <1>9, <1>11, <1>12 DEF HasNewCell, Number

\* A value that a table does not have is in the table after it was put.
LEMMA TablePutOk ==
    ASSUME NEW tab, NEW live, NEW cells, TableOk(kind, tab, live, cells),
           kind \in {"Text", "Integer", "ASidp"},
           NEW w \in Number, w \notin live, NEW v \in ValuesOf(kind), v \notin DOMAIN tab,
           NEW cells2, cells2[w] = v, \A u \in live : cells2[u] = cells[u]
    PROVE  TableOk(kind, TablePut(tab, v, w), live \cup {w}, cells2)
<1> DEFINE new == TablePut(tab, v, w)
<1>1. KeysOf(kind, v) = {v}
  BY DEF KeysOf
<1>2. tab \in Tables(AllKeys(kind)) /\ v \in AllKeys(kind)
  BY <1>1 DEF TableOk, AllKeys
<1>3. new \in Tables(AllKeys(kind)) /\ IsPut(new, tab, v, w)
  BY <1>2, PutIs
<1> HIDE DEF new
<1>4. HasPut(new, tab, KeysOf(kind, v), w)
  BY <1>1, <1>3 DEF IsPut, HasPut
<1>5. KeysOf(kind, v) \cap DOMAIN tab = {}
  BY <1>1
<1>6. TableOk(kind, new, live \cup {w}, cells2)
  BY <1>3, <1>4, <1>5, PutOk
<1> QED BY <1>6 DEF new

\* Nor does a table change for a value without keys.
LEMMA TableKeepOk ==
    ASSUME NEW tab, NEW live, NEW cells, TableOk(kind, tab, live, cells),
           kind \in {"TopicSet", "SlowASidp"},
           NEW live2, NEW cells2
    PROVE  TableOk(kind, tab, live2, cells2)
<1>1. \A v : KeysOf(kind, v) = {}
  BY DEF KeysOf
<1>2. DOMAIN tab = {}
  BY <1>1 DEF TableOk
<1> QED BY <1>1, <1>2 DEF TableOk

\* What has been created.
HasCreated(v) ==
    /\ HasNewCell(cell, v)
    /\ StoreOk'

LEMMA CreateOk ==
    ASSUME StoreOk, kind' = kind, kind # "TextSet",
           NEW v \in ValuesOf(kind), Create(v),
           kind \in {"Text", "Integer", "ASidp"} => v \notin DOMAIN table
    PROVE  HasCreated(v)
<1>1. /\ CellsOk(kind, count, size, cell) /\ TableOk(kind, table, Live, cell)
      /\ kind = "ASidp" => IndexOk(index, Live, cell)
  BY DEF StoreOk
<1>2. kind \in {"Text", "Integer", "TopicSet", "ASidp", "SlowASidp"}
  BY <1>1 DEF CellsOk, Kinds
<1>3. /\ NewCellIn(cell, v)
      /\ kind \in {"Text", "Integer", "ASidp"} => table' = TablePut(table, v, count')
      /\ kind \in {"TopicSet", "SlowASidp"} => table' = table
      /\ kind = "ASidp" => index' = InsertedIn(index, count', TopicsOf(v))
  BY <1>2 DEF Create, CreateText, CreateInteger, CreateTopicSet, CreateASidp,
              CreateSlowASidp, NewCell
<1>4. HasNewCell(cell, v)
  BY <1>1, <1>3, NewCellIs
<1> DEFINE w == count'
           live == LiveIn(count, cell)
           live2 == LiveIn(count', cell')
<1>5. /\ w \in Number /\ w \notin live /\ live2 = live \cup {w} /\ cell'[w] = v
      /\ \A u \in live : cell'[u] = cell[u]
  BY <1>4 DEF HasNewCell, LiveIn
<1>6. Live = live /\ Live' = live2
  BY LiveIs DEF Live, LiveIn, Vids
<1>7. live \subseteq Number
  BY <1>1 DEF LiveIn, CellsOk, Number
<1> HIDE DEF live, live2, w
<1>8. TableOk(kind, table', live2, cell')
  <2>1. CASE kind \in {"Text", "Integer", "ASidp"}
    <3>1. v \notin DOMAIN table
      BY <2>1
    <3>2. TableOk(kind, TablePut(table, v, w), live \cup {w}, cell')
      BY <1>1, <1>5, <1>6, <2>1, <3>1, TablePutOk
    <3> QED BY <1>3, <1>5, <2>1, <3>2 DEF w
  <2>2. CASE kind \in {"TopicSet", "SlowASidp"}
    BY <1>1, <1>3, <2>2, TableKeepOk
  <2> QED BY <1>2, <2>1, <2>2
<1>9. ASSUME kind = "ASidp" PROVE IndexOk(index', live2, cell')
  <2>1. v \in ASidpType
    BY <1>9 DEF ValuesOf
  <2>2. IndexOk(index, live, cell)
    BY <1>1, <1>6, <1>9
  <2>3. IndexOk(InsertedIn(index, w, TopicsOf(v)), live \cup {w}, cell')
    BY <1>5, <1>7, <2>1, <2>2, IndexPutOk
  <2> QED BY <1>3, <1>5, <1>9, <2>3 DEF w
<1>10. CellsOk(kind, count', size', cell')
  BY <1>4 DEF HasNewCell
<1> QED BY <1>4, <1>6, <1>8, <1>9, <1>10 DEF HasCreated, StoreOk

\* A list whose elements are in S is a list over S.
LEMMA SeqOver ==
    ASSUME NEW T, NEW q \in Seq(T), NEW S, ToSet(q) \subseteq S
    PROVE  q \in Seq(S)
<1>1. Len(q) \in Nat /\ DOMAIN q = 1..Len(q) /\ q = [i \in 1..Len(q) |-> q[i]]
  OBVIOUS
<1>2. \A i \in 1..Len(q) : q[i] \in S
  BY <1>1 DEF ToSet
<1>3. q \in [1..Len(q) -> S]
  BY <1>1, <1>2
<1> QED BY <1>1, <1>3

\* A set of texts and its keys.
LEMMA TextsAre ==
    ASSUME kind = "TextSet", NEW v \in ValuesOf(kind)
    PROVE  /\ v \in Lists(Seq(Char)) /\ v # <<>>
           /\ KeysOf(kind, v) = ToSet(v)
           /\ v \in Seq(AllKeys(kind))
<1>1. v \in Seq(Seq(Char)) /\ v # <<>> /\ IsInjective(v)
  BY DEF ValuesOf
<1>2. KeysOf(kind, v) = ToSet(v)
  BY DEF KeysOf
<1>3. ToSet(v) \subseteq AllKeys(kind)
  BY <1>2 DEF AllKeys
<1>4. v \in Seq(AllKeys(kind))
  BY <1>1, <1>3, SeqOver
<1> QED BY <1>1, <1>2, <1>4 DEF Lists

\* What has been deleted.
HasDeleted(v) ==
    /\ StoreOk'
    /\ Live' = Live \ {v}
    /\ \A u \in Live \ {v} : cell'[u] = cell[u]

LEMMA DeleteOk ==
    ASSUME StoreOk, NEW v \in Live, Delete(v)
    PROVE  HasDeleted(v)
<1>1. /\ CellsOk(kind, count, size, cell) /\ TableOk(kind, table, Live, cell)
      /\ kind = "ASidp" => IndexOk(index, Live, cell)
  BY DEF StoreOk
<1>2. kind \in {"Text", "Integer", "TopicSet", "TextSet", "ASidp", "SlowASidp"}
  BY <1>1 DEF CellsOk, Kinds
<1>3. /\ cell' = [cell EXCEPT ![v] = Free] /\ kind' = kind /\ count' = count /\ size' = size
      /\ kind \in {"Text", "Integer", "ASidp"} => table' = TableRemove(table, cell[v])
      /\ kind \in {"TopicSet", "SlowASidp"} => table' = table
      /\ kind = "TextSet" => table' = RemoveTexts(table, cell[v])
      /\ kind = "ASidp" => index' = RemovedFrom(index, v, TopicsOf(cell[v]))
  BY <1>2 DEF Delete, DeleteText, DeleteInteger, DeleteTopicSet, DeleteTextSet,
              DeleteASidp, DeleteSlowASidp
<1>4. /\ count \in Nat /\ size \in Nat /\ count < size /\ DOMAIN cell = 1..(size - 1)
      /\ v \in 1..count /\ 1..count \subseteq 1..(size - 1)
  BY <1>1 DEF CellsOk, Number, Live, Vids
<1>5. cell'[v] = Free /\ \A u \in 1..count \ {v} : cell'[u] = cell[u]
  BY <1>3, <1>4
<1>6. Live' = Live \ {v} /\ \A u \in Live \ {v} : cell'[u] = cell[u]
  BY <1>3, <1>5 DEF Live, Vids
<1>7. cell[v] \in ValuesOf(kind)
  BY <1>1, LiveIs DEF CellsOk
<1>8. CellsOk(kind, count', size', cell')
  <2>1. DOMAIN cell' = DOMAIN cell
    BY <1>3
  <2>2. \A u \in LiveIn(count', cell') : cell'[u] \in ValuesOf(kind)
    <3>1. LiveIn(count', cell') = Live \ {v}
      BY <1>6 DEF Live, LiveIn, Vids
    <3>2. \A u \in Live : cell[u] \in ValuesOf(kind)
      BY <1>1, LiveIs DEF CellsOk
    <3> QED BY <1>6, <3>1, <3>2
  <2> QED BY <1>1, <1>3, <2>1, <2>2 DEF CellsOk
<1> DEFINE keys == UNION {KeysOf(kind, cell[u]) : u \in {v}}
<1>9. keys = KeysOf(kind, cell[v])
  OBVIOUS
<1>10. table \in Tables(AllKeys(kind))
  BY <1>1 DEF TableOk
<1>11. table' \in Tables(AllKeys(kind)) /\ HasTaken(table', table, keys)
  <2>1. CASE kind \in {"Text", "Integer", "ASidp"}
    <3>1. KeysOf(kind, cell[v]) = {cell[v]}
      BY <2>1 DEF KeysOf
    <3>2. /\ TableRemove(table, cell[v]) \in Tables(AllKeys(kind))
          /\ HasTaken(TableRemove(table, cell[v]), table, {cell[v]})
      BY <1>10, RemoveIs
    <3>3. table' = TableRemove(table, cell[v])
      BY <1>3, <2>1
    <3> QED BY <1>9, <3>1, <3>2, <3>3
  <2>2. CASE kind \in {"TopicSet", "SlowASidp"}
    <3>1. KeysOf(kind, cell[v]) = {}
      BY <2>2 DEF KeysOf
    <3> QED BY <1>3, <1>9, <1>10, <2>2, <3>1 DEF HasTaken
  <2>3. CASE kind = "TextSet"
    <3>1. cell[v] \in Seq(AllKeys(kind)) /\ KeysOf(kind, cell[v]) = ToSet(cell[v])
      BY <1>7, <2>3, TextsAre
    <3>2. /\ RemoveTexts(table, cell[v]) \in Tables(AllKeys(kind))
          /\ HasTaken(RemoveTexts(table, cell[v]), table, ToSet(cell[v]))
      BY <1>10, <3>1, RemoveTextsRemoves
    <3>3. table' = RemoveTexts(table, cell[v])
      BY <1>3, <2>3
    <3> QED BY <1>9, <3>1, <3>2, <3>3
  <2> QED BY <1>2, <2>1, <2>2, <2>3
<1>12. TableOk(kind, table', Live \ {v}, cell')
  <2>1. {v} \subseteq Live
    OBVIOUS
  <2> QED BY <1>1, <1>6, <1>11, <2>1, TakeOk
<1>13. ASSUME kind = "ASidp" PROVE IndexOk(index', Live \ {v}, cell')
  <2>1. cell[v] \in ASidpType
    BY <1>7, <1>13 DEF ValuesOf
  <2>2. Live \subseteq Number
    BY <1>4 DEF Live, Vids, Number
  <2>3. IndexOk(RemovedFrom(index, v, TopicsOf(cell[v])), Live \ {v}, cell')
    BY <1>1, <1>6, <1>13, <2>1, <2>2, IndexTakeOk
  <2> QED BY <1>3, <1>13, <2>3
<1>14. StoreOk'
  <2>1. TableOk(kind', table', Live', cell')
    BY <1>3, <1>6, <1>12
  <2>2. kind' = "ASidp" => IndexOk(index', Live', cell')
    BY <1>3, <1>6, <1>13
  <2>3. CellsOk(kind', count', size', cell')
    BY <1>3, <1>8
  <2> QED BY <2>1, <2>2, <2>3 DEF StoreOk
<1> QED BY <1>6, <1>14 DEF HasDeleted

\* The sets a set meets, what comes together, and what is left in the table.
LEMMA MetAre ==
    ASSUME StoreOk, kind = "TextSet", NEW v \in ValuesOf(kind)
    PROVE  Enumerates(Met(v), Live, Led(ToSet(v))) /\ Led(ToSet(v)) \subseteq Live
<1>1. \A x \in DOMAIN table : table[x] \in Live
  BY DEF StoreOk, TableOk
<1>2. 0 \notin Live
  BY DEF Live, Vids, StoreOk, CellsOk
<1>3. v \in Seq(Seq(Char))
  BY TextsAre DEF Lists
<1>4. Enumerates(Met(v), Live, Led(ToSet(v)))
  BY <1>1, <1>2, <1>3, MetFinds
<1> QED BY <1>1, <1>4 DEF Led

LEMMA GetValueIs ==
    ASSUME StoreOk, kind = "TextSet", NEW w \in Live
    PROVE  Enumerates(GetValue(w), Seq(Char), ToSet(cell[w]))
<1>1. cell[w] \in Lists(Seq(Char))
  BY TextsAre, LiveIs DEF StoreOk, CellsOk
<1> QED BY <1>1, CopyEnumerates DEF GetValue

LEMMA JoinedAre ==
    ASSUME StoreOk, kind = "TextSet", NEW v \in ValuesOf(kind)
    PROVE  Enumerates(Joined(v, Met(v)), Seq(Char),
                      ToSet(v) \cup TextsOf(Led(ToSet(v))))
<1> DEFINE vids == Met(v)
           gone == Led(ToSet(v))
<1>1. vids \in Seq(Live) /\ ToSet(vids) = gone /\ gone \subseteq Live
  BY MetAre DEF Enumerates, Lists
<1>2. v \in Lists(Seq(Char))
  BY TextsAre
<1>3. \A w \in Live : GetValue(w) \in Seq(Seq(Char)) /\ ToSet(GetValue(w)) = ToSet(cell[w])
  BY GetValueIs DEF Enumerates, Lists
<1> HIDE DEF vids, gone
<1>4. Enumerates(Joined(v, vids), Seq(Char),
                 ToSet(v) \cup UNION {ToSet(GetValue(w)) : w \in ToSet(vids)})
  BY <1>1, <1>2, <1>3, JoinedJoins
<1>5. UNION {ToSet(GetValue(w)) : w \in ToSet(vids)} = TextsOf(gone)
  BY <1>1, <1>3 DEF TextsOf
<1> QED BY <1>4, <1>5 DEF vids, gone

LEMMA RestIs ==
    ASSUME StoreOk, kind = "TextSet", NEW v \in ValuesOf(kind)
    PROVE  /\ Removed(table, Met(v)) \in Tables(AllKeys(kind))
           /\ HasTaken(Removed(table, Met(v)), table, TextsOf(Led(ToSet(v))))
<1> DEFINE vids == Met(v)
           gone == Led(ToSet(v))
           new == Removed(table, vids)
<1>1. vids \in Seq(Live) /\ ToSet(vids) = gone
  BY MetAre DEF Enumerates, Lists
<1>2. table \in Tables(AllKeys(kind))
  BY DEF StoreOk, TableOk
<1>3. \A w \in Live : cell[w] \in Seq(AllKeys(kind))
  BY TextsAre, LiveIs DEF StoreOk, CellsOk
<1> HIDE DEF vids, gone
<1>4. /\ new \in Tables(AllKeys(kind))
      /\ HasTaken(new, table, TextsOf(ToSet(vids)))
  BY <1>1, <1>2, <1>3, RemovedRemoves
<1> HIDE DEF new
<1>5. HasTaken(new, table, TextsOf(gone))
  BY <1>1, <1>4
<1> QED BY <1>4, <1>5 DEF new, vids, gone

\* The cells when the sets that a set meets are deleted.
CellsWithout(v) ==
    [w \in DOMAIN cell |-> IF Contains(Met(v), w) THEN Free ELSE cell[w]]

\* Two ways to combine: a set that is all it meets is found, any other one is
\* created with what it meets.
HasFoundSame(v) ==
    /\ Head(Met(v)) \in Live /\ Led(ToSet(v)) = {Head(Met(v))}
    /\ ToSet(cell[Head(Met(v))]) = ToSet(v)
    /\ answer' = Head(Met(v))
    /\ UNCHANGED store

HasJoined(v) ==
    /\ ~ \E w \in Live : Led(ToSet(v)) = {w} /\ ToSet(cell[w]) = ToSet(v)
    /\ HasNewCell(CellsWithout(v), Joined(v, Met(v)))
    /\ LiveIn(count, CellsWithout(v)) = Live \ Led(ToSet(v))
    /\ \A u \in Live \ Led(ToSet(v)) : CellsWithout(v)[u] = cell[u]
    /\ StoreOk'

\* The test that a set is all it meets.
LEMMA SameIs ==
    ASSUME StoreOk, kind = "TextSet", NEW v \in ValuesOf(kind)
    PROVE  /\ Len(Met(v)) = 1 /\ TextSetEqual(v, GetValue(Head(Met(v))))
                 => /\ Head(Met(v)) \in Live /\ Led(ToSet(v)) = {Head(Met(v))}
                    /\ ToSet(cell[Head(Met(v))]) = ToSet(v)
           /\ (\E w \in Live : Led(ToSet(v)) = {w} /\ ToSet(cell[w]) = ToSet(v))
                 => Len(Met(v)) = 1 /\ TextSetEqual(v, GetValue(Head(Met(v))))
<1> DEFINE vids == Met(v)
           gone == Led(ToSet(v))
           h == Head(vids)
<1>1. vids \in Seq(Live) /\ IsInjective(vids) /\ ToSet(vids) = gone
  BY MetAre DEF Enumerates, Lists
<1>2. v \in Seq(Seq(Char))
  BY TextsAre DEF Lists
<1>3. \A w \in Live : GetValue(w) \in Seq(Seq(Char)) /\ ToSet(GetValue(w)) = ToSet(cell[w])
  BY GetValueIs DEF Enumerates, Lists
<1>4. \A w \in Live : TextSetEqual(v, GetValue(w)) <=> ToSet(cell[w]) = ToSet(v)
  <2> SUFFICES ASSUME NEW w \in Live
               PROVE  TextSetEqual(v, GetValue(w)) <=> ToSet(cell[w]) = ToSet(v)
    OBVIOUS
  <2> DEFINE g == GetValue(w)
  <2>1. g \in Seq(Seq(Char)) /\ ToSet(g) = ToSet(cell[w])
    BY <1>3
  <2> HIDE DEF g
  <2>2. \A x : (Contains(g, x) <=> x \in ToSet(g)) /\ (Contains(v, x) <=> x \in ToSet(v))
    BY <1>2, <2>1, ContainsIsIn
  <2>3. TextSetEqual(v, g) <=> ToSet(v) \subseteq ToSet(g) /\ ToSet(g) \subseteq ToSet(v)
    BY <2>2 DEF TextSetEqual, ToSet
  <2> QED BY <2>1, <2>3 DEF g
<1>5. Len(vids) = Cardinality(gone) /\ IsFiniteSet(gone)
  BY <1>1, CountToSet
<1> HIDE DEF vids, gone
<1>6. ASSUME Len(vids) = 1
      PROVE  h \in Live /\ gone = {h}
  <2>1. vids # <<>> /\ h = vids[1] /\ DOMAIN vids = {1}
    BY <1>1, <1>6
  <2>2. ToSet(vids) = {h}
    BY <2>1 DEF ToSet
  <2> QED BY <1>1, <1>6, <2>1, <2>2
<1>7. ASSUME NEW w \in Live, gone = {w}
      PROVE  Len(vids) = 1
  BY <1>5, <1>7, FS_Singleton
<1>8. ASSUME Len(vids) = 1, TextSetEqual(v, GetValue(h))
      PROVE  h \in Live /\ gone = {h} /\ ToSet(cell[h]) = ToSet(v)
  BY <1>4, <1>6, <1>8
<1>9. ASSUME NEW w \in Live, gone = {w}, ToSet(cell[w]) = ToSet(v)
      PROVE  Len(vids) = 1 /\ TextSetEqual(v, GetValue(h))
  <2>1. Len(vids) = 1
    BY <1>7, <1>9
  <2>2. h = w
    BY <1>6, <1>9, <2>1
  <2> QED BY <1>4, <1>9, <2>1, <2>2
<1> QED BY <1>8, <1>9 DEF vids, gone

\* No text of the union is left in the table: the assert of Combine holds.
LEMMA NoneLeft ==
    ASSUME StoreOk, kind = "TextSet", NEW v \in ValuesOf(kind)
    PROVE  LET all == Joined(v, Met(v))
               rest == Removed(table, Met(v))
           IN  /\ ToSet(all) \cap DOMAIN rest = {}
               /\ \A i \in DOMAIN all : TableGet(rest, all[i]) = 0
<1> DEFINE all == Joined(v, Met(v))
           rest == Removed(table, Met(v))
           gone == Led(ToSet(v))
<1>1. ToSet(all) = ToSet(v) \cup TextsOf(gone)
  BY JoinedAre DEF Enumerates
<1>2. DOMAIN rest = DOMAIN table \ TextsOf(gone)
  BY RestIs DEF HasTaken
<1>3. ToSet(v) \cap DOMAIN table \subseteq TextsOf(gone)
  <2> SUFFICES ASSUME NEW x \in ToSet(v), x \in DOMAIN table PROVE x \in TextsOf(gone)
    OBVIOUS
  <2>1. table[x] \in gone
    BY DEF Led
  <2>2. table[x] \in Live /\ x \in KeysOf(kind, cell[table[x]])
    BY DEF StoreOk, TableOk
  <2>3. x \in ToSet(cell[table[x]])
    BY <2>2 DEF KeysOf
  <2> QED BY <2>1, <2>3 DEF TextsOf
<1> HIDE DEF all, rest, gone
<1>4. ToSet(all) \cap DOMAIN rest = {}
  BY <1>1, <1>2, <1>3
<1>5. \A i \in DOMAIN all : TableGet(rest, all[i]) = 0
  BY <1>4 DEF ToSet, TableGet
<1> QED BY <1>4, <1>5 DEF all, rest

LEMMA CombineOk ==
    ASSUME StoreOk, NEW v \in ValuesOf(kind), Combine(v)
    PROVE  /\ HasFoundSame(v) \/ HasJoined(v)
           /\ StoreOk' /\ failed' = failed
<1> DEFINE vids == Met(v)
           all  == Joined(v, vids)
           rest == Removed(table, vids)
           gone == Led(ToSet(v))
           cells == CellsWithout(v)
<1>0. kind = "TextSet" /\ kind' = kind
  BY DEF Combine
<1>1. CellsOk(kind, count, size, cell) /\ TableOk(kind, table, Live, cell)
  BY DEF StoreOk
<1>2. \A i \in DOMAIN all : TableGet(rest, all[i]) = 0
  BY <1>0, NoneLeft
<1>3. \/ /\ Len(vids) = 1 /\ TextSetEqual(v, GetValue(Head(vids)))
         /\ answer' = Head(vids) /\ UNCHANGED <<store, failed>>
      \/ /\ ~(Len(vids) = 1 /\ TextSetEqual(v, GetValue(Head(vids))))
         /\ CreateTextSet(cells, rest, all) /\ failed' = failed
  BY <1>2 DEF Combine, CellsWithout
<1>4. CASE /\ Len(vids) = 1 /\ TextSetEqual(v, GetValue(Head(vids)))
           /\ answer' = Head(vids) /\ UNCHANGED <<store, failed>>
  <2>1. HasFoundSame(v)
    BY <1>0, <1>4, SameIs DEF HasFoundSame
  <2>2. StoreOk'
    BY <1>0, <1>4 DEF store, StoreOk, CellsOk, TableOk, IndexOk, Live, Vids
  <2> QED BY <1>4, <2>1, <2>2
<1>5. CASE /\ ~(Len(vids) = 1 /\ TextSetEqual(v, GetValue(Head(vids))))
           /\ CreateTextSet(cells, rest, all) /\ failed' = failed
  <2>1. ~ \E w \in Live : gone = {w} /\ ToSet(cell[w]) = ToSet(v)
    BY <1>0, <1>5, SameIs
  <2>2. vids \in Seq(Live) /\ ToSet(vids) = gone /\ gone \subseteq Live
    BY <1>0, MetAre DEF Enumerates, Lists
  <2>3. all \in Lists(Seq(Char)) /\ ToSet(all) = ToSet(v) \cup TextsOf(gone)
    BY <1>0, JoinedAre DEF Enumerates
  <2>4. all \in ValuesOf(kind)
    <3>1. v \in Seq(Seq(Char)) /\ v # <<>>
      BY <1>0, TextsAre DEF Lists
    <3>2. v[1] \in ToSet(v)
      BY <3>1 DEF ToSet
    <3> HIDE DEF all
    <3>3. all # <<>>
      BY <2>3, <3>2, EmptyEnumerates
    <3> QED BY <1>0, <2>3, <3>3 DEF ValuesOf, Lists
  <2>5. rest \in Tables(AllKeys(kind)) /\ HasTaken(rest, table, TextsOf(gone))
    BY <1>0, RestIs
  <2>6. ToSet(all) \cap DOMAIN rest = {}
    BY <1>0, NoneLeft
  <2>7. NewCellIn(cells, all) /\ table' = PutTexts(rest, all, count')
    BY <1>5 DEF CreateTextSet
  <2>8. cells = [w \in DOMAIN cell |-> IF w \in gone THEN Free ELSE cell[w]]
    <3>1. \A w : Contains(vids, w) <=> w \in gone
      BY <2>2, ContainsIsIn
    <3> QED BY <3>1 DEF CellsWithout
  <2> HIDE DEF all, rest, vids, gone, cells
  <2>9. /\ count \in Nat /\ size \in Nat /\ count < size /\ DOMAIN cell = 1..(size - 1)
        /\ 1..count \subseteq DOMAIN cell
    BY <1>1 DEF CellsOk, Number
  <2>10. LiveIn(count, cells) = Live \ gone
    BY <2>8, <2>9 DEF LiveIn, Live, Vids
  <2>11. \A u \in Live \ gone : cells[u] = cell[u]
    BY <2>8, <2>9 DEF Live, Vids
  <2>12. CellsOk(kind, count, size, cells)
    <3>1. \A u \in LiveIn(count, cells) : cells[u] \in ValuesOf(kind)
      <4>1. \A u \in Live : cell[u] \in ValuesOf(kind)
        BY <1>1, LiveIs DEF CellsOk
      <4> QED BY <2>10, <2>11, <4>1
    <3>2. DOMAIN cells = DOMAIN cell
      BY <2>8
    <3> QED BY <1>1, <3>1, <3>2 DEF CellsOk
  <2>13. HasNewCell(cells, all)
    BY <2>4, <2>7, <2>12, NewCellIs
  <2>14. /\ count' \in Number /\ count' \notin Live \ gone /\ cell'[count'] = all
         /\ LiveIn(count', cell') = (Live \ gone) \cup {count'}
         /\ \A u \in Live \ gone : cell'[u] = cells[u]
    BY <2>10, <2>13 DEF HasNewCell, Live, Vids
  <2>15. TableOk(kind, rest, Live \ gone, cells)
    <3>1. UNION {KeysOf(kind, cell[w]) : w \in gone} = TextsOf(gone)
      BY <1>0 DEF KeysOf, TextsOf
    <3>2. HasTaken(rest, table, UNION {KeysOf(kind, cell[w]) : w \in gone})
      BY <2>5, <3>1
    <3> QED BY <1>1, <2>2, <2>5, <2>11, <3>2, TakeOk
  <2>16. TableOk(kind, table', (Live \ gone) \cup {count'}, cell')
    <3>1. KeysOf(kind, all) = ToSet(all) /\ all \in Seq(AllKeys(kind))
      BY <1>0, <2>4, TextsAre
    <3>2. /\ PutTexts(rest, all, count') \in Tables(AllKeys(kind))
          /\ HasPut(PutTexts(rest, all, count'), rest, ToSet(all), count')
      BY <2>5, <2>14, <3>1, PutTextsPuts
    <3>3. table' \in Tables(AllKeys(kind)) /\ HasPut(table', rest, KeysOf(kind, all), count')
      BY <2>7, <3>1, <3>2
    <3>4. KeysOf(kind, all) \cap DOMAIN rest = {}
      BY <2>6, <3>1
    <3> QED BY <2>14, <2>15, <3>3, <3>4, PutOk
  <2>17. Live' = (Live \ gone) \cup {count'}
    BY <2>14 DEF Live, LiveIn, Vids
  <2>18. CellsOk(kind, count', size', cell')
    BY <2>13 DEF HasNewCell
  <2>19. StoreOk'
    <3>1. CellsOk(kind', count', size', cell') /\ TableOk(kind', table', Live', cell')
      BY <1>0, <2>16, <2>17, <2>18
    <3>2. kind' # "ASidp"
      BY <1>0
    <3> QED BY <3>1, <3>2 DEF StoreOk
  <2>20. HasJoined(v)
    BY <2>1, <2>10, <2>11, <2>13, <2>19 DEF HasJoined, all, vids, cells, gone
  <2> QED BY <1>5, <2>19, <2>20
<1> QED BY <1>3, <1>4, <1>5

-----------------------------------------------------------------------------
(* Finding a value *)

\* Two lists of members whose roles rise are the same when they have the same
\* members.
LEMMA RisingSame ==
    ASSUME NEW q \in Seq(Membership), NEW r \in Seq(Membership), Rising(q), Rising(r),
           ToSet(q) = ToSet(r)
    PROVE  q = r
<1> DEFINE n == Len(q)
<1>1. RolesDiffer(q) /\ RolesDiffer(r)
  BY RisingDiffers
<1>2. \A a \in Seq(Membership) : RolesDiffer(a) => IsInjective(a)
  BY DEF RolesDiffer, IsInjective
<1>3. q \in Lists(Membership) /\ r \in Lists(Membership)
  BY <1>1, <1>2 DEF Lists
<1>4. Len(r) = n
  BY <1>3, SameElements
<1>5. /\ n \in Nat /\ DOMAIN q = 1..n /\ DOMAIN r = 1..n
      /\ q = [i \in 1..n |-> q[i]] /\ r = [i \in 1..n |-> r[i]]
      /\ \A i \in 1..n : q[i] \in Membership /\ r[i] \in Membership
  BY <1>4
<1>6. \A i \in 1..n : q[i].role \in Nat /\ r[i].role \in Nat
  BY <1>5 DEF Membership, Topic
<1>7. \A i, j \in 1..n : (q[i].role = q[j].role => i = j) /\ (r[i].role = r[j].role => i = j)
  BY <1>1, <1>4 DEF RolesDiffer
<1>8. /\ \A i \in 1..n : \E j \in 1..n : q[i] = r[j]
      /\ \A i \in 1..n : \E j \in 1..n : r[i] = q[j]
  <2>1. \A i \in 1..n : q[i] \in ToSet(q) /\ r[i] \in ToSet(r)
    BY <1>5 DEF ToSet
  <2>2. /\ \A x \in ToSet(q) : \E j \in 1..n : x = q[j]
        /\ \A x \in ToSet(r) : \E j \in 1..n : x = r[j]
    BY <1>5 DEF ToSet
  <2> QED BY <2>1, <2>2
<1>9. \A i \in 1..n, j \in 1..n : i < j => /\ q[i].role < q[j].role
                                          /\ r[i].role < r[j].role
  BY <1>4, RisingOrder
<1> HIDE DEF n
<1> DEFINE Good == {k \in 0..n : \A i \in 1..k : q[i] = r[i]}
<1>10. 0 \in Good
  BY <1>5
<1>11. ASSUME NEW k \in 1..n, k - 1 \in Good PROVE k \in Good
  <2>1. \A i \in 1..(k - 1) : q[i] = r[i] /\ i \in 1..n
    <3>1. \A i \in 1..(k - 1) : q[i] = r[i]
      BY <1>11
    <3>2. \A i \in 1..(k - 1) : i \in 1..n
      BY <1>5
    <3> QED BY <3>1, <3>2
  <2>2. PICK j \in 1..n : q[k] = r[j]
    BY <1>8
  <2>3. PICK l \in 1..n : r[k] = q[l]
    BY <1>8
  <2>4. j >= k
    <3> SUFFICES ASSUME j < k PROVE FALSE
      BY <1>5
    <3>1. j \in 1..(k - 1)
      BY <1>5
    <3>2. q[j] = q[k]
      BY <2>1, <2>2, <3>1
    <3>3. j = k
      BY <1>7, <3>2
    <3> QED BY <1>5, <3>3
  <2>5. l >= k
    <3> SUFFICES ASSUME l < k PROVE FALSE
      BY <1>5
    <3>1. l \in 1..(k - 1)
      BY <1>5
    <3>2. r[l] = r[k]
      BY <2>1, <2>3, <3>1
    <3>3. l = k
      BY <1>7, <3>2
    <3> QED BY <1>5, <3>3
  <2>6. j = k
    <3> SUFFICES ASSUME j # k PROVE FALSE
      OBVIOUS
    <3>1. r[k].role < r[j].role
      BY <1>5, <1>9, <2>4
    <3>2. l = k \/ q[k].role < q[l].role
      BY <1>5, <1>9, <2>5
    <3>3. q[k].role = r[j].role /\ r[k].role = q[l].role
      BY <2>2, <2>3
    <3>4. q[k].role \in Nat /\ q[l].role \in Nat /\ r[k].role \in Nat /\ r[j].role \in Nat
      BY <1>6
    <3> QED BY <3>1, <3>2, <3>3, <3>4
  <2>7. \A i \in 1..k : i = k \/ i \in 1..(k - 1)
    BY <1>5
  <2>8. \A i \in 1..k : q[i] = r[i]
    BY <2>1, <2>2, <2>6, <2>7
  <2>9. k \in 0..n
    BY <1>5
  <2> QED BY <2>8, <2>9
<1> HIDE DEF Good
<1>12. 0..n \subseteq Good
  BY <1>5, <1>10, <1>11, LoopInvariant
<1>13. n \in Good
  BY <1>5, <1>12
<1>14. \A i \in 1..n : q[i] = r[i]
  BY <1>13 DEF Good
<1> QED BY <1>5, <1>14

\* The members of an assertion, as the pairs of its meaning.
Pairs(members) == {<<m.role, m.player>> : m \in ToSet(members)}

LEMMA PairsSame ==
    ASSUME NEW q \in Seq(Membership), NEW r \in Seq(Membership), Pairs(q) = Pairs(r)
    PROVE  ToSet(q) = ToSet(r)
<1>1. ASSUME NEW a \in Seq(Membership) PROVE ToSet(a) \subseteq Membership
  BY DEF ToSet
<1>2. \A x, y \in Membership : <<x.role, x.player>> = <<y.role, y.player>> => x = y
  BY DEF Membership
<1>3. ASSUME NEW a \in Seq(Membership), NEW c \in Seq(Membership), Pairs(a) = Pairs(c),
             NEW x \in ToSet(a)
      PROVE  x \in ToSet(c)
  <2>1. <<x.role, x.player>> \in Pairs(c)
    BY <1>3 DEF Pairs
  <2>2. PICK y \in ToSet(c) : <<x.role, x.player>> = <<y.role, y.player>>
    BY <2>1 DEF Pairs
  <2>3. x \in Membership /\ y \in Membership
    BY <1>1
  <2> QED BY <1>2, <2>2, <2>3
<1> QED BY <1>3

\* An assertion is known by its meaning.
LEMMA MeaningOfASidp ==
    ASSUME NEW k \in {"ASidp", "SlowASidp"}, NEW v \in ASidpType, NEW w \in ASidpType,
           Ascending(v), Ascending(w)
    PROVE  Meaning(k, v) = Meaning(k, w) <=> v = w
<1>1. /\ v.members \in Seq(Membership) /\ w.members \in Seq(Membership)
      /\ v = [type |-> v.type, members |-> v.members]
      /\ w = [type |-> w.type, members |-> w.members]
  BY DEF ASidpType
<1>2. Rising(v.members) /\ Rising(w.members)
  BY DEF Ascending, Rising
<1>3. ASSUME Meaning(k, v) = Meaning(k, w) PROVE v = w
  <2> DEFINE Rec(x) == [type |-> x.type, members |-> Pairs(x.members)]
  <2>1. Meaning(k, v) = <<"ASidp", Rec(v)>> /\ Meaning(k, w) = <<"ASidp", Rec(w)>>
    BY DEF Meaning, Pairs
  <2>2. Rec(v) = Rec(w)
    <3>1. <<"ASidp", Rec(v)>> = <<"ASidp", Rec(w)>>
      <4> HIDE DEF Rec
      <4> QED BY <1>3, <2>1
    <3>2. <<"ASidp", Rec(v)>>[2] = Rec(v) /\ <<"ASidp", Rec(w)>>[2] = Rec(w)
      <4> HIDE DEF Rec
      <4> QED OBVIOUS
    <3> HIDE DEF Rec
    <3> QED BY <3>1, <3>2, Zenon
  <2>3. v.type = w.type /\ Pairs(v.members) = Pairs(w.members)
    BY <2>2
  <2>4. ToSet(v.members) = ToSet(w.members)
    BY <1>1, <2>3, PairsSame
  <2>5. v.members = w.members
    BY <1>1, <1>2, <2>4, RisingSame
  <2> QED BY <1>1, <2>3, <2>5
<1> QED BY <1>3

\* What a search finds: a live value that means the same.
HasFound(v, w) == w \in Live /\ Meaning(kind, cell[w]) = Meaning(kind, v)

\* Or that there is none.
HasMissed(v, w) == w = 0 /\ \A u \in Live : Meaning(kind, cell[u]) # Meaning(kind, v)

\* The slow a-sidp store asserts nothing: its roles ascend only as long as no
\* merge has brought two roles of an assertion together.
RolesAscend == kind = "SlowASidp" => \A v \in Live : Ascending(cell[v])

LEMMA LiveTyped ==
    ASSUME StoreOk
    PROVE  /\ count \in Nat /\ Live \in SUBSET (1..count) /\ 0 \notin Live
           /\ \A w \in Live : cell[w] \in ValuesOf(kind)
           /\ kind \in Kinds
BY LiveIs DEF StoreOk, CellsOk, Number, Live, Vids

\* The first of the cells that pass a test.
LEMMA FirstHit ==
    ASSUME StoreOk, NEW hits \in SUBSET Live, hits # {}
    PROVE  Min(hits) \in hits
<1>1. count \in Nat /\ hits \in SUBSET (0..count)
  BY LiveTyped
<1> QED BY <1>1, MinOfSome

\* The searches through the table.
LEMMA FindInTable ==
    ASSUME StoreOk, kind \in {"Text", "Integer", "ASidp"}, NEW v \in ValuesOf(kind)
    PROVE  /\ HasFound(v, TableGet(table, v)) \/ HasMissed(v, TableGet(table, v))
           /\ TableGet(table, v) = 0 => v \notin DOMAIN table
<1>1. /\ \A x \in DOMAIN table : table[x] \in Live /\ x \in KeysOf(kind, cell[table[x]])
      /\ \A w \in Live : \A x \in KeysOf(kind, cell[w]) : x \in DOMAIN table /\ table[x] = w
  BY DEF StoreOk, TableOk
<1>2. \A x : KeysOf(kind, x) = {x}
  BY DEF KeysOf
<1>3. 0 \notin Live /\ \A w \in Live : cell[w] \in ValuesOf(kind)
  BY LiveTyped
<1>4. \A w \in Live : Meaning(kind, cell[w]) = Meaning(kind, v) <=> cell[w] = v
  <2> SUFFICES ASSUME NEW w \in Live
               PROVE  Meaning(kind, cell[w]) = Meaning(kind, v) <=> cell[w] = v
    OBVIOUS
  <2>1. CASE kind = "ASidp"
    <3>1. /\ cell[w] \in ASidpType /\ Ascending(cell[w])
          /\ v \in ASidpType /\ Ascending(v)
      BY <1>3, <2>1 DEF ValuesOf
    <3> QED BY <2>1, <3>1, MeaningOfASidp
  <2>2. CASE kind \in {"Text", "Integer"}
    <3>1. \A x : Meaning(kind, x) = <<kind, x>>
      BY <2>2 DEF Meaning
    <3> QED BY <3>1
  <2> QED BY <2>1, <2>2
<1>5. CASE v \in DOMAIN table
  <2>1. TableGet(table, v) = table[v] /\ table[v] \in Live /\ cell[table[v]] = v
    BY <1>1, <1>2, <1>5 DEF TableGet
  <2> QED BY <1>3, <2>1 DEF HasFound
<1>6. CASE v \notin DOMAIN table
  <2>1. TableGet(table, v) = 0 /\ \A w \in Live : cell[w] # v
    BY <1>1, <1>2, <1>6 DEF TableGet
  <2> QED BY <1>4, <1>6, <2>1 DEF HasMissed
<1> QED BY <1>5, <1>6

LEMMA FindTopicSetIs ==
    ASSUME StoreOk, kind = "TopicSet", NEW v \in ValuesOf(kind)
    PROVE  HasFound(v, FindTopicSet(v)) \/ HasMissed(v, FindTopicSet(v))
<1> DEFINE hits == {w \in Live : TopicSetEqual(cell[w], v)}
<1>1. \A x \in ValuesOf(kind) : x \in Lists(Topic)
  BY DEF ValuesOf, Lists
<1>2. ASSUME NEW w \in Live
      PROVE  TopicSetEqual(cell[w], v) <=> ToSet(cell[w]) = ToSet(v)
  <2> DEFINE a == cell[w]
  <2>1. a \in Lists(Topic) /\ v \in Lists(Topic) /\ a \in Seq(Topic) /\ v \in Seq(Topic)
    BY <1>1, LiveTyped DEF Lists
  <2> HIDE DEF a
  <2>2. \A x : SetContains(a, x) <=> x \in ToSet(a)
    BY <2>1, ContainsIsIn DEF SetContains
  <2>3. TopicSetEqual(a, v) <=> Len(a) = Len(v) /\ ToSet(v) \subseteq ToSet(a)
    BY <2>2 DEF TopicSetEqual, SetEqual, ToSet
  <2>4. Len(a) = Len(v) /\ ToSet(v) \subseteq ToSet(a) => ToSet(v) = ToSet(a)
    BY <2>1, SameLength
  <2>5. ToSet(a) = ToSet(v) => Len(a) = Len(v)
    BY <2>1, SameElements
  <2> QED BY <2>3, <2>4, <2>5 DEF a
<1>3. \A x, y : Meaning(kind, x) = Meaning(kind, y) <=> ToSet(x) = ToSet(y)
  <2>1. \A x : Meaning(kind, x) = <<kind, ToSet(x)>>
    BY DEF Meaning
  <2> QED BY <2>1
<1>4. hits = {w \in Live : Meaning(kind, cell[w]) = Meaning(kind, v)}
  BY <1>2, <1>3
<1>5. FindTopicSet(v) = IF hits = {} THEN 0 ELSE Min(hits)
  BY DEF FindTopicSet
<1> HIDE DEF hits
<1>6. CASE hits = {}
  BY <1>4, <1>5, <1>6 DEF HasMissed
<1>7. CASE hits # {}
  <2>1. Min(hits) \in hits
    BY <1>4, <1>7, FirstHit
  <2> QED BY <1>4, <1>5, <1>7, <2>1 DEF HasFound
<1> QED BY <1>6, <1>7

LEMMA FindSlowASidpIs ==
    ASSUME StoreOk, kind = "SlowASidp", NEW v \in ValuesOf(kind)
    PROVE  /\ HasFound(v, FindSlowASidp(v)) \/ FindSlowASidp(v) = 0
           /\ RolesAscend /\ Ascending(v) =>
                 HasFound(v, FindSlowASidp(v)) \/ HasMissed(v, FindSlowASidp(v))
<1> DEFINE hits == {w \in Live : cell[w] = v}
<1>1. FindSlowASidp(v) = IF hits = {} THEN 0 ELSE Min(hits)
  BY DEF FindSlowASidp
<1>2. \A w \in Live : cell[w] \in ASidpType
  BY LiveTyped DEF ValuesOf
<1>3. v \in ASidpType
  BY DEF ValuesOf
<1>4. ASSUME hits # {} PROVE HasFound(v, FindSlowASidp(v))
  <2>1. Min(hits) \in hits
    BY <1>4, FirstHit
  <2> QED BY <1>1, <1>4, <2>1 DEF HasFound
<1>5. ASSUME hits = {}, RolesAscend, Ascending(v) PROVE HasMissed(v, FindSlowASidp(v))
  <2>1. ASSUME NEW u \in Live PROVE Meaning(kind, cell[u]) # Meaning(kind, v)
    <3>1. cell[u] # v /\ Ascending(cell[u]) /\ cell[u] \in ASidpType
      BY <1>2, <1>5 DEF RolesAscend
    <3> QED BY <1>3, <1>5, <3>1, MeaningOfASidp
  <2>2. FindSlowASidp(v) = 0
    BY <1>1, <1>5
  <2> QED BY <2>1, <2>2 DEF HasMissed
<1>6. hits = {} => FindSlowASidp(v) = 0
  BY <1>1
<1> QED BY <1>4, <1>5, <1>6

LEMMA FindTextSetIs ==
    ASSUME StoreOk, kind = "TextSet", NEW v \in ValuesOf(kind)
    PROVE  HasFound(v, FindTextSet(v)) \/ HasMissed(v, FindTextSet(v))
<1> DEFINE x == Head(v)
           w == TableGet(table, x)
<1>1. v \in Lists(Seq(Char)) /\ v \in Seq(Seq(Char)) /\ v # <<>>
  BY TextsAre DEF Lists
<1>2. x \in ToSet(v)
  BY <1>1 DEF ToSet
<1>3. /\ \A y \in DOMAIN table : table[y] \in Live /\ y \in ToSet(cell[table[y]])
      /\ \A u \in Live : \A y \in ToSet(cell[u]) : y \in DOMAIN table /\ table[y] = u
  <2>1. \A y : KeysOf(kind, y) = ToSet(y)
    BY DEF KeysOf
  <2> QED BY <2>1 DEF StoreOk, TableOk
<1>4. \A y, z : Meaning(kind, y) = Meaning(kind, z) <=> ToSet(y) = ToSet(z)
  <2>1. \A y : Meaning(kind, y) = <<kind, ToSet(y)>>
    BY DEF Meaning
  <2> QED BY <2>1
<1>5. 0 \notin Live /\ \A u \in Live : cell[u] \in Lists(Seq(Char))
  BY LiveTyped, TextsAre
<1>6. \A u \in Live : ToSet(cell[u]) = ToSet(v) => u = w
  BY <1>2, <1>3 DEF TableGet
<1>7. FindTextSet(v) = IF /\ w # 0
                          /\ Len(v) = Len(cell[w])
                          /\ \A i \in DOMAIN cell[w] : Contains(v, cell[w][i])
                       THEN w ELSE 0
  BY DEF FindTextSet
<1>8. CASE w = 0
  BY <1>4, <1>5, <1>6, <1>7, <1>8 DEF HasMissed
<1>9. CASE w # 0
  <2> DEFINE a == cell[w]
  <2>1. w \in Live
    BY <1>3, <1>9 DEF TableGet
  <2>2. a \in Lists(Seq(Char)) /\ a \in Seq(Seq(Char))
    BY <1>5, <2>1 DEF Lists
  <2> HIDE DEF w
  <2>7. FindTextSet(v) = IF /\ Len(v) = Len(a)
                            /\ \A i \in DOMAIN a : Contains(v, a[i])
                         THEN w ELSE 0
    BY <1>7, <1>9
  <2> HIDE DEF a
  <2>3. (\A i \in DOMAIN a : Contains(v, a[i])) <=> ToSet(a) \subseteq ToSet(v)
    <3>1. \A y : Contains(v, y) <=> y \in ToSet(v)
      BY <1>1, ContainsIsIn
    <3> QED BY <3>1 DEF ToSet
  <2>4. Len(v) = Len(a) /\ ToSet(a) \subseteq ToSet(v) => ToSet(a) = ToSet(v)
    BY <1>1, <2>2, SameLength
  <2>5. ToSet(a) = ToSet(v) => Len(v) = Len(a)
    BY <1>1, <2>2, SameElements
  <2>6. FindTextSet(v) = IF ToSet(a) = ToSet(v) THEN w ELSE 0
    BY <2>3, <2>4, <2>5, <2>7
  <2>8. CASE ToSet(a) = ToSet(v)
    BY <1>4, <2>1, <2>6, <2>8 DEF HasFound, a
  <2>9. CASE ToSet(a) # ToSet(v)
    BY <1>4, <1>6, <2>6, <2>9 DEF HasMissed, a
  <2> QED BY <2>8, <2>9
<1> QED BY <1>8, <1>9

LEMMA FindIs ==
    ASSUME StoreOk, NEW v \in ValuesOf(kind)
    PROVE  /\ HasFound(v, FindVid(v)) \/ FindVid(v) = 0
           /\ RolesAscend /\ (kind = "SlowASidp" => Ascending(v)) =>
                 HasFound(v, FindVid(v)) \/ HasMissed(v, FindVid(v))
           /\ kind \in {"Text", "Integer", "ASidp"} /\ FindVid(v) = 0
                 => v \notin DOMAIN table
<1>1. kind \in {"Text", "Integer", "TopicSet", "TextSet", "ASidp", "SlowASidp"}
  BY LiveTyped DEF Kinds
<1>2. CASE kind \in {"Text", "Integer", "ASidp"}
  <2>1. FindVid(v) = TableGet(table, v)
    BY <1>2 DEF FindVid, FindText, FindInteger, FindASidp
  <2> QED BY <1>2, <2>1, FindInTable DEF HasMissed
<1>3. CASE kind = "TopicSet"
  <2>1. FindVid(v) = FindTopicSet(v)
    BY <1>3 DEF FindVid
  <2> QED BY <1>3, <2>1, FindTopicSetIs DEF HasMissed
<1>4. CASE kind = "TextSet"
  <2>1. FindVid(v) = FindTextSet(v)
    BY <1>4 DEF FindVid
  <2> QED BY <1>4, <2>1, FindTextSetIs DEF HasMissed
<1>5. CASE kind = "SlowASidp"
  <2>1. FindVid(v) = FindSlowASidp(v)
    BY <1>5 DEF FindVid
  <2> QED BY <1>5, <2>1, FindSlowASidpIs
<1> QED BY <1>1, <1>2, <1>3, <1>4, <1>5

-----------------------------------------------------------------------------
(* Scans *)

\* What is added behind a list that does not have it.
LEMMA AppendEnumerates ==
    ASSUME NEW S, NEW q \in Lists(S), NEW x \in S, x \notin ToSet(q)
    PROVE  Enumerates(Append(q, x), S, ToSet(q) \cup {x})
<1> DEFINE r == Append(q, x)
           n == Len(q)
<1>1. /\ q \in Seq(S) /\ n \in Nat /\ DOMAIN q = 1..n
      /\ \A i, j \in 1..n : q[i] = q[j] => i = j
  BY DEF Lists, IsInjective
<1>2. /\ r \in Seq(S) /\ DOMAIN r = 1..(n + 1) /\ r[n + 1] = x
      /\ \A i \in 1..n : r[i] = q[i]
  BY <1>1
<1> HIDE DEF r
<1>3. \A i : i \in 1..(n + 1) <=> i \in 1..n \/ i = n + 1
  BY <1>1
<1>4. \A i \in 1..n : q[i] # x
  BY <1>1 DEF ToSet
<1>5. ASSUME NEW i \in 1..(n + 1), NEW j \in 1..(n + 1), r[i] = r[j] PROVE i = j
  <2>1. CASE i \in 1..n /\ j \in 1..n
    BY <1>1, <1>2, <1>5, <2>1
  <2>2. CASE i = n + 1 \/ j = n + 1
    BY <1>2, <1>3, <1>4, <1>5, <2>2
  <2> QED BY <1>3, <2>1, <2>2
<1>6. IsInjective(r)
  BY <1>2, <1>5 DEF IsInjective
<1>7. ToSet(r) = ToSet(q) \cup {x}
  BY <1>1, <1>2, <1>3 DEF ToSet
<1> QED BY <1>2, <1>6, <1>7 DEF Lists, Enumerates, r

\* What is left of a list without its head.
LEMMA TailEnumerates ==
    ASSUME NEW S, NEW q \in Lists(S), q # <<>>
    PROVE  /\ Enumerates(Tail(q), S, ToSet(q) \ {Head(q)})
           /\ Head(q) \in ToSet(q)
<1> DEFINE r == Tail(q)
           n == Len(q)
<1>1. /\ q \in Seq(S) /\ n \in Nat /\ n >= 1 /\ DOMAIN q = 1..n
      /\ \A i, j \in 1..n : q[i] = q[j] => i = j
  BY DEF Lists, IsInjective
<1>2. /\ r \in Seq(S) /\ DOMAIN r = 1..(n - 1) /\ Head(q) = q[1]
      /\ \A i \in 1..(n - 1) : r[i] = q[i + 1]
  BY <1>1
<1> HIDE DEF r
<1>3. \A i \in 1..(n - 1) : i + 1 \in 1..n /\ i + 1 # 1
  BY <1>1
<1>4. \A i \in 1..n : i = 1 \/ (i - 1 \in 1..(n - 1) /\ (i - 1) + 1 = i)
  BY <1>1
<1>5. 1 \in 1..n
  BY <1>1
<1>6. ASSUME NEW i \in 1..(n - 1), NEW j \in 1..(n - 1), r[i] = r[j] PROVE i = j
  <2>1. i + 1 = j + 1
    BY <1>1, <1>2, <1>3, <1>6
  <2> QED BY <1>1, <2>1
<1>7. IsInjective(r)
  BY <1>2, <1>6 DEF IsInjective
<1>8. ToSet(r) \subseteq ToSet(q) \ {Head(q)}
  <2> SUFFICES ASSUME NEW i \in 1..(n - 1) PROVE r[i] \in ToSet(q) /\ r[i] # q[1]
    BY <1>2 DEF ToSet
  <2> QED BY <1>1, <1>2, <1>3, <1>5 DEF ToSet
<1>9. ToSet(q) \ {Head(q)} \subseteq ToSet(r)
  <2> SUFFICES ASSUME NEW i \in 1..n, q[i] # q[1] PROVE q[i] \in ToSet(r)
    BY <1>1, <1>2 DEF ToSet
  <2>1. i - 1 \in 1..(n - 1) /\ r[i - 1] = q[i]
    BY <1>2, <1>4
  <2> QED BY <1>2, <2>1 DEF ToSet
<1>10. Head(q) \in ToSet(q)
  BY <1>1, <1>2, <1>5 DEF ToSet
<1> QED BY <1>2, <1>7, <1>8, <1>9, <1>10 DEF Lists, Enumerates, r

\* A sequence without repetition, as long as the set is large, has all of it.
LEMMA SetToSeqsEnumerate ==
    ASSUME NEW S, NEW T \in SUBSET S, IsFiniteSet(T), NEW q \in SetToSeqs(T)
    PROVE  Enumerates(q, S, T)
<1> DEFINE n == Cardinality(T)
<1>1. n \in Nat
  BY FS_CardinalityType
<1>2. q \in [1..n -> T] /\ \A i, j \in 1..n : i # j => q[i] # q[j]
  BY DEF SetToSeqs
<1>3. q \in Seq(T) /\ q \in Seq(S) /\ Len(q) = n /\ DOMAIN q = 1..n
  BY <1>1, <1>2
<1>4. IsInjective(q)
  BY <1>2, <1>3 DEF IsInjective
<1>5. Cardinality(ToSet(q)) = Cardinality(T)
  BY <1>3, <1>4, CountToSet
<1>6. ToSet(q) \subseteq T
  BY <1>2, <1>3 DEF ToSet
<1>7. ToSet(q) = T
  BY <1>5, <1>6, FS_Subset
<1> QED BY <1>3, <1>4, <1>7 DEF Lists, Enumerates

\* A scan is a record of these fields.
IsScan(sc) ==
    sc = [op |-> sc.op, arg |-> sc.arg, next |-> sc.next, at |-> sc.at, rest |-> sc.rest]

\* The values that pass the test of a linear scan.
Hits(sc) == {v \in Live : Passes(sc.op, sc.arg, cell[v])}

\* A linear scan has delivered what lies before the place it has come to.
LinearOk(sc, gt) ==
    /\ sc.at \in 1..(count + 1)
    /\ \/ sc.next = 0 /\ sc.at = count + 1
       \/ sc.next = sc.at /\ sc.at \in Hits(sc)
    /\ Enumerates(gt, Live, {v \in Hits(sc) : v < sc.at})

IsNextFrom(new, sc, from) ==
    /\ IsScan(new) /\ new.op = sc.op /\ new.arg = sc.arg
    /\ new.at \in from..(count + 1)
    /\ \A v \in Hits(sc) : v >= from => v >= new.at
    /\ \/ new.next = 0 /\ new.at = count + 1
       \/ new.next = new.at /\ new.at \in Hits(sc)

LEMMA LinearNextIs ==
    ASSUME StoreOk, NEW sc, IsScan(sc), NEW from \in 1..(count + 1)
    PROVE  IsNextFrom(LinearNext(sc, from), sc, from)
<1> DEFINE hits == {v \in from..count : v \in Live /\ Passes(sc.op, sc.arg, cell[v])}
           new == LinearNext(sc, from)
<1>1. count \in Nat /\ Live \in SUBSET (1..count) /\ from \in Nat /\ from <= count + 1
  BY LiveTyped
<1>2. hits = {v \in Hits(sc) : v >= from} /\ hits \subseteq Live
  <2> DEFINE P(v) == Passes(sc.op, sc.arg, cell[v])
  <2>1. Hits(sc) = {v \in Live : P(v)} /\ hits = {v \in from..count : v \in Live /\ P(v)}
    BY DEF Hits
  <2> HIDE DEF P, hits
  <2>2. \A v \in Live : v \in from..count <=> v >= from
    BY <1>1
  <2> QED BY <2>1, <2>2
<1>3. new = IF hits = {} THEN [sc EXCEPT !.next = 0, !.at = count + 1]
            ELSE [sc EXCEPT !.next = Min(hits), !.at = Min(hits)]
  BY DEF LinearNext
<1> HIDE DEF hits, new
<1>4. CASE hits = {}
  <2>1. new = [op |-> sc.op, arg |-> sc.arg, next |-> 0, at |-> count + 1,
               rest |-> sc.rest]
    BY <1>3, <1>4 DEF IsScan
  <2>2. IsScan(new) /\ new.op = sc.op /\ new.arg = sc.arg /\ new.next = 0
        /\ new.at = count + 1
    BY <2>1 DEF IsScan
  <2>3. count + 1 \in from..(count + 1)
    BY <1>1
  <2>4. \A v \in Hits(sc) : ~(v >= from)
    BY <1>2, <1>4
  <2>5. IsNextFrom(new, sc, from)
    BY <1>1, <2>2, <2>3, <2>4 DEF IsNextFrom
  <2> QED BY <2>5 DEF new
<1>5. CASE hits # {}
  <2> DEFINE m == Min(hits)
  <2>1. hits \in SUBSET (0..count) /\ hits \in SUBSET (from..count)
    <3>1. \A v \in hits : v \in 1..count /\ v >= from
      BY <1>1, <1>2
    <3> QED BY <1>1, <3>1
  <2>2. m \in hits /\ \A v \in hits : m <= v
    BY <1>1, <1>5, <2>1, MinOfSome
  <2> HIDE DEF m
  <2>3. new = [op |-> sc.op, arg |-> sc.arg, next |-> m, at |-> m, rest |-> sc.rest]
    BY <1>3, <1>5 DEF IsScan, m
  <2>4. IsScan(new) /\ new.op = sc.op /\ new.arg = sc.arg /\ new.next = m /\ new.at = m
    BY <2>3 DEF IsScan
  <2>5. m \in from..(count + 1) /\ m \in Hits(sc)
    BY <1>1, <1>2, <2>1, <2>2
  <2>6. \A v \in Hits(sc) : v >= from => v >= m
    BY <1>1, <1>2, <2>1, <2>2
  <2>7. IsNextFrom(new, sc, from)
    BY <2>4, <2>5, <2>6 DEF IsNextFrom
  <2> QED BY <2>7 DEF new
<1> QED BY <1>4, <1>5

LEMMA LinearOpens ==
    ASSUME StoreOk, NEW sc, IsScan(sc), NEW new, new = LinearNext(sc, 1)
    PROVE  LinearOk(new, <<>>) /\ IsScan(new) /\ new.op = sc.op /\ new.arg = sc.arg
<1>1. count \in Nat /\ 1 \in 1..(count + 1) /\ Live \in SUBSET (1..count)
  BY LiveTyped
<1>2. IsNextFrom(new, sc, 1)
  BY <1>1, LinearNextIs
<1>3. Hits(new) = Hits(sc) /\ Hits(sc) \in SUBSET (1..count)
  BY <1>1, <1>2 DEF Hits, IsNextFrom
<1>4. {v \in Hits(new) : v < new.at} = {}
  BY <1>1, <1>2, <1>3 DEF IsNextFrom
<1>5. Enumerates(<<>>, Live, {})
  BY EmptyEnumerates DEF Enumerates
<1> QED BY <1>1, <1>2, <1>3, <1>4, <1>5 DEF IsNextFrom, LinearOk

LEMMA LinearFetches ==
    ASSUME StoreOk, NEW sc, IsScan(sc), NEW gt, LinearOk(sc, gt), sc.next # 0,
           NEW new, new = LinearNext(sc, sc.at + 1)
    PROVE  /\ LinearOk(new, Append(gt, sc.next))
           /\ IsScan(new) /\ new.op = sc.op /\ new.arg = sc.arg
<1>1. count \in Nat /\ Live \in SUBSET (1..count)
  BY LiveTyped
<1>2. sc.next = sc.at /\ sc.at \in Hits(sc) /\ sc.at \in Live /\ sc.at \in 1..count
  BY <1>1 DEF LinearOk, Hits
<1>3. IsNextFrom(new, sc, sc.at + 1)
  BY <1>1, <1>2, LinearNextIs
<1>4. Hits(new) = Hits(sc) /\ Hits(sc) \in SUBSET (1..count)
  BY <1>1, <1>3 DEF Hits, IsNextFrom
<1>5. /\ gt \in Lists(Live) /\ ToSet(gt) = {v \in Hits(sc) : v < sc.at}
      /\ sc.at \notin ToSet(gt)
  BY <1>2 DEF LinearOk, Enumerates
<1>6. Enumerates(Append(gt, sc.at), Live, ToSet(gt) \cup {sc.at})
  BY <1>2, <1>5, AppendEnumerates
<1>7. {v \in Hits(new) : v < new.at} = ToSet(gt) \cup {sc.at}
  <2>1. /\ new.at \in (sc.at + 1)..(count + 1)
        /\ \A v \in Hits(sc) : v >= sc.at + 1 => v >= new.at
    BY <1>3 DEF IsNextFrom
  <2>2. \A v \in 1..count : (v < new.at <=> v < sc.at \/ v = sc.at) \/ v \notin Hits(sc)
    BY <1>1, <1>2, <2>1
  <2> QED BY <1>2, <1>4, <1>5, <2>2
<1>8. new.at \in 1..(count + 1)
  BY <1>1, <1>2, <1>3 DEF IsNextFrom
<1> QED BY <1>2, <1>3, <1>4, <1>6, <1>7, <1>8 DEF IsNextFrom, LinearOk

\* A scan of listed vids has delivered all of them but the rest.
ListedOk(sc, gt, all) ==
    /\ sc.rest \in Lists(Live) /\ gt \in Lists(Live)
    /\ ToSet(gt) \cap ToSet(sc.rest) = {}
    /\ ToSet(gt) \cup ToSet(sc.rest) = all
    /\ sc.next = IF sc.rest = <<>> THEN 0 ELSE Head(sc.rest)

\* A scan whose rest is a list of vids.
IsListed(new, sc, vids) ==
    /\ IsScan(new) /\ new.op = sc.op /\ new.arg = sc.arg
    /\ new.rest = vids
    /\ new.next = IF vids = <<>> THEN 0 ELSE Head(vids)

LEMMA ListedNextIs ==
    ASSUME NEW sc, IsScan(sc), NEW vids, NEW new, new = ListedNext(sc, vids)
    PROVE  IsListed(new, sc, vids)
<1> DEFINE n == IF vids = <<>> THEN 0 ELSE Head(vids)
<1>1. new = [op |-> sc.op, arg |-> sc.arg, next |-> n, at |-> sc.at, rest |-> vids]
  BY DEF ListedNext, IsScan
<1> HIDE DEF n
<1>2. IsScan(new) /\ new.op = sc.op /\ new.arg = sc.arg /\ new.rest = vids /\ new.next = n
  BY <1>1 DEF IsScan
<1> QED BY <1>2 DEF n, IsListed

LEMMA ListedOpens ==
    ASSUME NEW sc, IsScan(sc), NEW vids, NEW all, Enumerates(vids, Live, all),
           NEW new, new = ListedNext(sc, vids)
    PROVE  /\ ListedOk(new, <<>>, all)
           /\ IsScan(new) /\ new.op = sc.op /\ new.arg = sc.arg
<1>1. /\ IsScan(new) /\ new.op = sc.op /\ new.arg = sc.arg
      /\ new.rest = vids
      /\ new.next = IF vids = <<>> THEN 0 ELSE Head(vids)
  <2>1. IsListed(new, sc, vids)
    BY ListedNextIs
  <2> QED BY <2>1 DEF IsListed
<1>2. <<>> \in Lists(Live) /\ ToSet(<<>>) = {}
  BY EmptyEnumerates DEF Enumerates
<1> QED BY <1>1, <1>2 DEF ListedOk, Enumerates

LEMMA ListedFetches ==
    ASSUME NEW sc, IsScan(sc), NEW gt, NEW all, ListedOk(sc, gt, all), sc.next # 0,
           NEW new, new = ListedNext(sc, Tail(sc.rest))
    PROVE  /\ ListedOk(new, Append(gt, sc.next), all)
           /\ IsScan(new) /\ new.op = sc.op /\ new.arg = sc.arg
           /\ sc.next \in Live
<1> DEFINE vids == Tail(sc.rest)
           got2 == Append(gt, sc.next)
<1>1. /\ IsScan(new) /\ new.op = sc.op /\ new.arg = sc.arg
      /\ new.rest = vids
      /\ new.next = IF vids = <<>> THEN 0 ELSE Head(vids)
  <2>1. IsListed(new, sc, vids)
    BY ListedNextIs
  <2> QED BY <2>1 DEF IsListed
<1>2. /\ sc.rest \in Lists(Live) /\ gt \in Lists(Live) /\ sc.rest # <<>>
      /\ ToSet(gt) \cap ToSet(sc.rest) = {} /\ ToSet(gt) \cup ToSet(sc.rest) = all
      /\ sc.next = Head(sc.rest)
  BY DEF ListedOk
<1>3. /\ vids \in Lists(Live) /\ ToSet(vids) = ToSet(sc.rest) \ {sc.next}
      /\ sc.next \in ToSet(sc.rest)
  BY <1>2, TailEnumerates DEF Enumerates
<1>4. sc.next \in Live /\ sc.next \notin ToSet(gt)
  <2>1. \A x \in ToSet(sc.rest) : x \in Live
    <3>1. sc.rest \in Seq(Live)
      BY <1>2 DEF Lists
    <3> QED BY <3>1 DEF ToSet
  <2> QED BY <1>2, <1>3, <2>1
<1>5. got2 \in Lists(Live) /\ ToSet(got2) = ToSet(gt) \cup {sc.next}
  BY <1>2, <1>4, AppendEnumerates DEF Enumerates
<1> HIDE DEF vids, got2
<1>6. ListedOk(new, got2, all)
  BY <1>1, <1>2, <1>3, <1>5 DEF ListedOk
<1> QED BY <1>1, <1>4, <1>6 DEF got2

\* A scan by texts has delivered the sets of the texts it has gone through.
TextsOk(sc, gt) ==
    /\ gt \in Seq(Live)
    /\ \E p \in 1..(Len(sc.arg) + 1) :
          /\ sc.rest = SubSeq(sc.arg, p, Len(sc.arg))
          /\ ToSet(gt) = Led({sc.arg[i] : i \in 1..(p - 1)})
          /\ \/ p = Len(sc.arg) + 1 /\ sc.next = 0
             \/ p <= Len(sc.arg) /\ sc.arg[p] \in DOMAIN table /\ sc.next = table[sc.arg[p]]

\* The text that the table has next.
IsTextFrom(new, sc, p) ==
    /\ IsScan(new) /\ new.op = sc.op /\ new.arg = sc.arg
    /\ \E r \in p..(Len(sc.arg) + 1) :
          /\ new.rest = SubSeq(sc.arg, r, Len(sc.arg))
          /\ \A i \in p..(r - 1) : sc.arg[i] \notin DOMAIN table
          /\ \/ r = Len(sc.arg) + 1 /\ new.next = 0
             \/ r <= Len(sc.arg) /\ sc.arg[r] \in DOMAIN table /\ new.next = table[sc.arg[r]]

LEMMA SubSeqAt ==
    ASSUME NEW S, NEW q \in Seq(S), NEW n \in Nat, n <= Len(q), NEW r \in 1..n,
           NEW i \in 1..((n - r) + 1)
    PROVE  SubSeq(q, r, n)[i] = q[(r + i) - 1]
OBVIOUS

LEMMA TextsNextIs ==
    ASSUME StoreOk, NEW S, NEW sc, IsScan(sc), sc.arg \in Seq(S),
           NEW p \in 1..(Len(sc.arg) + 1),
           NEW new, new = TextsNext(sc, SubSeq(sc.arg, p, Len(sc.arg)))
    PROVE  IsTextFrom(new, sc, p)
<1> DEFINE q == sc.arg
           n == Len(q)
           d == (n - p) + 1
           texts == SubSeq(q, p, n)
           hits == {i \in DOMAIN texts : TableGet(table, texts[i]) # 0}
<1>1. n \in Nat /\ p \in Nat /\ p >= 1 /\ p <= n + 1 /\ DOMAIN q = 1..n /\ q \in Seq(S)
  OBVIOUS
<1>0. /\ d \in Nat /\ d = (n - p) + 1 /\ n = (p + d) - 1
      /\ n \in Nat /\ p \in Nat /\ p >= 1 /\ p <= n + 1
  BY <1>1
<1>2. /\ texts \in Seq(S) /\ Len(texts) = d /\ DOMAIN texts = 1..d
      /\ \A i \in 1..d : texts[i] = q[p + i - 1]
  BY <1>0, <1>1
<1> HIDE DEF d
<1>3. \A x : TableGet(table, x) # 0 <=> x \in DOMAIN table
  BY LiveTyped DEF TableGet, StoreOk, TableOk
<1>4. hits = {i \in 1..d : q[p + i - 1] \in DOMAIN table}
  BY <1>2, <1>3
<1>5. new = IF hits = {} THEN [sc EXCEPT !.next = 0, !.rest = <<>>]
            ELSE [sc EXCEPT !.next = table[texts[Min(hits)]],
                            !.rest = SubSeq(texts, Min(hits), Len(texts))]
  BY DEF TextsNext
<1> HIDE DEF hits, texts
<1> HIDE DEF n
<1>6. CASE hits = {}
  <2>1. new = [op |-> sc.op, arg |-> sc.arg, next |-> 0, at |-> sc.at, rest |-> <<>>]
    BY <1>5, <1>6 DEF IsScan
  <2>2. IsScan(new) /\ new.op = sc.op /\ new.arg = q /\ new.next = 0 /\ new.rest = <<>>
    BY <2>1 DEF IsScan
  <2>3. SubSeq(q, n + 1, n) = <<>>
    BY <1>0, <1>1
  <2>4. ASSUME NEW i \in p..n PROVE q[i] \notin DOMAIN table
    <3>1. (i - p) + 1 \in 1..d /\ p + (i - p + 1) - 1 = i
      BY <1>0, <1>1
    <3> QED BY <1>4, <1>6, <3>1
  <2>5. n + 1 \in p..(n + 1) /\ (n + 1) - 1 = n
    BY <1>0, <1>1
  <2> QED BY <2>2, <2>3, <2>4, <2>5 DEF IsTextFrom, n
<1>7. CASE hits # {}
  <2> DEFINE m == Min(hits)
             r == (p + m) - 1
             e == (n - r) + 1
  <2>1. hits \in SUBSET (0..d)
    <3>1. d \in Nat
      BY <1>0
    <3>2. 1..d \subseteq 0..d
      BY <3>1
    <3> QED BY <1>4, <3>2
  <2>2. m \in hits /\ \A i \in hits : m <= i
    BY <1>0, <1>7, <2>1, MinOfSome
  <2> HIDE DEF m
  <2>0. m \in Int /\ 1 <= m /\ m <= d
    <3>1. m \in 1..d
      BY <1>4, <2>2
    <3> QED BY <1>0, <3>1
  <2>3. /\ m \in 1..d /\ r \in p..n /\ q[r] \in DOMAIN table /\ texts[m] = q[r]
    <3>1. m \in 1..d /\ q[p + m - 1] \in DOMAIN table /\ texts[m] = q[p + m - 1]
      BY <1>2, <1>4, <2>2
    <3>2. p + m - 1 = r /\ r \in p..n
      BY <1>0, <3>1
    <3> QED BY <3>1, <3>2
  <2>4. SubSeq(texts, m, Len(texts)) = SubSeq(q, r, n)
    <3>1. Len(SubSeq(texts, m, Len(texts))) = e /\ Len(SubSeq(q, r, n)) = e
      BY <1>0, <1>1, <1>2, <2>3
    <3>2. SubSeq(texts, m, Len(texts)) \in Seq(S) /\ SubSeq(q, r, n) \in Seq(S)
      BY <1>0, <1>1, <1>2, <2>3
    <3>3. ASSUME NEW i \in 1..e
          PROVE  SubSeq(texts, m, Len(texts))[i] = SubSeq(q, r, n)[i]
      <4>1. SubSeq(texts, m, Len(texts))[i] = texts[m + i - 1]
        BY <1>0, <1>1, <1>2, <2>3
      <4>2. m + i - 1 \in 1..d /\ p + (m + i - 1) - 1 = r + i - 1
        <5>1. i \in Int /\ 1 <= i /\ i <= (n - ((p + m) - 1)) + 1
          OBVIOUS
        <5>2. m \in Int /\ 1 <= m /\ m <= d
          BY <2>0
        <5>3. p \in Int /\ n \in Int /\ d = (n - p) + 1
          BY <1>0
        <5> HIDE DEF m, n, d
        <5> QED BY <5>1, <5>2, <5>3
      <4>3. texts[m + i - 1] = q[r + i - 1]
        BY <1>2, <4>2
      <4>4. SubSeq(q, r, n)[i] = q[r + i - 1]
        <5>1. r \in 1..n /\ n <= Len(q) /\ i \in 1..((n - r) + 1)
          BY <1>0, <1>1, <2>0
        <5> QED BY <1>1, <5>1, SubSeqAt
      <4> QED BY <4>1, <4>3, <4>4
    <3> QED BY <3>1, <3>2, <3>3, SeqEqual
  <2>5. new = [op |-> sc.op, arg |-> sc.arg, next |-> table[q[r]], at |-> sc.at,
               rest |-> SubSeq(q, r, n)]
    BY <1>5, <1>7, <2>3, <2>4 DEF IsScan, m
  <2>6. /\ IsScan(new) /\ new.op = sc.op /\ new.arg = q /\ new.next = table[q[r]]
        /\ new.rest = SubSeq(q, r, n)
    <3> DEFINE to == table[q[r]]
               left == SubSeq(q, r, n)
    <3>1. new = [op |-> sc.op, arg |-> q, next |-> to, at |-> sc.at, rest |-> left]
      BY <2>5
    <3> HIDE DEF to, left
    <3>2. /\ IsScan(new) /\ new.op = sc.op /\ new.arg = q /\ new.next = to
          /\ new.rest = left
      BY <3>1 DEF IsScan
    <3> QED BY <3>2 DEF to, left
  <2>7. ASSUME NEW i \in p..(r - 1) PROVE q[i] \notin DOMAIN table
    <3>0. i \in Int /\ p <= i /\ i <= (p + m) - 2 /\ m \in Int /\ m <= d
      BY <1>0, <2>0
    <3>1. (i - p) + 1 \in 1..d /\ p + (i - p + 1) - 1 = i /\ ~(m <= i - p + 1)
      <4>1. p \in Int /\ d \in Int
        BY <1>0
      <4> HIDE DEF m, n, d
      <4> QED BY <3>0, <4>1
    <3> QED BY <1>4, <2>2, <3>1
  <2> HIDE DEF r
  <2>8. r \in p..(n + 1) /\ r <= n
    BY <1>0, <1>1, <2>3
  <2> QED BY <2>3, <2>6, <2>7, <2>8 DEF IsTextFrom, n
<1> QED BY <1>6, <1>7

LEMMA TextsOpens ==
    ASSUME StoreOk, NEW S, NEW sc, IsScan(sc), sc.arg \in Seq(S),
           NEW new, new = TextsNext(sc, sc.arg)
    PROVE  /\ TextsOk(new, <<>>)
           /\ IsScan(new) /\ new.op = sc.op /\ new.arg = sc.arg
<1> DEFINE q == sc.arg
           n == Len(q)
<1>1. n \in Nat /\ 1 \in 1..(n + 1) /\ SubSeq(q, 1, n) = q
  OBVIOUS
<1>2. IsTextFrom(new, sc, 1)
  BY <1>1, TextsNextIs
<1>3. PICK r \in 1..(n + 1) :
         /\ new.rest = SubSeq(q, r, n)
         /\ \A i \in 1..(r - 1) : q[i] \notin DOMAIN table
         /\ \/ r = n + 1 /\ new.next = 0
            \/ r <= n /\ q[r] \in DOMAIN table /\ new.next = table[q[r]]
  BY <1>2 DEF IsTextFrom
<1>4. IsScan(new) /\ new.op = sc.op /\ new.arg = q
  BY <1>2 DEF IsTextFrom
<1>5. Led({q[i] : i \in 1..(r - 1)}) = {}
  BY <1>3 DEF Led
<1>6. <<>> \in Seq(Live) /\ ToSet(<<>>) = {}
  BY EmptyEnumerates DEF Enumerates, Lists
<1>7. TextsOk(new, <<>>)
  BY <1>3, <1>4, <1>5, <1>6 DEF TextsOk
<1> QED BY <1>4, <1>7

LEMMA TextsFetches ==
    ASSUME StoreOk, NEW S, NEW sc, IsScan(sc), sc.arg \in Seq(S),
           NEW gt, TextsOk(sc, gt), sc.next # 0,
           NEW new, new = TextsNext(sc, Tail(sc.rest))
    PROVE  /\ TextsOk(new, Append(gt, sc.next))
           /\ IsScan(new) /\ new.op = sc.op /\ new.arg = sc.arg
           /\ sc.next \in Live
<1> DEFINE q == sc.arg
           n == Len(q)
<1>1. n \in Nat /\ q \in Seq(S) /\ DOMAIN q = 1..n
  OBVIOUS
<1>2. PICK p \in 1..n :
         /\ sc.rest = SubSeq(q, p, n)
         /\ ToSet(gt) = Led({q[i] : i \in 1..(p - 1)})
         /\ q[p] \in DOMAIN table /\ sc.next = table[q[p]]
  <2>1. PICK p \in 1..(n + 1) :
           /\ sc.rest = SubSeq(q, p, n)
           /\ ToSet(gt) = Led({q[i] : i \in 1..(p - 1)})
           /\ \/ p = n + 1 /\ sc.next = 0
              \/ p <= n /\ q[p] \in DOMAIN table /\ sc.next = table[q[p]]
    BY DEF TextsOk
  <2>2. p \in 1..n
    BY <1>1, <2>1
  <2> QED BY <2>1, <2>2
<1>3. Tail(sc.rest) = SubSeq(q, p + 1, n) /\ p + 1 \in 1..(n + 1)
  BY <1>1, <1>2
<1>4. IsTextFrom(new, sc, p + 1)
  <2>1. new = TextsNext(sc, SubSeq(q, p + 1, n))
    BY <1>3
  <2> QED BY <1>3, <2>1, TextsNextIs
<1>5. PICK r \in (p + 1)..(n + 1) :
         /\ new.rest = SubSeq(q, r, n)
         /\ \A i \in (p + 1)..(r - 1) : q[i] \notin DOMAIN table
         /\ \/ r = n + 1 /\ new.next = 0
            \/ r <= n /\ q[r] \in DOMAIN table /\ new.next = table[q[r]]
  BY <1>4 DEF IsTextFrom
<1>6. IsScan(new) /\ new.op = sc.op /\ new.arg = q
  BY <1>4 DEF IsTextFrom
<1>7. sc.next \in Live /\ gt \in Seq(Live)
  BY <1>2 DEF StoreOk, TableOk, TextsOk
<1>8. Append(gt, sc.next) \in Seq(Live) /\ ToSet(Append(gt, sc.next)) = ToSet(gt) \cup {sc.next}
  <2>1. Append(gt, sc.next) \in Seq(Live)
    BY <1>7
  <2>2. /\ DOMAIN Append(gt, sc.next) = 1..(Len(gt) + 1) /\ DOMAIN gt = 1..Len(gt)
        /\ Len(gt) \in Nat
        /\ \A i \in 1..Len(gt) : Append(gt, sc.next)[i] = gt[i]
        /\ Append(gt, sc.next)[Len(gt) + 1] = sc.next
    BY <1>7
  <2>3. \A i : i \in 1..(Len(gt) + 1) <=> i \in 1..Len(gt) \/ i = Len(gt) + 1
    BY <2>2
  <2> QED BY <2>1, <2>2, <2>3 DEF ToSet
<1>9. Led({q[i] : i \in 1..(r - 1)}) = Led({q[i] : i \in 1..(p - 1)}) \cup {table[q[p]]}
  <2>1. \A i \in 1..(r - 1) : i \in 1..(p - 1) \/ i = p \/ i \in (p + 1)..(r - 1)
    BY <1>1, <1>2, <1>5
  <2>2. \A i \in 1..(p - 1) : i \in 1..(r - 1)
    BY <1>1, <1>2, <1>5
  <2>3. p \in 1..(r - 1)
    BY <1>1, <1>2, <1>5
  <2>4. {q[i] : i \in 1..(r - 1)} \cap DOMAIN table
           = ({q[i] : i \in 1..(p - 1)} \cap DOMAIN table) \cup {q[p]}
    BY <1>2, <1>5, <2>1, <2>2, <2>3
  <2> QED BY <2>4 DEF Led
<1>10. r \in 1..(n + 1)
  BY <1>1, <1>2, <1>5
<1>11. TextsOk(new, Append(gt, sc.next))
  <2> DEFINE got2 == Append(gt, sc.next)
             seen == {q[i] : i \in 1..(r - 1)}
  <2>1. got2 \in Seq(Live) /\ ToSet(got2) = Led(seen)
    BY <1>2, <1>8, <1>9
  <2> HIDE DEF got2
  <2>2. /\ r \in 1..(Len(new.arg) + 1)
        /\ new.rest = SubSeq(new.arg, r, Len(new.arg))
        /\ ToSet(got2) = Led({new.arg[i] : i \in 1..(r - 1)})
        /\ \/ r = Len(new.arg) + 1 /\ new.next = 0
           \/ /\ r <= Len(new.arg) /\ new.arg[r] \in DOMAIN table
              /\ new.next = table[new.arg[r]]
    BY <1>5, <1>6, <1>10, <2>1
  <2>3. TextsOk(new, got2)
    BY <2>1, <2>2 DEF TextsOk
  <2> QED BY <2>3 DEF got2
<1> QED BY <1>6, <1>7, <1>11

\* A scan for the set with a text has delivered it or has it next.
IncludesOk(sc, gt) ==
    \/ gt = <<>> /\ sc.next = TableGet(table, sc.arg)
    \/ /\ sc.next = 0 /\ sc.arg \in DOMAIN table
       /\ gt = <<table[sc.arg]>>

\* The sets with a text that is like another.
LikeVids(text) == Led({x \in DOMAIN table : Like(x, text)})

\* The values that a topic occurs in.
Holding(t) == Holders(Live, cell)[t]

\* The a-sidp store alone has an index.
ByIndex(sc) == kind = "ASidp" /\ sc.op = "ASIDP_VALUE_INCLUDES_TOPICS"

Linear(sc) == kind # "TextSet" /\ ~ByIndex(sc)

\* How far a scan has come.
ScanGoing(sc, gt) ==
    /\ IsScan(sc) /\ <<sc.op, sc.arg>> \in ScansOf(kind)
    /\ sc.op = "TextSet_NOT_DISJOINT" => TextsOk(sc, gt)
    /\ sc.op = "TextSet_INCLUDES" => IncludesOk(sc, gt)
    /\ sc.op = "TextSet_LIKE" => ListedOk(sc, gt, LikeVids(sc.arg))
    /\ ByIndex(sc) => ListedOk(sc, gt, Holding(sc.arg))
    /\ Linear(sc) => LinearOk(sc, gt)

\* What can be asked of a store.
AskedText(op, arg) == op = "Text_LIKE" /\ arg \in Seq(Char)

AskedTopicSet(op, arg) == op = "TOPICSET_VALUE_INCLUDES_TOPICS" /\ arg \in Topic

AskedTextSet(op, arg) ==
    \/ op = "TextSet_NOT_DISJOINT" /\ arg \in Seq(Seq(Char))
    \/ op \in {"TextSet_INCLUDES", "TextSet_LIKE"} /\ arg \in Seq(Char)

AskedASidp(op, arg) ==
    \/ op \in {"ASIDP_HAS_TYPE", "ASIDP_VALUE_INCLUDES_TOPICS"} /\ arg \in Topic
    \/ op = "ASIDP_HAS_PLAYER_PAIR" /\ arg \in Membership

LEMMA AskedIs ==
    ASSUME NEW op, NEW arg, <<op, arg>> \in ScansOf(kind), kind \in Kinds
    PROVE  \/ kind = "Text" /\ AskedText(op, arg)
           \/ kind = "TopicSet" /\ AskedTopicSet(op, arg)
           \/ kind = "TextSet" /\ AskedTextSet(op, arg)
           \/ kind \in {"ASidp", "SlowASidp"} /\ AskedASidp(op, arg)
<1>1. kind \in {"Text", "Integer", "TopicSet", "TextSet", "ASidp", "SlowASidp"}
  BY DEF Kinds
<1>2. CASE kind = "Text"
  BY <1>2 DEF ScansOf, AskedText
<1>3. CASE kind = "TopicSet"
  BY <1>3 DEF ScansOf, AskedTopicSet
<1>4. CASE kind = "TextSet"
  BY <1>4 DEF ScansOf, AskedTextSet
<1>5. CASE kind \in {"ASidp", "SlowASidp"}
  BY <1>5 DEF ScansOf, AskedASidp
<1>6. CASE kind = "Integer"
  BY <1>6 DEF ScansOf
<1> QED BY <1>1, <1>2, <1>3, <1>4, <1>5, <1>6

LEMMA LiveFinite ==
    ASSUME StoreOk, NEW T \in SUBSET Live
    PROVE  IsFiniteSet(T)
<1>1. count \in Nat /\ T \in SUBSET (1..count)
  BY LiveTyped
<1>2. IsFiniteSet(1..count)
  BY <1>1, FS_Interval
<1> QED BY <1>1, <1>2, FS_Subset

\* What the topic index has is what the topic occurs in.
LEMMA IndexedIs ==
    ASSUME StoreOk, kind = "ASidp", NEW t \in Topic, NEW vids \in IndexedVids(t)
    PROVE  Enumerates(vids, Live, Holding(t))
<1>1. IndexFits(index, Holders(Live, cell), Places(Live, cell))
  BY DEF StoreOk, IndexOk
<1>2. Holding(t) \in SUBSET Live
  BY DEF Holding, Holders
<1>3. CASE t \notin DOMAIN index
  <2>1. vids = <<>>
    BY <1>3 DEF IndexedVids
  <2>2. Holding(t) = {}
    BY <1>1, <1>3 DEF IndexFits, Holding
  <2>3. Enumerates(<<>>, Live, {})
    BY EmptyEnumerates DEF Enumerates
  <2> QED BY <2>1, <2>2, <2>3
<1>4. CASE t \in DOMAIN index
  <2> DEFINE b == index[t]
  <2>1. Fits(b, Holding(t), Places(Live, cell)[t])
    BY <1>1, <1>4 DEF IndexFits, Holding
  <2>2. vids \in IF b.isTable THEN SetToSeqs(DOMAIN b.tab) ELSE {ListCopy(b.list)}
    BY <1>4 DEF IndexedVids, TableKeys
  <2>3. CASE b.isTable
    <3>1. DOMAIN b.tab = Holding(t)
      BY <2>1, <2>3 DEF Fits, BucketVids
    <3>2. vids \in SetToSeqs(Holding(t))
      BY <2>2, <2>3, <3>1
    <3> QED BY <1>2, <3>2, LiveFinite, SetToSeqsEnumerate
  <2>4. CASE ~b.isTable
    <3> DEFINE list == b.list
    <3>1. list \in Lists(Number) /\ ToSet(list) = Holding(t)
      BY <2>1, <2>4 DEF Fits, BucketVids, Buckets
    <3>2. vids = ListCopy(list)
      BY <2>2, <2>4
    <3> HIDE DEF list
    <3>3. Enumerates(vids, Number, Holding(t))
      BY <3>1, <3>2, CopyEnumerates
    <3>4. vids \in Seq(Number) /\ ToSet(vids) \subseteq Live
      BY <1>2, <3>3 DEF Enumerates, Lists
    <3>5. vids \in Seq(Live)
      BY <3>4, SeqOver
    <3> QED BY <3>3, <3>5 DEF Enumerates, Lists
  <2> QED BY <2>3, <2>4
<1> QED BY <1>3, <1>4

LEMMA SetsLikeAre ==
    ASSUME StoreOk, NEW text, NEW vids \in SetsLike(text)
    PROVE  Enumerates(vids, Live, LikeVids(text))
<1>1. SetsLike(text) = SetToSeqs(LikeVids(text))
  <2>1. {table[x] : x \in {y \in DOMAIN table : Like(y, text)}} = LikeVids(text)
    BY DEF LikeVids, Led
  <2> QED BY <2>1 DEF SetsLike
<1>2. LikeVids(text) \in SUBSET Live
  BY DEF LikeVids, Led, StoreOk, TableOk
<1> QED BY <1>1, <1>2, LiveFinite, SetToSeqsEnumerate

\* What a scan is opened with.
Fresh(op, arg) == [NoScan EXCEPT !.op = op, !.arg = arg]

\* A scan that is opened starts with nothing delivered.
LEMMA OpenedIs ==
    ASSUME StoreOk, NEW op, NEW arg, <<op, arg>> \in ScansOf(kind),
           NEW new \in Opened(Fresh(op, arg))
    PROVE  ScanGoing(new, <<>>)
<1> DEFINE sc == Fresh(op, arg)
<1>1. sc = [op |-> op, arg |-> arg, next |-> 0, at |-> 0, rest |-> <<>>]
  <2> DEFINE none == [op |-> "none", arg |-> 0, next |-> 0, at |-> 0, rest |-> <<>>]
             sc1 == [none EXCEPT !.op = op]
  <2>1. sc1 = [op |-> op, arg |-> 0, next |-> 0, at |-> 0, rest |-> <<>>]
    OBVIOUS
  <2>2. [sc1 EXCEPT !.arg = arg] = [op |-> op, arg |-> arg, next |-> 0, at |-> 0,
                                    rest |-> <<>>]
    <3> HIDE DEF sc1
    <3> QED BY <2>1
  <2>3. sc = [sc1 EXCEPT !.arg = arg]
    BY DEF NoScan, Fresh
  <2> HIDE DEF sc, sc1
  <2> QED BY <2>2, <2>3
<1>2. new \in Opened(sc)
  OBVIOUS
<1> HIDE DEF sc
<1>3. IsScan(sc) /\ sc.op = op /\ sc.arg = arg
  BY <1>1 DEF IsScan
<1>4. kind \in Kinds
  BY LiveTyped
<1>5. CASE kind = "Text" /\ AskedText(op, arg)
  <2>1. new = LinearNext(sc, 1)
    BY <1>2, <1>5 DEF Opened, OpenText
  <2>2. LinearOk(new, <<>>) /\ IsScan(new) /\ new.op = op /\ new.arg = arg
    BY <1>3, <2>1, LinearOpens
  <2> QED BY <1>5, <2>2 DEF ScanGoing, AskedText, ByIndex
<1>6. CASE kind = "TopicSet" /\ AskedTopicSet(op, arg)
  <2>1. new = LinearNext(sc, 1)
    BY <1>2, <1>6 DEF Opened, OpenTopicSet
  <2>2. LinearOk(new, <<>>) /\ IsScan(new) /\ new.op = op /\ new.arg = arg
    BY <1>3, <2>1, LinearOpens
  <2> QED BY <1>6, <2>2 DEF ScanGoing, AskedTopicSet, ByIndex
<1>7. CASE kind = "TextSet" /\ AskedTextSet(op, arg)
  <2>1. Opened(sc) = OpenTextSet(sc)
    BY <1>7 DEF Opened
  <2>2. CASE op = "TextSet_NOT_DISJOINT" /\ arg \in Seq(Seq(Char))
    <3>1. new = TextsNext(sc, sc.arg)
      BY <1>2, <1>3, <2>1, <2>2 DEF OpenTextSet
    <3>2. TextsOk(new, <<>>) /\ IsScan(new) /\ new.op = op /\ new.arg = arg
      BY <1>3, <2>2, <3>1, TextsOpens
    <3> QED BY <1>7, <2>2, <3>2 DEF ScanGoing, ByIndex, Linear
  <2>3. CASE op = "TextSet_INCLUDES"
    <3>1. new = [sc EXCEPT !.next = TableGet(table, sc.arg)]
      BY <1>2, <1>3, <2>1, <2>3 DEF OpenTextSet
    <3> DEFINE w == TableGet(table, sc.arg)
    <3>2. new = [op |-> op, arg |-> arg, next |-> w, at |-> sc.at, rest |-> sc.rest]
      BY <1>3, <3>1 DEF IsScan
    <3> HIDE DEF w
    <3>3. IsScan(new) /\ new.op = op /\ new.arg = arg /\ new.next = w
      BY <3>2 DEF IsScan
    <3>4. IncludesOk(new, <<>>)
      BY <1>3, <3>3 DEF IncludesOk, w
    <3> QED BY <1>7, <2>3, <3>3, <3>4 DEF ScanGoing, ByIndex, Linear
  <2>4. CASE op = "TextSet_LIKE"
    <3>1. PICK vids \in SetsLike(arg) : new = ListedNext(sc, vids)
      BY <1>2, <1>3, <2>1, <2>4 DEF OpenTextSet
    <3>2. Enumerates(vids, Live, LikeVids(arg))
      BY SetsLikeAre
    <3>3. ListedOk(new, <<>>, LikeVids(arg)) /\ IsScan(new) /\ new.op = op /\ new.arg = arg
      BY <1>3, <3>1, <3>2, ListedOpens
    <3> QED BY <1>7, <2>4, <3>3 DEF ScanGoing, ByIndex, Linear
  <2> QED BY <1>7, <2>2, <2>3, <2>4 DEF AskedTextSet
<1>8. CASE kind \in {"ASidp", "SlowASidp"} /\ AskedASidp(op, arg)
  <2>1. CASE ByIndex(sc)
    <3>1. kind = "ASidp" /\ op = "ASIDP_VALUE_INCLUDES_TOPICS" /\ arg \in Topic
      BY <1>3, <1>8, <2>1 DEF ByIndex, AskedASidp
    <3>2. PICK vids \in IndexedVids(arg) : new = ListedNext(sc, vids)
      BY <1>2, <1>3, <3>1 DEF Opened, OpenASidp
    <3>3. Enumerates(vids, Live, Holding(arg))
      BY <3>1, IndexedIs
    <3>4. ListedOk(new, <<>>, Holding(arg)) /\ IsScan(new) /\ new.op = op /\ new.arg = arg
      BY <1>3, <3>2, <3>3, ListedOpens
    <3> QED BY <3>1, <3>4 DEF ScanGoing, ByIndex, Linear
  <2>2. CASE ~ByIndex(sc)
    <3>1. new = LinearNext(sc, 1)
      BY <1>2, <1>3, <1>8, <2>2 DEF Opened, OpenASidp, OpenSlowASidp, ByIndex
    <3>2. LinearOk(new, <<>>) /\ IsScan(new) /\ new.op = op /\ new.arg = arg
      BY <1>3, <3>1, LinearOpens
    <3>3. ~ByIndex(new)
      BY <1>3, <2>2, <3>2 DEF ByIndex
    <3> QED BY <1>8, <3>2, <3>3 DEF ScanGoing, AskedASidp
  <2> QED BY <2>1, <2>2
<1> QED BY <1>4, <1>5, <1>6, <1>7, <1>8, AskedIs

\* The next value of a scan is a live one, and fetching it goes on.
LEMMA AdvancedIs ==
    ASSUME StoreOk, NEW sc, NEW gt, ScanGoing(sc, gt), sc.next # 0,
           NEW new, new = Advanced(sc)
    PROVE  ScanGoing(new, Append(gt, sc.next)) /\ sc.next \in Live
<1> DEFINE op == sc.op
           arg == sc.arg
           got2 == Append(gt, sc.next)
<1>1. IsScan(sc) /\ <<op, arg>> \in ScansOf(kind) /\ kind \in Kinds
  BY LiveTyped DEF ScanGoing
<1>2. ASSUME Linear(sc), new = LinearNext(sc, sc.at + 1),
             op \notin {"TextSet_NOT_DISJOINT", "TextSet_INCLUDES", "TextSet_LIKE"}
      PROVE  ScanGoing(new, got2) /\ sc.next \in Live
  <2>1. LinearOk(sc, gt)
    BY <1>2 DEF ScanGoing
  <2>2. LinearOk(new, got2) /\ IsScan(new) /\ new.op = op /\ new.arg = arg
    BY <1>1, <1>2, <2>1, LinearFetches
  <2>3. sc.next \in Live
    BY <2>1 DEF LinearOk, Hits
  <2>4. ~ByIndex(new)
    BY <1>2, <2>2 DEF Linear, ByIndex
  <2> QED BY <1>1, <1>2, <2>2, <2>3, <2>4 DEF ScanGoing
<1>3. CASE kind = "Text" /\ AskedText(op, arg)
  <2>1. new = LinearNext(sc, sc.at + 1)
    BY <1>3 DEF Advanced, NextText
  <2> QED BY <1>2, <1>3, <2>1 DEF AskedText, Linear, ByIndex
<1>4. CASE kind = "TopicSet" /\ AskedTopicSet(op, arg)
  <2>1. new = LinearNext(sc, sc.at + 1)
    BY <1>4 DEF Advanced, NextTopicSet
  <2> QED BY <1>2, <1>4, <2>1 DEF AskedTopicSet, Linear, ByIndex
<1>5. CASE kind = "TextSet" /\ AskedTextSet(op, arg)
  <2>1. Advanced(sc) = NextTextSet(sc)
    BY <1>5 DEF Advanced
  <2>2. CASE op = "TextSet_NOT_DISJOINT" /\ arg \in Seq(Seq(Char))
    <3>1. new = TextsNext(sc, Tail(sc.rest))
      BY <2>1, <2>2 DEF NextTextSet
    <3>2. TextsOk(sc, gt)
      BY <2>2 DEF ScanGoing
    <3>3. /\ TextsOk(new, got2) /\ IsScan(new) /\ new.op = op /\ new.arg = arg
          /\ sc.next \in Live
      BY <1>1, <2>2, <3>1, <3>2, TextsFetches
    <3> QED BY <1>1, <1>5, <2>2, <3>3 DEF ScanGoing, ByIndex, Linear
  <2>3. CASE op = "TextSet_INCLUDES"
    <3>1. new = [sc EXCEPT !.next = 0]
      BY <2>1, <2>3 DEF NextTextSet
    <3>2. new = [op |-> op, arg |-> arg, next |-> 0, at |-> sc.at, rest |-> sc.rest]
      BY <1>1, <3>1 DEF IsScan
    <3>3. IsScan(new) /\ new.op = op /\ new.arg = arg /\ new.next = 0
      BY <3>2 DEF IsScan
    <3>4. gt = <<>> /\ arg \in DOMAIN table /\ sc.next = table[arg]
      BY <2>3 DEF ScanGoing, IncludesOk, TableGet
    <3>5. sc.next \in Live
      BY <3>4 DEF StoreOk, TableOk
    <3>6. got2 = <<table[arg]>>
      BY <3>4
    <3>7. IncludesOk(new, got2)
      BY <3>3, <3>4, <3>6 DEF IncludesOk
    <3> QED BY <1>1, <1>5, <2>3, <3>3, <3>5, <3>7 DEF ScanGoing, ByIndex, Linear
  <2>4. CASE op = "TextSet_LIKE"
    <3>1. new = ListedNext(sc, Tail(sc.rest))
      BY <2>1, <2>4 DEF NextTextSet
    <3>2. ListedOk(sc, gt, LikeVids(arg))
      BY <2>4 DEF ScanGoing
    <3>3. /\ ListedOk(new, got2, LikeVids(arg)) /\ IsScan(new) /\ new.op = op
          /\ new.arg = arg /\ sc.next \in Live
      BY <1>1, <3>1, <3>2, ListedFetches
    <3> QED BY <1>1, <1>5, <2>4, <3>3 DEF ScanGoing, ByIndex, Linear
  <2> QED BY <1>5, <2>2, <2>3, <2>4 DEF AskedTextSet
<1>6. CASE kind \in {"ASidp", "SlowASidp"} /\ AskedASidp(op, arg)
  <2>1. CASE ByIndex(sc)
    <3>1. new = ListedNext(sc, Tail(sc.rest))
      BY <2>1 DEF ByIndex, Advanced, NextASidp
    <3>2. ListedOk(sc, gt, Holding(arg))
      BY <2>1 DEF ScanGoing
    <3>3. /\ ListedOk(new, got2, Holding(arg)) /\ IsScan(new) /\ new.op = op
          /\ new.arg = arg /\ sc.next \in Live
      BY <1>1, <3>1, <3>2, ListedFetches
    <3>4. kind = "ASidp" /\ op = "ASIDP_VALUE_INCLUDES_TOPICS"
      BY <2>1 DEF ByIndex
    <3> QED BY <1>1, <3>3, <3>4 DEF ScanGoing, ByIndex, Linear
  <2>2. CASE ~ByIndex(sc)
    <3>1. new = LinearNext(sc, sc.at + 1)
      BY <1>6, <2>2 DEF Advanced, NextASidp, NextSlowASidp, ByIndex
    <3>2. Linear(sc)
      BY <1>6, <2>2 DEF Linear
    <3> QED BY <1>2, <1>6, <3>1, <3>2 DEF AskedASidp
  <2> QED BY <2>1, <2>2
<1> QED BY <1>1, <1>3, <1>4, <1>5, <1>6, AskedIs

\* The search that ignores case, said of the texts.
LEMMA LikeOccurs ==
    ASSUME NEW text \in Seq(Char), NEW needle \in Seq(Char)
    PROVE  Like(text, needle) <=> text # <<>> /\ Occurs(needle, text)
<1> DEFINE n == Len(text)
           m == Len(needle)
           l(c) == IF c \in 65..90 THEN c + 32 ELSE c
           low(x) == [i \in DOMAIN x |-> IF x[i] \in 65..90 THEN x[i] + 32 ELSE x[i]]
           Here(i) == \A j \in 1..m : l(text[i + j]) = l(needle[j])
<1>1. n \in Nat /\ m \in Nat /\ DOMAIN text = 1..n /\ DOMAIN needle = 1..m
  OBVIOUS
<1>2. \A c \in Char : ToLower(c) = l(c)
  BY DEF Char, ToLower
<1>3. \A i \in 1..n : text[i] \in Char
  BY <1>1
<1>4. \A i \in 1..m : needle[i] \in Char
  BY <1>1
<1>5. ASSUME NEW i \in 0..(n - m) PROVE low(SubSeq(text, i + 1, i + m)) = low(needle) <=> Here(i)
  <2> DEFINE part == SubSeq(text, i + 1, i + m)
  <2>1. Len(part) = m /\ DOMAIN part = 1..m /\ \A j \in 1..m : part[j] = text[i + j]
    <3>1. i + 1 \in 1..(n + 1) /\ i + m \in 0..n /\ (i + m) - (i + 1) + 1 = m
      BY <1>1
    <3>2. Len(part) = m /\ DOMAIN part = 1..m
      BY <1>1, <3>1
    <3>3. ASSUME NEW j \in 1..m PROVE part[j] = text[i + j]
      <4>1. part[j] = text[(i + 1) + j - 1]
        BY <1>1, <3>1, <3>2
      <4> QED BY <1>1, <4>1
    <3> QED BY <3>2, <3>3
  <2> HIDE DEF part
  <2>2. low(part) = [j \in 1..m |-> l(text[i + j])]
    BY <2>1
  <2>3. low(needle) = [j \in 1..m |-> l(needle[j])]
    BY <1>1
  <2> HIDE DEF l, low
  <2>4. low(part) = low(needle) => Here(i)
    <3> SUFFICES ASSUME low(part) = low(needle), NEW j \in 1..m
                 PROVE  l(text[i + j]) = l(needle[j])
      OBVIOUS
    <3>1. low(part)[j] = l(text[i + j]) /\ low(needle)[j] = l(needle[j])
      BY <2>2, <2>3
    <3> QED BY <3>1
  <2>5. Here(i) => low(part) = low(needle)
    BY <2>2, <2>3
  <2> QED BY <2>4, <2>5 DEF part
<1>6. Occurs(needle, text) <=> \E i \in 0..(n - m) : low(SubSeq(text, i + 1, i + m)) = low(needle)
  BY DEF Occurs
<1>7. Occurs(needle, text) <=> \E i \in 0..(n - m) : Here(i)
  <2> HIDE DEF Here, low
  <2> QED BY <1>5, <1>6
<1>8. ASSUME NEW at \in 1..n, at + m <= n + 1
      PROVE  (\A i \in DOMAIN needle : ToLower(text[at + i - 1]) = ToLower(needle[i]))
                <=> Here(at - 1)
  <2>1. ASSUME NEW j \in 1..m
        PROVE  /\ ToLower(text[at + j - 1]) = l(text[(at - 1) + j])
               /\ ToLower(needle[j]) = l(needle[j])
    <3>1. at + j - 1 \in 1..n /\ at + j - 1 = (at - 1) + j
      BY <1>1, <1>8
    <3> HIDE DEF l
    <3> QED BY <1>2, <1>3, <1>4, <3>1
  <2> HIDE DEF l
  <2> QED BY <1>1, <2>1
<1> HIDE DEF Here, low
<1>9. Like(text, needle) <=> \E at \in 1..n : at + m <= n + 1 /\ Here(at - 1)
  <2>1. Like(text, needle) <=> \E at \in 1..n :
           /\ at + m <= n + 1
           /\ \A i \in DOMAIN needle : ToLower(text[at + i - 1]) = ToLower(needle[i])
    BY <1>1 DEF Like
  <2> QED BY <1>8, <2>1
<1>10. ASSUME Like(text, needle) PROVE text # <<>> /\ Occurs(needle, text)
  <2>1. PICK at \in 1..n : at + m <= n + 1 /\ Here(at - 1)
    BY <1>9, <1>10
  <2>2. at - 1 \in 0..(n - m) /\ n # 0
    BY <1>1, <2>1
  <2> QED BY <1>7, <2>1, <2>2
<1>11. ASSUME text # <<>>, Occurs(needle, text) PROVE Like(text, needle)
  <2>1. PICK i \in 0..(n - m) : Here(i)
    BY <1>7, <1>11
  <2>2. n >= 1
    BY <1>1, <1>11
  <2>3. CASE m = 0
    <3>1. 1 \in 1..n /\ 1 + m <= n + 1 /\ Here(1 - 1)
      BY <1>1, <2>2, <2>3 DEF Here
    <3> QED BY <1>9, <3>1
  <2>4. CASE m # 0
    <3>1. i + 1 \in 1..n /\ (i + 1) + m <= n + 1 /\ (i + 1) - 1 = i
      BY <1>1, <2>4
    <3> QED BY <1>9, <2>1, <3>1
  <2> QED BY <2>3, <2>4
<1> QED BY <1>10, <1>11

\* The topics in the array of an assertion are its type, roles and players.
LEMMA TopicsAre ==
    ASSUME NEW v \in ASidpType, NEW t
    PROVE  t \in ToSet(TopicsOf(v)) <=>
              t = v.type \/ \E m \in ToSet(v.members) : t = m.role \/ t = m.player
<1> DEFINE n == Len(v.members)
           q == TopicsOf(v)
<1>1. v.members \in Seq(Membership) /\ n \in Nat /\ DOMAIN v.members = 1..n
  BY DEF ASidpType
<1>2. q = [i \in 1..(1 + 2 * n) |->
             IF i = 1 THEN v.type
             ELSE IF i % 2 = 0 THEN v.members[i \div 2].role
             ELSE v.members[i \div 2].player]
  BY DEF TopicsOf
<1>3. DOMAIN q = 1..(1 + 2 * n) /\ q[1] = v.type
  BY <1>1, <1>2
<1>4. ASSUME NEW k \in 1..n
      PROVE  /\ 2 * k \in DOMAIN q /\ q[2 * k] = v.members[k].role
             /\ 2 * k + 1 \in DOMAIN q /\ q[2 * k + 1] = v.members[k].player
  <2>1. /\ 2 * k \in DOMAIN q /\ 2 * k + 1 \in DOMAIN q /\ 2 * k # 1 /\ 2 * k + 1 # 1
        /\ (2 * k) % 2 = 0 /\ (2 * k) \div 2 = k
        /\ (2 * k + 1) % 2 = 1 /\ (2 * k + 1) \div 2 = k
    BY <1>1, <1>3
  <2> QED BY <1>2, <1>3, <2>1
<1>5. ASSUME NEW i \in 1..(1 + 2 * n)
      PROVE  i = 1 \/ \E k \in 1..n : i = 2 * k \/ i = 2 * k + 1
  <2>1. i = 1 \/ (i \div 2 \in 1..n /\ (i = 2 * (i \div 2) \/ i = 2 * (i \div 2) + 1))
    BY <1>1
  <2> QED BY <2>1
<1> HIDE DEF q
<1>6. ASSUME t \in ToSet(q)
      PROVE  t = v.type \/ \E m \in ToSet(v.members) : t = m.role \/ t = m.player
  <2>1. PICK i \in 1..(1 + 2 * n) : q[i] = t
    BY <1>3, <1>6 DEF ToSet
  <2>2. CASE i = 1
    BY <1>3, <2>1, <2>2
  <2>3. CASE i # 1
    <3>1. PICK k \in 1..n : i = 2 * k \/ i = 2 * k + 1
      BY <1>5, <2>3
    <3>2. v.members[k] \in ToSet(v.members)
      BY <1>1 DEF ToSet
    <3> QED BY <1>4, <2>1, <3>1, <3>2
  <2> QED BY <2>2, <2>3
<1>7. ASSUME t = v.type PROVE t \in ToSet(q)
  <2>1. 1 \in DOMAIN q
    BY <1>1, <1>3
  <2> QED BY <1>3, <1>7, <2>1 DEF ToSet
<1>8. ASSUME NEW m \in ToSet(v.members), t = m.role \/ t = m.player
      PROVE  t \in ToSet(q)
  <2>1. PICK k \in 1..n : v.members[k] = m
    BY <1>1 DEF ToSet
  <2> QED BY <1>4, <1>8, <2>1 DEF ToSet
<1>9. t \in ToSet(q) <=>
         t = v.type \/ \E m \in ToSet(v.members) : t = m.role \/ t = m.player
  BY <1>6, <1>7, <1>8
<1> QED BY <1>9 DEF q

\* The sets that some texts lead to are those that have one of them.
LEMMA LedAre ==
    ASSUME StoreOk, kind = "TextSet", NEW T
    PROVE  Led(T) = {v \in Live : T \cap ToSet(cell[v]) # {}}
<1>1. /\ \A y \in DOMAIN table : table[y] \in Live /\ y \in ToSet(cell[table[y]])
      /\ \A u \in Live : \A y \in ToSet(cell[u]) : y \in DOMAIN table /\ table[y] = u
  <2>1. \A y : KeysOf(kind, y) = ToSet(y)
    BY DEF KeysOf
  <2> QED BY <2>1 DEF StoreOk, TableOk
<1>2. ASSUME NEW v \in Led(T) PROVE v \in Live /\ T \cap ToSet(cell[v]) # {}
  <2>1. PICK x \in T \cap DOMAIN table : v = table[x]
    BY DEF Led
  <2> QED BY <1>1, <2>1
<1>3. ASSUME NEW v \in Live, NEW x \in T \cap ToSet(cell[v]) PROVE v \in Led(T)
  BY <1>1 DEF Led
<1> QED BY <1>2, <1>3

\* What a scan is for, by what the values mean.
Meant(sc) == {v \in Live : Satisfies(sc.op, sc.arg, Meaning(kind, cell[v])[2])}

LEMMA TextMeans ==
    ASSUME StoreOk, kind = "Text", NEW sc, AskedText(sc.op, sc.arg)
    PROVE  Hits(sc) = Meant(sc)
<1> SUFFICES ASSUME NEW v \in Live
             PROVE  Passes(sc.op, sc.arg, cell[v])
                       <=> Satisfies(sc.op, sc.arg, Meaning(kind, cell[v])[2])
  BY DEF Hits, Meant
<1>1. cell[v] \in Seq(Char) /\ sc.op = "Text_LIKE" /\ sc.arg \in Seq(Char)
  BY LiveTyped DEF ValuesOf, AskedText
<1>2. Meaning(kind, cell[v])[2] = cell[v]
  BY DEF Meaning
<1>3. Passes(sc.op, sc.arg, cell[v]) <=> Like(cell[v], sc.arg)
  BY <1>1 DEF Passes
<1>4. Satisfies(sc.op, sc.arg, cell[v]) <=> cell[v] # <<>> /\ Occurs(sc.arg, cell[v])
  BY <1>1 DEF Satisfies
<1> QED BY <1>1, <1>2, <1>3, <1>4, LikeOccurs

LEMMA TopicSetMeans ==
    ASSUME StoreOk, kind = "TopicSet", NEW sc, AskedTopicSet(sc.op, sc.arg)
    PROVE  Hits(sc) = Meant(sc)
<1> SUFFICES ASSUME NEW v \in Live
             PROVE  Passes(sc.op, sc.arg, cell[v])
                       <=> Satisfies(sc.op, sc.arg, Meaning(kind, cell[v])[2])
  BY DEF Hits, Meant
<1>1. cell[v] \in Seq(Topic) /\ sc.op = "TOPICSET_VALUE_INCLUDES_TOPICS"
  BY LiveTyped DEF ValuesOf, AskedTopicSet
<1>2. Meaning(kind, cell[v])[2] = ToSet(cell[v])
  BY DEF Meaning
<1>3. Passes(sc.op, sc.arg, cell[v]) <=> Contains(cell[v], sc.arg)
  BY <1>1 DEF Passes, SetContains
<1>4. Satisfies(sc.op, sc.arg, ToSet(cell[v])) <=> sc.arg \in ToSet(cell[v])
  BY <1>1 DEF Satisfies
<1> QED BY <1>1, <1>2, <1>3, <1>4, ContainsIsIn

\* An assertion satisfies what is asked of it by its meaning.
LEMMA ASidpMeans ==
    ASSUME kind \in {"ASidp", "SlowASidp"}, NEW op, NEW arg, AskedASidp(op, arg),
           NEW v \in ASidpType
    PROVE  Passes(op, arg, v) <=> Satisfies(op, arg, Meaning(kind, v)[2])
<1> DEFINE x == [type |-> v.type, members |-> Pairs(v.members)]
<1>1. Meaning(kind, v)[2] = x
  BY DEF Meaning, Pairs
<1>2. x.type = v.type /\ x.members = Pairs(v.members)
  OBVIOUS
<1>3. v.members \in Seq(Membership) /\ ToSet(v.members) \in SUBSET Membership
  BY DEF ASidpType, ToSet
<1> HIDE DEF x
<1>4. CASE op = "ASIDP_HAS_TYPE"
  <2>1. Passes(op, arg, v) <=> v.type = arg
    BY <1>4 DEF Passes
  <2>2. Satisfies(op, arg, x) <=> x.type = arg
    BY <1>4 DEF Satisfies
  <2> QED BY <1>1, <1>2, <2>1, <2>2
<1>5. CASE op = "ASIDP_HAS_PLAYER_PAIR" /\ arg \in Membership
  <2>1. Passes(op, arg, v) <=> Contains(v.members, arg)
    BY <1>5 DEF Passes
  <2>2. Satisfies(op, arg, x) <=> <<arg.role, arg.player>> \in x.members
    BY <1>5 DEF Satisfies
  <2>3. Contains(v.members, arg) <=> arg \in ToSet(v.members)
    BY <1>3, ContainsIsIn
  <2>4. arg \in ToSet(v.members) => <<arg.role, arg.player>> \in Pairs(v.members)
    BY DEF Pairs
  <2>5. ASSUME <<arg.role, arg.player>> \in Pairs(v.members) PROVE arg \in ToSet(v.members)
    <3>1. PICK m \in ToSet(v.members) : <<arg.role, arg.player>> = <<m.role, m.player>>
      BY <2>5 DEF Pairs
    <3>2. m \in Membership /\ m.role = arg.role /\ m.player = arg.player
      BY <1>3, <3>1
    <3>3. m = arg
      BY <1>5, <3>2 DEF Membership
    <3> QED BY <3>3
  <2> QED BY <1>1, <1>2, <2>1, <2>2, <2>3, <2>4, <2>5
<1>6. CASE op = "ASIDP_VALUE_INCLUDES_TOPICS"
  <2>1. Passes(op, arg, v) <=> Contains(TopicsOf(v), arg)
    BY <1>6 DEF Passes
  <2>2. Satisfies(op, arg, x) <=> arg = x.type \/ \E m \in x.members : arg \in {m[1], m[2]}
    BY <1>6 DEF Satisfies
  <2>3. Contains(TopicsOf(v), arg) <=> arg \in ToSet(TopicsOf(v))
    BY TopicsTyped, ContainsIsIn
  <2>4. (\E m \in Pairs(v.members) : arg \in {m[1], m[2]})
          <=> \E m \in ToSet(v.members) : arg = m.role \/ arg = m.player
    <3>1. \A m \in ToSet(v.members) :
             /\ <<m.role, m.player>> \in Pairs(v.members)
             /\ <<m.role, m.player>>[1] = m.role /\ <<m.role, m.player>>[2] = m.player
      BY DEF Pairs
    <3>2. ASSUME NEW m \in Pairs(v.members)
          PROVE  \E k \in ToSet(v.members) : m[1] = k.role /\ m[2] = k.player
      BY DEF Pairs
    <3>3. ASSUME NEW m \in ToSet(v.members), arg = m.role \/ arg = m.player
          PROVE  \E p \in Pairs(v.members) : arg \in {p[1], p[2]}
      <4> DEFINE p == <<m.role, m.player>>
      <4>1. p \in Pairs(v.members) /\ p[1] = m.role /\ p[2] = m.player
        BY <3>1
      <4> HIDE DEF p
      <4> QED BY <3>3, <4>1
    <3>4. ASSUME NEW p \in Pairs(v.members), arg \in {p[1], p[2]}
          PROVE  \E m \in ToSet(v.members) : arg = m.role \/ arg = m.player
      BY <3>2, <3>4
    <3> QED BY <3>3, <3>4
  <2> QED BY <1>1, <1>2, <2>1, <2>2, <2>3, <2>4, TopicsAre
<1> QED BY <1>4, <1>5, <1>6 DEF AskedASidp

LEMMA AssertionsMean ==
    ASSUME StoreOk, kind \in {"ASidp", "SlowASidp"}, NEW sc, AskedASidp(sc.op, sc.arg)
    PROVE  Hits(sc) = Meant(sc)
<1> SUFFICES ASSUME NEW v \in Live
             PROVE  Passes(sc.op, sc.arg, cell[v])
                       <=> Satisfies(sc.op, sc.arg, Meaning(kind, cell[v])[2])
  BY DEF Hits, Meant
<1>1. cell[v] \in ASidpType
  BY LiveTyped DEF ValuesOf
<1> QED BY <1>1, ASidpMeans

\* The index has what a scan without one would find.
LEMMA HoldingIsHits ==
    ASSUME StoreOk, NEW sc, ByIndex(sc), AskedASidp(sc.op, sc.arg)
    PROVE  Holding(sc.arg) = Hits(sc)
<1>1. /\ kind = "ASidp" /\ sc.op = "ASIDP_VALUE_INCLUDES_TOPICS" /\ sc.arg \in Topic
  BY DEF ByIndex, AskedASidp
<1>2. Holding(sc.arg) = {v \in Live : sc.arg \in ToSet(TopicsOf(cell[v]))}
  BY <1>1 DEF Holding, Holders
<1>3. ASSUME NEW v \in Live
      PROVE  Passes(sc.op, sc.arg, cell[v]) <=> sc.arg \in ToSet(TopicsOf(cell[v]))
  <2>1. cell[v] \in ASidpType
    BY <1>1, LiveTyped DEF ValuesOf
  <2>2. TopicsOf(cell[v]) \in Seq(Topic)
    BY <2>1, TopicsTyped
  <2>3. Passes(sc.op, sc.arg, cell[v]) <=> Contains(TopicsOf(cell[v]), sc.arg)
    BY <1>1 DEF Passes
  <2> QED BY <2>2, <2>3, ContainsIsIn
<1> QED BY <1>2, <1>3 DEF Hits

\* A scan at its end.
HasEnded(sc, gt) ==
    /\ ToSet(gt) = Meant(sc)
    /\ sc.op # "TextSet_NOT_DISJOINT" => IsInjective(gt)

LEMMA LinearEnds ==
    ASSUME StoreOk, NEW sc, NEW gt, LinearOk(sc, gt), sc.next = 0, Hits(sc) = Meant(sc)
    PROVE  HasEnded(sc, gt)
<1>1. count \in Nat /\ Live \in SUBSET (1..count)
  BY LiveTyped
<1>2. \A v \in Hits(sc) : v \in 1..count
  BY <1>1 DEF Hits
<1>3. sc.at = count + 1
  BY <1>1, <1>2 DEF LinearOk
<1>4. {v \in Hits(sc) : v < sc.at} = Hits(sc)
  BY <1>1, <1>2, <1>3
<1>5. gt \in Lists(Live) /\ ToSet(gt) = Hits(sc)
  BY <1>4 DEF LinearOk, Enumerates
<1> QED BY <1>5 DEF HasEnded, Lists

LEMMA ListedEnds ==
    ASSUME StoreOk, NEW sc, NEW gt, NEW all, ListedOk(sc, gt, all), sc.next = 0,
           all = Meant(sc)
    PROVE  HasEnded(sc, gt)
<1>1. sc.rest \in Lists(Live) /\ gt \in Lists(Live)
  BY DEF ListedOk
<1>2. sc.rest = <<>>
  <2> SUFFICES ASSUME sc.rest # <<>> PROVE FALSE
    OBVIOUS
  <2>1. Head(sc.rest) \in ToSet(sc.rest) /\ sc.rest \in Seq(Live)
    BY <1>1, TailEnumerates DEF Lists
  <2>2. Head(sc.rest) \in Live
    BY <2>1 DEF ToSet
  <2>3. Head(sc.rest) = 0
    BY DEF ListedOk
  <2> QED BY <2>2, <2>3, LiveTyped
<1>3. ToSet(sc.rest) = {}
  BY <1>2, EmptyEnumerates DEF Enumerates
<1>4. ToSet(gt) = all
  BY <1>3 DEF ListedOk
<1> QED BY <1>1, <1>4 DEF HasEnded, Lists

LEMMA TextSetEnds ==
    ASSUME StoreOk, kind = "TextSet", NEW sc, NEW gt, ScanGoing(sc, gt), sc.next = 0,
           AskedTextSet(sc.op, sc.arg)
    PROVE  HasEnded(sc, gt)
<1> DEFINE arg == sc.arg
<1>1. \A y : Meaning(kind, y)[2] = ToSet(y)
  BY DEF Meaning
<1>2. 0 \notin Live
  BY LiveTyped
<1>3. \A x \in DOMAIN table : table[x] \in Live
  BY DEF StoreOk, TableOk
<1>4. CASE sc.op = "TextSet_NOT_DISJOINT" /\ arg \in Seq(Seq(Char))
  <2>1. Len(arg) \in Nat /\ DOMAIN arg = 1..Len(arg)
    BY <1>4
  <2>2. PICK p \in 1..(Len(arg) + 1) :
           /\ ToSet(gt) = Led({arg[i] : i \in 1..(p - 1)})
           /\ \/ p = Len(arg) + 1 /\ sc.next = 0
              \/ p <= Len(arg) /\ arg[p] \in DOMAIN table /\ sc.next = table[arg[p]]
    BY <1>4 DEF ScanGoing, TextsOk
  <2>3. p = Len(arg) + 1
    BY <1>2, <1>3, <2>2
  <2>4. {arg[i] : i \in 1..(p - 1)} = ToSet(arg)
    <3>1. 1..(p - 1) = DOMAIN arg
      BY <2>1, <2>3
    <3> QED BY <3>1 DEF ToSet
  <2>5. ToSet(gt) = {v \in Live : ToSet(arg) \cap ToSet(cell[v]) # {}}
    BY <2>2, <2>4, LedAre
  <2>6. \A x : Satisfies(sc.op, arg, x) <=> ToSet(arg) \cap x # {}
    BY <1>4 DEF Satisfies
  <2>7. Meant(sc) = {v \in Live : ToSet(arg) \cap ToSet(cell[v]) # {}}
    BY <1>1, <2>6 DEF Meant
  <2> QED BY <1>4, <2>5, <2>7 DEF HasEnded
<1>5. CASE sc.op = "TextSet_INCLUDES"
  <2>1. IncludesOk(sc, gt)
    BY <1>5 DEF ScanGoing
  <2>2. ToSet(gt) = Led({arg}) /\ IsInjective(gt)
    <3>1. CASE gt = <<>> /\ TableGet(table, arg) = 0
      <4>1. arg \notin DOMAIN table
        BY <1>2, <1>3, <3>1 DEF TableGet
      <4>2. Led({arg}) = {}
        BY <4>1 DEF Led
      <4>3. ToSet(<<>>) = {} /\ IsInjective(<<>>)
        BY EmptyEnumerates DEF Enumerates, Lists
      <4> QED BY <3>1, <4>2, <4>3
    <3>2. CASE arg \in DOMAIN table /\ gt = <<table[arg]>>
      <4>1. Led({arg}) = {table[arg]}
        BY <3>2 DEF Led
      <4>2. \A w : ToSet(<<w>>) = {w} /\ IsInjective(<<w>>)
        BY DEF ToSet, IsInjective
      <4> QED BY <3>2, <4>1, <4>2
    <3> QED BY <2>1, <3>1, <3>2 DEF IncludesOk
  <2>3. Led({arg}) = {v \in Live : arg \in ToSet(cell[v])}
    <3>1. Led({arg}) = {v \in Live : {arg} \cap ToSet(cell[v]) # {}}
      BY LedAre
    <3> QED BY <3>1
  <2>4. \A x : Satisfies(sc.op, arg, x) <=> arg \in x
    BY <1>5 DEF Satisfies
  <2>5. Meant(sc) = {v \in Live : arg \in ToSet(cell[v])}
    BY <1>1, <2>4 DEF Meant
  <2> QED BY <2>2, <2>3, <2>5 DEF HasEnded
<1>6. CASE sc.op = "TextSet_LIKE" /\ arg \in Seq(Char)
  <2>1. ListedOk(sc, gt, LikeVids(arg))
    BY <1>6 DEF ScanGoing
  <2> DEFINE T == {x \in DOMAIN table : Like(x, arg)}
  <2>2. LikeVids(arg) = {v \in Live : T \cap ToSet(cell[v]) # {}}
    BY LedAre DEF LikeVids
  <2>3. ASSUME NEW v \in Live
        PROVE  /\ ToSet(cell[v]) \subseteq DOMAIN table
               /\ ToSet(cell[v]) \subseteq Seq(Char)
    <3>1. cell[v] \in Seq(Seq(Char)) /\ KeysOf(kind, cell[v]) = ToSet(cell[v])
      BY LiveTyped, TextsAre DEF Lists
    <3>2. ToSet(cell[v]) \subseteq Seq(Char)
      BY <3>1 DEF ToSet
    <3>3. \A x \in KeysOf(kind, cell[v]) : x \in DOMAIN table
      BY DEF StoreOk, TableOk
    <3> QED BY <3>1, <3>2, <3>3
  <2>4. \A x \in Seq(Char) : Like(x, arg) <=> x # <<>> /\ Occurs(arg, x)
    BY <1>6, LikeOccurs
  <2>5. \A x : Satisfies(sc.op, arg, x) <=> \E text \in x : text # <<>> /\ Occurs(arg, text)
    BY <1>6 DEF Satisfies
  <2>6. ASSUME NEW v \in Live
        PROVE  T \cap ToSet(cell[v]) # {} <=> Satisfies(sc.op, arg, ToSet(cell[v]))
    BY <2>3, <2>4, <2>5
  <2>7. LikeVids(arg) = Meant(sc)
    BY <1>1, <2>2, <2>6 DEF Meant
  <2> QED BY <2>1, <2>7, ListedEnds
<1> QED BY <1>4, <1>5, <1>6 DEF AskedTextSet

LEMMA ScanEnds ==
    ASSUME StoreOk, NEW sc, NEW gt, ScanGoing(sc, gt), sc.next = 0
    PROVE  HasEnded(sc, gt)
<1>1. <<sc.op, sc.arg>> \in ScansOf(kind) /\ kind \in Kinds
  BY LiveTyped DEF ScanGoing
<1>2. CASE kind = "Text" /\ AskedText(sc.op, sc.arg)
  <2>1. LinearOk(sc, gt)
    BY <1>2 DEF ScanGoing, Linear, ByIndex
  <2> QED BY <1>2, <2>1, TextMeans, LinearEnds
<1>3. CASE kind = "TopicSet" /\ AskedTopicSet(sc.op, sc.arg)
  <2>1. LinearOk(sc, gt)
    BY <1>3 DEF ScanGoing, Linear, ByIndex
  <2> QED BY <1>3, <2>1, TopicSetMeans, LinearEnds
<1>4. CASE kind = "TextSet" /\ AskedTextSet(sc.op, sc.arg)
  BY <1>4, TextSetEnds
<1>5. CASE kind \in {"ASidp", "SlowASidp"} /\ AskedASidp(sc.op, sc.arg)
  <2>1. CASE ByIndex(sc)
    <3>1. ListedOk(sc, gt, Holding(sc.arg))
      BY <2>1 DEF ScanGoing
    <3>2. Holding(sc.arg) = Meant(sc)
      BY <1>5, <2>1, HoldingIsHits, AssertionsMean
    <3> QED BY <3>1, <3>2, ListedEnds
  <2>2. CASE ~ByIndex(sc)
    <3>1. LinearOk(sc, gt)
      BY <1>5, <2>2 DEF ScanGoing, Linear
    <3> QED BY <1>5, <3>1, AssertionsMean, LinearEnds
  <2> QED BY <2>1, <2>2
<1> QED BY <1>1, <1>2, <1>3, <1>4, <1>5, AskedIs

-----------------------------------------------------------------------------
(* The invariant *)

CallsOk == count <= MaxVid /\ answer \in 0..MaxVid

\* The program stops only over a live value and a merge set that clash.
FailedOk ==
    failed # <<>> =>
        \E v \in Live, list \in MergeLists :
            /\ failed = <<v, list>> /\ kind \in {"TopicSet", "ASidp"}
            /\ ~ReplacedOk(cell[v], list)

ScanOk ==
    \/ scan.op = "none" /\ scan.next = 0 /\ got = <<>>
    \/ scan.op # "none" /\ ScanGoing(scan, got)

Inv == StoreOk /\ CallsOk /\ FailedOk /\ ScanOk

\* What does not change stays right.
LEMMA StoreStays ==
    ASSUME StoreOk, UNCHANGED <<kind, store>>
    PROVE  StoreOk' /\ Live' = Live
<1>1. Live' = Live
  BY DEF Live, Vids, store
<1>2. StoreOk'
  BY <1>1 DEF StoreOk, store
<1> QED BY <1>1, <1>2

LEMMA ScanStays ==
    ASSUME UNCHANGED <<kind, store>>, ScanGoing(scan', got')
    PROVE  ScanGoing(scan, got)'
<1>0. /\ kind' = kind /\ count' = count /\ size' = size /\ cell' = cell
      /\ table' = table /\ index' = index
  BY DEF store
<1>1. Live' = Live
  BY <1>0 DEF Live, Vids
<1>2. ASSUME NEW T PROVE Led(T)' = Led(T)
  BY <1>0 DEF Led
<1>3. Hits(scan)' = Hits(scan')
  BY <1>0, <1>1 DEF Hits
<1>4. ASSUME NEW t PROVE Holding(t)' = Holding(t)
  BY <1>0, <1>1 DEF Holding
<1>5. ByIndex(scan)' <=> ByIndex(scan')
  BY <1>0 DEF ByIndex
<1>6. Linear(scan)' <=> Linear(scan')
  BY <1>0, <1>5 DEF Linear
<1>7. LinearOk(scan, got)' <=> LinearOk(scan', got')
  BY <1>0, <1>1, <1>3 DEF LinearOk
<1>8. TextsOk(scan, got)' <=> TextsOk(scan', got')
  BY <1>0, <1>1, <1>2 DEF TextsOk
<1>9. IncludesOk(scan, got)' <=> IncludesOk(scan', got')
  BY <1>0 DEF IncludesOk
<1>10. LikeVids(scan.arg)' = LikeVids(scan'.arg)
  BY <1>0, <1>2 DEF LikeVids
<1>11. ASSUME NEW all PROVE ListedOk(scan, got, all)' <=> ListedOk(scan', got', all)
  BY <1>1 DEF ListedOk
<1> QED BY <1>0, <1>4, <1>5, <1>6, <1>7, <1>8, <1>9, <1>10, <1>11 DEF ScanGoing

LEMMA InitOk ==
    ASSUME Init
    PROVE  Inv
<1>1. /\ kind \in Kinds /\ count = 0 /\ size = InitSize /\ table = EmptyTable
      /\ cell = [v \in 1..(InitSize - 1) |-> Free]
      /\ index = [t \in 1..(InitSize - 1) |-> EmptyBucket]
      /\ scan = NoScan /\ got = <<>> /\ answer = 0 /\ failed = <<>>
  BY DEF Init
<1>2. InitSize \in Nat /\ InitSize > 0 /\ MaxVid \in Nat
  BY ValueStoresAssumption
<1>3. Live = {}
  BY <1>1 DEF Live, Vids
<1>4. CellsOk(kind, count, size, cell)
  BY <1>1, <1>2, <1>3, LiveIs DEF CellsOk, Number
<1>5. TableOk(kind, table, Live, cell)
  <2>1. EmptyTable \in Tables(AllKeys(kind)) /\ DOMAIN EmptyTable = {}
    BY EmptyIsTable
  <2> QED BY <1>1, <1>3, <2>1 DEF TableOk
<1>6. IndexOk(index, Live, cell)
  <2> DEFINE vs == Holders(Live, cell)
             occ == Places(Live, cell)
  <2>1. \A t \in Topic : vs[t] = {} /\ occ[t] = {}
    BY <1>3 DEF Holders, Places
  <2>2. DOMAIN index = 1..(InitSize - 1) /\ \A t \in 1..(InitSize - 1) : t \in Topic
    BY <1>1, <1>2 DEF Topic
  <2>3. EmptyBucket \in Buckets /\ Fits(EmptyBucket, {}, {})
    BY EmptyFits
  <2>4. index \in Indexes(Buckets)
    <3>1. index \in [1..(InitSize - 1) -> Buckets] /\ InitSize - 1 \in Nat
      BY <1>1, <1>2, <2>3
    <3> QED BY <3>1 DEF Indexes
  <2>5. \A t \in DOMAIN index : index[t] = EmptyBucket
    BY <1>1
  <2> HIDE DEF vs, occ
  <2>6. IndexFits(index, vs, occ)
    BY <2>1, <2>2, <2>3, <2>4, <2>5 DEF IndexFits
  <2> QED BY <2>6 DEF IndexOk, vs, occ
<1>7. StoreOk
  BY <1>4, <1>5, <1>6 DEF StoreOk
<1>8. CallsOk /\ FailedOk
  BY <1>1, <1>2 DEF CallsOk, FailedOk
<1>9. ScanOk
  BY <1>1 DEF ScanOk, NoScan
<1> QED BY <1>7, <1>8, <1>9 DEF Inv

\* What a call gets for a value: it is found, or created.
HasGot(v) ==
    \/ FindVid(v) # 0 /\ HasFound(v, FindVid(v)) /\ answer' = FindVid(v) /\ UNCHANGED store
    \/ FindVid(v) = 0 /\ HasCreated(v)

LEMMA FindOrCreateOk ==
    ASSUME Inv, kind' = kind, kind # "TextSet", NEW v \in ValuesOf(kind), FindOrCreate(v)
    PROVE  HasGot(v) /\ StoreOk' /\ CallsOk'
<1>1. StoreOk /\ CallsOk
  BY DEF Inv
<1>2. count \in Nat /\ Live \in SUBSET (1..count) /\ MaxVid \in Nat
  BY <1>1, LiveTyped, ValueStoresAssumption
<1>3. CASE FindVid(v) # 0
  <2>1. answer' = FindVid(v) /\ UNCHANGED store
    BY <1>3 DEF FindOrCreate
  <2>2. HasFound(v, FindVid(v))
    BY <1>1, <1>3, FindIs
  <2>3. StoreOk'
    BY <1>1, <2>1, StoreStays
  <2>4. FindVid(v) \in 1..count /\ count' = count /\ count <= MaxVid
    BY <1>1, <1>2, <2>1, <2>2 DEF HasFound, store, CallsOk
  <2>5. CallsOk'
    BY <1>2, <2>1, <2>4 DEF CallsOk
  <2> QED BY <1>3, <2>1, <2>2, <2>3, <2>5 DEF HasGot
<1>4. CASE FindVid(v) = 0
  <2>1. Create(v)
    BY <1>4 DEF FindOrCreate
  <2>2. kind \in {"Text", "Integer", "ASidp"} => v \notin DOMAIN table
    BY <1>1, <1>4, FindIs
  <2>3. HasCreated(v)
    BY <1>1, <2>1, <2>2, CreateOk
  <2>4. CallsOk'
    BY <1>2, <2>3 DEF HasCreated, HasNewCell, CallsOk, Number
  <2> QED BY <1>4, <2>3, <2>4 DEF HasGot, HasCreated
<1> QED BY <1>3, <1>4

\* The values that callers bring, and those that topics are replaced in.
LEMMA InputTyped ==
    ASSUME kind \in Kinds, NEW v \in Inputs[kind]
    PROVE  v \in ValuesOf(kind) /\ (kind = "SlowASidp" => Ascending(v))
<1>1. v \in ValuesOf(kind)
  BY CallersAssumption
<1>2. ASSUME kind = "SlowASidp" PROVE Ascending(v)
  <2>1. v \in ValuesOf("ASidp")
    BY <1>2, CallersAssumption
  <2> QED BY <2>1 DEF ValuesOf
<1> QED BY <1>1, <1>2

LEMMA ReplacedTyped ==
    ASSUME StoreOk, kind \in {"TopicSet", "ASidp", "SlowASidp"},
           NEW v \in Live, NEW list \in MergeLists, ReplacedOk(cell[v], list)
    PROVE  Replaced(cell[v], list) \in ValuesOf(kind)
<1>1. list \in Seq(Topic) \ {<<>>}
  BY CallersAssumption
<1>2. cell[v] \in ValuesOf(kind)
  BY LiveTyped
<1>3. CASE kind = "TopicSet"
  <2>1. \A x : x \in ValuesOf(kind) <=> x \in Lists(Topic)
    BY <1>3 DEF ValuesOf, Lists
  <2>2. ReplaceInSet(cell[v], list) \in Lists(Topic)
    BY <1>1, <1>2, <2>1, ReplaceInSetKeeps
  <2> QED BY <1>3, <2>1, <2>2 DEF Replaced
<1>4. CASE kind \in {"ASidp", "SlowASidp"}
  <2> DEFINE new == ReplaceInASidp(cell[v], list)
  <2>1. cell[v] \in ASidpType
    BY <1>2, <1>4 DEF ValuesOf
  <2>2. new \in ASidpType
    BY <1>1, <2>1, ReplaceInASidpKeeps
  <2>3. kind = "ASidp" => Ascending(new)
    BY DEF ReplacedOk
  <2>4. Replaced(cell[v], list) = new
    BY <1>4 DEF Replaced
  <2> HIDE DEF new
  <2> QED BY <1>4, <2>2, <2>3, <2>4 DEF ValuesOf
<1> QED BY <1>3, <1>4

\* A call leaves the scan alone, which is none.
LEMMA CallsLeaveScan ==
    ASSUME Inv, Ready, UNCHANGED <<scan, got>>
    PROVE  ScanOk' /\ failed = <<>>
BY DEF Inv, Ready, ScanOk

LEMMA LookupOk ==
    ASSUME Inv, NEW v \in Inputs[kind], Lookup(v)
    PROVE  Inv'
<1>1. /\ Ready /\ answer' = FindVid(v) /\ UNCHANGED <<kind, store, scan, got, failed>>
      /\ UNCHANGED <<kind, store>> /\ UNCHANGED <<scan, got>>
  BY DEF Lookup
<1>2. StoreOk /\ CallsOk /\ kind \in Kinds
  BY LiveTyped DEF Inv
<1>3. v \in ValuesOf(kind)
  BY <1>2, InputTyped
<1>4. StoreOk' /\ Live' = Live
  BY <1>1, <1>2, StoreStays
<1>5. ScanOk' /\ failed = <<>>
  BY <1>1, CallsLeaveScan
<1>6. FindVid(v) \in Live \/ FindVid(v) = 0
  BY <1>2, <1>3, FindIs DEF HasFound
<1>7. count \in Nat /\ Live \in SUBSET (1..count) /\ MaxVid \in Nat /\ count <= MaxVid
      /\ count' = count
  BY <1>1, <1>2, LiveTyped, ValueStoresAssumption DEF CallsOk, store
<1>8. CallsOk'
  <2>1. answer' \in Live \/ answer' = 0
    BY <1>1, <1>6
  <2>2. answer' \in 1..count \/ answer' = 0
    BY <1>7, <2>1
  <2>3. answer' \in 0..MaxVid
    BY <1>7, <2>2
  <2>4. count' <= MaxVid
    BY <1>7
  <2> QED BY <2>3, <2>4 DEF CallsOk
<1>9. FailedOk'
  BY <1>1, <1>5 DEF FailedOk
<1> QED BY <1>4, <1>5, <1>8, <1>9 DEF Inv

LEMMA StoreStepOk ==
    ASSUME Inv, NEW v \in Inputs[kind], Store(v)
    PROVE  Inv' /\ HasGot(v)
<1>1. /\ Ready /\ kind # "TextSet" /\ FindOrCreate(v)
      /\ kind' = kind /\ failed' = failed /\ UNCHANGED <<scan, got>>
  BY DEF Store
<1>2. v \in ValuesOf(kind)
  BY LiveTyped, InputTyped DEF Inv
<1>3. HasGot(v) /\ StoreOk' /\ CallsOk'
  BY <1>1, <1>2, FindOrCreateOk
<1>4. ScanOk' /\ failed = <<>>
  BY <1>1, CallsLeaveScan
<1>5. FailedOk'
  BY <1>1, <1>4 DEF FailedOk
<1> QED BY <1>3, <1>4, <1>5 DEF Inv

LEMMA CombineStepOk ==
    ASSUME Inv, NEW v \in Inputs[kind], Combine(v)
    PROVE  Inv' /\ (HasFoundSame(v) \/ HasJoined(v))
<1>1. Ready /\ kind' = kind /\ UNCHANGED <<scan, got>>
  BY DEF Combine
<1>2. v \in ValuesOf(kind)
  BY LiveTyped, InputTyped DEF Inv
<1>3. (HasFoundSame(v) \/ HasJoined(v)) /\ StoreOk' /\ failed' = failed
  BY <1>2, CombineOk DEF Inv
<1>4. ScanOk' /\ failed = <<>>
  BY <1>1, CallsLeaveScan
<1>5. count \in Nat /\ Live \in SUBSET (1..count) /\ MaxVid \in Nat /\ count <= MaxVid
  BY LiveTyped, ValueStoresAssumption DEF CallsOk, Inv
<1>6. CallsOk'
  <2>1. CASE HasFoundSame(v)
    <3>1. answer' \in Live /\ count' = count
      BY <2>1 DEF HasFoundSame, store
    <3> QED BY <1>5, <3>1 DEF CallsOk
  <2>2. CASE HasJoined(v)
    <3>1. count' \in Nat /\ count' <= MaxVid /\ answer' = count'
      BY <2>2 DEF HasJoined, HasNewCell, Number
    <3> QED BY <1>5, <3>1 DEF CallsOk
  <2> QED BY <1>3, <2>1, <2>2
<1>7. FailedOk'
  BY <1>3, <1>4 DEF FailedOk
<1> QED BY <1>3, <1>4, <1>6, <1>7 DEF Inv

\* What a replacement does, unless an assertion fails.
HasReplaced(v, list) ==
    /\ ReplacedOk(cell[v], list)
    /\ Replaced(cell[v], list) \in ValuesOf(kind)
    /\ HasGot(Replaced(cell[v], list))

LEMMA ReplaceStepOk ==
    ASSUME Inv, NEW v \in Live, NEW list \in MergeLists, Replace(v, list)
    PROVE  Inv' /\ (HasReplaced(v, list) \/ UNCHANGED <<store, answer, call>>)
<1>1. /\ Ready /\ kind \in {"TopicSet", "ASidp", "SlowASidp"} /\ kind' = kind
      /\ UNCHANGED <<scan, got>>
  BY DEF Replace
<1>2. GetValue(v) = cell[v]
  BY <1>1 DEF GetValue
<1>3. ScanOk' /\ failed = <<>>
  BY <1>1, CallsLeaveScan
<1>4. StoreOk /\ CallsOk
  BY DEF Inv
<1>5. CASE ReplacedOk(cell[v], list)
  <2>1. FindOrCreate(Replaced(cell[v], list)) /\ failed' = failed
    BY <1>2, <1>5 DEF Replace
  <2>2. Replaced(cell[v], list) \in ValuesOf(kind)
    BY <1>1, <1>4, <1>5, ReplacedTyped
  <2>3. HasGot(Replaced(cell[v], list)) /\ StoreOk' /\ CallsOk'
    BY <1>1, <2>1, <2>2, FindOrCreateOk
  <2>4. FailedOk'
    BY <1>3, <2>1 DEF FailedOk
  <2> QED BY <1>3, <1>5, <2>2, <2>3, <2>4 DEF Inv, HasReplaced
<1>6. CASE ~ReplacedOk(cell[v], list)
  <2>1. failed' = <<v, list>> /\ UNCHANGED <<store, answer, call>> /\ UNCHANGED <<kind, store>>
    BY <1>1, <1>2, <1>6 DEF Replace
  <2>2. StoreOk' /\ Live' = Live /\ cell' = cell
    BY <1>4, <2>1, StoreStays DEF store
  <2>3. CallsOk'
    BY <1>4, <2>1 DEF CallsOk, store
  <2>4. kind # "SlowASidp"
    BY <1>6 DEF ReplacedOk
  <2>5. (~ReplacedOk(cell[v], list))'
    BY <1>1, <1>6, <2>2 DEF ReplacedOk
  <2>6. FailedOk'
    BY <1>1, <2>1, <2>2, <2>4, <2>5 DEF FailedOk
  <2> QED BY <1>3, <2>1, <2>2, <2>3, <2>6 DEF Inv
<1> QED BY <1>5, <1>6

LEMMA DeleteStepOk ==
    ASSUME Inv, NEW v \in Live, Delete(v)
    PROVE  Inv' /\ HasDeleted(v)
<1>1. /\ Ready /\ UNCHANGED <<kind, count, size, scan, got, failed>>
      /\ UNCHANGED <<scan, got>> /\ answer' = 0 /\ count' = count /\ failed' = failed
  BY DEF Delete
<1>2. HasDeleted(v) /\ StoreOk'
  BY DeleteOk DEF Inv, HasDeleted
<1>3. ScanOk' /\ failed = <<>>
  BY <1>1, CallsLeaveScan
<1>4. CallsOk'
  BY <1>1, ValueStoresAssumption DEF CallsOk, Inv
<1>5. FailedOk'
  BY <1>1, <1>3 DEF FailedOk
<1> QED BY <1>2, <1>3, <1>4, <1>5 DEF Inv

\* While a scan goes on, nothing else does.
LEMMA ScansLeaveStore ==
    ASSUME Inv, UNCHANGED <<kind, store, failed>>, answer' \in {0, answer}
    PROVE  StoreOk' /\ CallsOk' /\ FailedOk'
<1>1. UNCHANGED <<kind, store>> /\ failed' = failed
  OBVIOUS
<1>2. StoreOk' /\ Live' = Live /\ cell' = cell /\ count' = count
  BY <1>1, StoreStays DEF Inv, store
<1>3. CallsOk'
  BY <1>2, ValueStoresAssumption DEF CallsOk, Inv
<1>4. FailedOk'
  <2>1. ASSUME NEW x, NEW list PROVE ReplacedOk(x, list)' = ReplacedOk(x, list)
    BY <1>1 DEF ReplacedOk
  <2> SUFFICES ASSUME failed # <<>>
               PROVE  \E v \in Live, list \in MergeLists :
                         /\ failed = <<v, list>> /\ kind \in {"TopicSet", "ASidp"}
                         /\ (~ReplacedOk(cell[v], list))'
    BY <1>1, <1>2 DEF FailedOk
  <2>2. PICK v \in Live, list \in MergeLists :
           /\ failed = <<v, list>> /\ kind \in {"TopicSet", "ASidp"}
           /\ ~ReplacedOk(cell[v], list)
    BY DEF Inv, FailedOk
  <2>3. (~ReplacedOk(cell[v], list))'
    BY <1>1, <1>2, <2>2 DEF ReplacedOk
  <2> QED BY <2>2, <2>3
<1> QED BY <1>2, <1>3, <1>4

LEMMA ScanOpenOk ==
    ASSUME Inv, NEW s \in Scans[kind], ScanOpen(s[1], s[2])
    PROVE  Inv'
<1> DEFINE op == s[1]
           arg == s[2]
<1>1. kind \in Kinds /\ StoreOk
  BY LiveTyped DEF Inv
<1>2. s \in ScansOf(kind)
  BY <1>1, CallersAssumption
<1>3. <<op, arg>> \in ScansOf(kind)
  BY <1>1, <1>2 DEF ScansOf, Kinds
<1>4. /\ scan' \in Opened(Fresh(op, arg)) /\ got' = <<>>
      /\ answer' = 0 /\ UNCHANGED <<kind, store, failed>> /\ UNCHANGED <<kind, store>>
  BY DEF ScanOpen, Fresh
<1> HIDE DEF op, arg
<1>5. ScanGoing(scan', got')
  BY <1>1, <1>3, <1>4, OpenedIs
<1>6. ScanGoing(scan, got)'
  BY <1>4, <1>5, ScanStays
<1>7. scan'.op # "none"
  <2>1. <<scan'.op, scan'.arg>> \in ScansOf(kind)
    BY <1>5 DEF ScanGoing
  <2> QED BY <1>1, <2>1, AskedIs DEF AskedText, AskedTopicSet, AskedTextSet, AskedASidp
<1>8. ScanOk'
  BY <1>6, <1>7 DEF ScanOk
<1> QED BY <1>4, <1>8, ScansLeaveStore DEF Inv

LEMMA ScanFetchOk ==
    ASSUME Inv, ScanFetch
    PROVE  Inv'
<1>1. /\ scan.next # 0 /\ got' = Append(got, scan.next) /\ scan' = Advanced(scan)
      /\ UNCHANGED <<kind, store, failed>> /\ UNCHANGED <<kind, store>> /\ answer' = answer
  BY DEF ScanFetch
<1>2. ScanGoing(scan, got) /\ StoreOk /\ kind \in Kinds
  BY <1>1, LiveTyped DEF Inv, ScanOk
<1>3. ScanGoing(scan', got')
  BY <1>1, <1>2, AdvancedIs
<1>4. ScanGoing(scan, got)'
  BY <1>1, <1>3, ScanStays
<1>5. scan'.op # "none"
  <2>1. <<scan'.op, scan'.arg>> \in ScansOf(kind)
    BY <1>3 DEF ScanGoing
  <2> QED BY <1>2, <2>1, AskedIs DEF AskedText, AskedTopicSet, AskedTextSet, AskedASidp
<1>6. ScanOk'
  BY <1>4, <1>5 DEF ScanOk
<1> QED BY <1>1, <1>6, ScansLeaveStore DEF Inv

LEMMA ScanCloseOk ==
    ASSUME Inv, ScanClose
    PROVE  Inv'
<1>1. /\ scan' = NoScan /\ got' = <<>> /\ UNCHANGED <<kind, store, failed>>
      /\ answer' = answer
  BY DEF ScanClose
<1>2. ScanOk'
  BY <1>1 DEF ScanOk, NoScan
<1> QED BY <1>1, <1>2, ScansLeaveStore DEF Inv

LEMMA NextOk ==
    ASSUME Inv, [Next]_vars
    PROVE  Inv'
<1>1. CASE \E v \in Inputs[kind] : Lookup(v) \/ Store(v) \/ Combine(v)
  BY <1>1, LookupOk, StoreStepOk, CombineStepOk
<1>2. CASE \E v \in Live : Delete(v)
  BY <1>2, DeleteStepOk
<1>3. CASE \E v \in Live, list \in MergeLists : Replace(v, list)
  BY <1>3, ReplaceStepOk
<1>4. CASE \E s \in Scans[kind] : ScanOpen(s[1], s[2])
  BY <1>4, ScanOpenOk
<1>5. CASE ScanFetch
  BY <1>5, ScanFetchOk
<1>6. CASE ScanClose
  BY <1>6, ScanCloseOk
<1>7. CASE UNCHANGED vars
  <2>1. /\ UNCHANGED <<kind, store, failed>> /\ UNCHANGED <<kind, store>>
        /\ UNCHANGED <<scan, got>> /\ answer' = answer
    BY <1>7 DEF vars
  <2>2. ScanOk'
    <3>1. CASE ScanGoing(scan, got)
      <4>1. ScanGoing(scan', got')
        BY <2>1, <3>1
      <4>2. ScanGoing(scan, got)'
        BY <2>1, <4>1, ScanStays
      <4> QED BY <2>1, <4>2 DEF Inv, ScanOk
    <3>2. CASE ~ScanGoing(scan, got)
      BY <2>1, <3>2 DEF Inv, ScanOk
    <3> QED BY <3>1, <3>2
  <2> QED BY <2>1, <2>2, ScansLeaveStore DEF Inv
<1> QED BY <1>1, <1>2, <1>3, <1>4, <1>5, <1>6, <1>7 DEF Next

-----------------------------------------------------------------------------
(* What the invariant says *)

LEMMA GotIsLive ==
    ASSUME StoreOk, NEW sc, NEW gt, ScanGoing(sc, gt)
    PROVE  gt \in Seq(Live) /\ (sc.next = 0 \/ sc.next \in Live)
<1>1. <<sc.op, sc.arg>> \in ScansOf(kind) /\ kind \in Kinds
  BY LiveTyped DEF ScanGoing
<1>2. sc.next # 0 => sc.next \in Live
  <2> SUFFICES ASSUME sc.next # 0 PROVE sc.next \in Live
    OBVIOUS
  <2>1. \A new : new = Advanced(sc) => sc.next \in Live
    BY AdvancedIs
  <2> QED BY <2>1
<1>3. gt \in Seq(Live)
  <2>1. \A all : ListedOk(sc, gt, all) => gt \in Seq(Live)
    BY DEF ListedOk, Lists
  <2>2. LinearOk(sc, gt) => gt \in Seq(Live)
    BY DEF LinearOk, Enumerates, Lists
  <2>3. TextsOk(sc, gt) => gt \in Seq(Live)
    BY DEF TextsOk
  <2>4. IncludesOk(sc, gt) => gt \in Seq(Live)
    <3>1. <<>> \in Seq(Live) /\ \A w \in Live : <<w>> \in Seq(Live)
      OBVIOUS
    <3>2. sc.arg \in DOMAIN table => table[sc.arg] \in Live
      BY DEF StoreOk, TableOk
    <3> QED BY <3>1, <3>2 DEF IncludesOk
  <2>5. CASE kind # "TextSet"
    BY <2>1, <2>2, <2>5 DEF ScanGoing, Linear
  <2>6. CASE kind = "TextSet"
    <3>1. AskedTextSet(sc.op, sc.arg)
      BY <1>1, <2>6, AskedIs
    <3>2. sc.op \in {"TextSet_NOT_DISJOINT", "TextSet_INCLUDES", "TextSet_LIKE"}
      BY <3>1 DEF AskedTextSet
    <3> QED BY <2>1, <2>3, <2>4, <3>2 DEF ScanGoing
  <2> QED BY <2>5, <2>6
<1> QED BY <1>2, <1>3

LEMMA InvIsTyped ==
    ASSUME Inv
    PROVE  TypeOK
<1>1. StoreOk /\ CallsOk /\ FailedOk /\ ScanOk
  BY DEF Inv
<1>2. /\ kind \in Kinds /\ count \in Nat /\ Live \in SUBSET Vids /\ Live \in SUBSET (1..count)
      /\ count <= MaxVid /\ MaxVid \in Nat
  BY <1>1, LiveTyped, ValueStoresAssumption DEF CallsOk, Live
<1>3. size \in Nat /\ DOMAIN cell = 1..(size - 1)
  BY <1>1 DEF StoreOk, CellsOk
<1>4. \A x \in DOMAIN table : table[x] \in Vids
  BY <1>1, <1>2 DEF StoreOk, TableOk
<1>5. got \in Seq(Live) /\ (scan.next = 0 \/ scan.next \in Live)
  <2>1. CASE got = <<>> /\ scan.next = 0
    BY <2>1
  <2>2. CASE ScanGoing(scan, got)
    BY <1>1, <2>2, GotIsLive
  <2> QED BY <1>1, <2>1, <2>2 DEF ScanOk
<1>6. got \in Seq(Vids) /\ scan.next \in 0..MaxVid
  <2>1. ToSet(got) \subseteq Live
    BY <1>5 DEF ToSet
  <2>2. got \in Seq(Vids)
    BY <1>2, <1>5, <2>1, SeqOver
  <2>3. scan.next \in 1..count \/ scan.next = 0
    BY <1>2, <1>5
  <2>4. scan.next \in 0..MaxVid
    BY <1>2, <2>3
  <2> QED BY <2>2, <2>4
<1>7. failed # <<>> => failed[1] \in Vids /\ failed[2] \in MergeLists \cup {<<>>}
  BY <1>1, <1>2 DEF FailedOk
<1>8. count \in 0..MaxVid /\ answer \in 0..MaxVid
  BY <1>1, <1>2 DEF CallsOk
<1> QED BY <1>2, <1>3, <1>4, <1>6, <1>7, <1>8 DEF TypeOK

LEMMA InvMatches ==
    ASSUME Inv
    PROVE  IndexMatches
<1>1. StoreOk
  BY DEF Inv
<1>2. count < size
  BY <1>1 DEF StoreOk, CellsOk
<1>3. \A x \in DOMAIN table : table[x] \in Live /\ x \in Keys(cell[table[x]])
  BY <1>1, KeysIs DEF StoreOk, TableOk
<1>4. \A v \in Live : \A x \in Keys(cell[v]) : TableGet(table, x) = v
  BY <1>1, KeysIs DEF StoreOk, TableOk, TableGet
<1>5. ASSUME kind = "ASidp", NEW t \in DOMAIN index
      PROVE  LET in == {v \in Live : Contains(TopicsOf(cell[v]), t)}
             IN  /\ BucketVids(index[t]) = in
                 /\ IsInjective(index[t].list)
                 /\ index[t].isTable => index[t].list = <<>>
                 /\ index[t].len = Cardinality(Occurrences(t))
  <2>1. IndexFits(index, Holders(Live, cell), Places(Live, cell))
    BY <1>1, <1>5 DEF StoreOk, IndexOk
  <2>2. t \in Topic
    <3>1. PICK d \in Nat : index \in [1..d -> Buckets]
      BY <2>1, IndexIs DEF IndexFits
    <3> QED BY <3>1, <1>5 DEF Topic
  <2>3. Fits(index[t], Holders(Live, cell)[t], Places(Live, cell)[t])
    BY <1>5, <2>1 DEF IndexFits
  <2>4. \A v \in Live : TopicsOf(cell[v]) \in Seq(Topic)
    <3>1. \A v \in Live : cell[v] \in ASidpType
      BY <1>1, <1>5, LiveTyped DEF ValuesOf
    <3> QED BY <3>1, TopicsTyped
  <2>5. {v \in Live : Contains(TopicsOf(cell[v]), t)} = Holders(Live, cell)[t]
    <3>1. \A v \in Live : Contains(TopicsOf(cell[v]), t) <=> t \in ToSet(TopicsOf(cell[v]))
      BY <2>4, ContainsIsIn
    <3> QED BY <2>2, <3>1 DEF Holders
  <2>6. Occurrences(t) = Places(Live, cell)[t]
    <3>1. \A v \in Live : DOMAIN TopicsOf(cell[v]) = 1..Len(TopicsOf(cell[v]))
      BY <2>4
    <3> DEFINE In(v) == {<<v, i>> : i \in {j \in DOMAIN TopicsOf(cell[v]) :
                                             TopicsOf(cell[v])[j] = t}}
               In2(v) == At(v, TopicsOf(cell[v]), t, Len(TopicsOf(cell[v])))
    <3>2. \A v \in Live : In(v) = In2(v)
      BY <3>1 DEF At
    <3>3. Occurrences(t) = UNION {In(v) : v \in Live}
      BY DEF Occurrences
    <3>4. Places(Live, cell)[t] = UNION {In2(v) : v \in Live}
      BY <2>2 DEF Places
    <3> HIDE DEF In, In2
    <3> QED BY <3>2, <3>3, <3>4
  <2> QED BY <2>3, <2>5, <2>6 DEF Fits
<1> QED BY <1>2, <1>3, <1>4, <1>5 DEF IndexMatches

LEMMA InvScansExact ==
    ASSUME Inv
    PROVE  ScanExact
<1> SUFFICES ASSUME scan.op # "none", scan.next = 0
             PROVE  /\ ToSet(got) = Meant(scan)
                    /\ scan.op # "TextSet_NOT_DISJOINT" => IsInjective(got)
  BY DEF ScanExact, Meant
<1>1. StoreOk /\ ScanGoing(scan, got)
  BY DEF Inv, ScanOk
<1> QED BY <1>1, ScanEnds DEF HasEnded

LEMMA InvStopsOnClash ==
    ASSUME Inv
    PROVE  AbortsOnClash
<1> DEFINE v == cell[failed[1]]
           parts == IF kind = "ASidp"
                    THEN {v.members[i].role : i \in DOMAIN v.members}
                    ELSE ToSet(v)
<1> SUFFICES ASSUME failed # <<>>
             PROVE  Cardinality(parts \cap ToSet(failed[2])) > 1
  BY DEF AbortsOnClash
<1>1. PICK w \in Live, list \in MergeLists :
         /\ failed = <<w, list>> /\ kind \in {"TopicSet", "ASidp"}
         /\ ~ReplacedOk(cell[w], list)
  BY DEF Inv, FailedOk
<1>2. v = cell[w] /\ failed[2] = list
  BY <1>1
<1>3. cell[w] \in ValuesOf(kind) /\ list \in Seq(Topic) \ {<<>>}
  BY LiveTyped, CallersAssumption DEF Inv
<1> HIDE DEF v
<1>4. CASE kind = "TopicSet"
  <2>1. Cardinality(ToSet(v) \cap ToSet(list)) > 1
    <3>1. ~ReplaceAsserts(v, list)
      BY <1>1, <1>2, <1>4 DEF ReplacedOk
    <3>2. IsFiniteSet(ToSet(list))
      BY <1>3, CountToSet
    <3>3. IsFiniteSet(ToSet(v) \cap ToSet(list))
      BY <3>2, FS_Intersection
    <3>4. Cardinality(ToSet(v) \cap ToSet(list)) \in Nat
      BY <3>3, FS_CardinalityType
    <3> QED BY <3>1, <3>4 DEF ReplaceAsserts
  <2> QED BY <1>2, <1>4, <2>1
<1>5. CASE kind = "ASidp"
  <2>1. v \in ASidpType /\ Rising(v.members)
    BY <1>2, <1>3, <1>5 DEF ValuesOf, Ascending, Rising
  <2>2. ~Rising(ReplaceInASidp(v, list).members)
    BY <1>1, <1>2, <1>5 DEF ReplacedOk, Ascending, Rising
  <2>3. PICK x, y \in ToSet(v.members) :
           /\ x.role # y.role
           /\ x.role \in ToSet(list) /\ y.role \in ToSet(list)
    BY <1>3, <2>1, <2>2, ReplaceInASidpKeeps
  <2> DEFINE S == parts \cap ToSet(list)
  <2>4. x.role \in S /\ y.role \in S
    BY <1>5, <2>3 DEF ToSet
  <2>5. IsFiniteSet(S)
    <3>1. IsFiniteSet(ToSet(list))
      BY <1>3, CountToSet
    <3> QED BY <3>1, FS_Intersection
  <2> HIDE DEF S
  <2>6. Cardinality(S) > 1
    BY <2>3, <2>4, <2>5, TwoOfSome
  <2> QED BY <1>2, <2>6 DEF S
<1> QED BY <1>1, <1>4, <1>5

LEMMA InvHolds == Spec => []Inv
<1>1. Init => Inv
  BY InitOk
<1>2. Inv /\ [Next]_vars => Inv'
  BY NextOk
<1> QED BY <1>1, <1>2, PTL DEF Spec

\* In every reachable state of a store of any kind the numbers it gives out,
\* those it has in its table and those its scans deliver are vids, and there
\* is an array element for each of them.
THEOREM StoresTyped == Spec => []TypeOK
<1>1. Inv => TypeOK
  BY InvIsTyped
<1> QED BY <1>1, InvHolds, PTL

\* The tables next to the array of values never lag behind it: by the value
\* (by each of its texts) one finds the live value and no other, and the topic
\* index of the a-sidp store has for each topic exactly the live values it
\* occurs in, through the change from a list to a table and after deletions.
THEOREM TablesMatchCells == Spec => []IndexMatches
<1>1. Inv => IndexMatches
  BY InvMatches
<1> QED BY <1>1, InvHolds, PTL

\* A scan that has come to its end has delivered the live values that satisfy
\* its condition, said of what the values mean, and each of them once.
THEOREM ScansAreExact == Spec => []ScanExact
<1>1. Inv => ScanExact
  BY InvScansExact
<1> QED BY <1>1, InvHolds, PTL

\* An assert of replaceTopics or of _make_array stops the program only where
\* the merge set has two topics of one topic set, or two roles of an assertion.
THEOREM StopsOnClash == Spec => []AbortsOnClash
<1>1. Inv => AbortsOnClash
  BY InvStopsOnClash
<1> QED BY <1>1, InvHolds, PTL

-----------------------------------------------------------------------------
(* The refinement *)

LEMMA MeaningTyped ==
    ASSUME NEW k \in Kinds, NEW v \in ValuesOf(k)
    PROVE  Meaning(k, v) # Free
<1>1. k \in {"Text", "Integer", "TopicSet", "TextSet", "ASidp", "SlowASidp"}
  BY DEF Kinds
<1>2. Free \notin MeaningsOf(k)
  BY CallersAssumption
<1>3. CASE k = "Text"
  BY <1>2, <1>3 DEF MeaningsOf, Meaning, ValuesOf
<1>4. CASE k = "Integer"
  BY <1>2, <1>4 DEF MeaningsOf, Meaning, ValuesOf
<1>5. CASE k = "TopicSet"
  <2>1. ToSet(v) \in SUBSET Topic
    BY <1>5 DEF ValuesOf, ToSet
  <2>2. Meaning(k, v) = <<k, ToSet(v)>>
    BY <1>5 DEF Meaning
  <2> QED BY <1>2, <1>5, <2>1, <2>2 DEF MeaningsOf
<1>6. CASE k = "TextSet"
  <2>1. ToSet(v) \in SUBSET Seq(Char)
    BY <1>6 DEF ValuesOf, ToSet
  <2>2. Meaning(k, v) = <<k, ToSet(v)>>
    BY <1>6 DEF Meaning
  <2> QED BY <1>2, <1>6, <2>1, <2>2 DEF MeaningsOf
<1>7. CASE k \in {"ASidp", "SlowASidp"}
  <2> DEFINE x == [type |-> v.type, members |-> Pairs(v.members)]
  <2>1. v.type \in Topic /\ v.members \in Seq(Membership)
    BY <1>7 DEF ValuesOf, ASidpType
  <2>2. Pairs(v.members) \subseteq Topic \X Topic
    <3>1. ToSet(v.members) \subseteq Membership
      BY <2>1 DEF ToSet
    <3> QED BY <3>1 DEF Pairs, Membership
  <2>3. x \in [type : Topic, members : SUBSET (Topic \X Topic)]
    BY <2>1, <2>2
  <2>4. Meaning(k, v) = <<"ASidp", x>>
    BY <1>7 DEF Meaning, Pairs
  <2> HIDE DEF x
  <2> QED BY <1>2, <1>7, <2>3, <2>4 DEF MeaningsOf
<1> QED BY <1>1, <1>3, <1>4, <1>5, <1>6, <1>7

\* What the store shows as a map.
LEMMA ShownIs ==
    ASSUME Inv
    PROVE  /\ Live \in SUBSET (1..MaxVid)
           /\ \A v \in Live : ShownValues[v] = Meaning(kind, cell[v])
           /\ \A v \in Live : ShownValues[v] # Free
           /\ \A v \in (1..MaxVid) \ Live : ShownValues[v] = Free
           /\ DOMAIN ShownValues = 1..MaxVid
<1>1. /\ count \in Nat /\ Live \in SUBSET (1..count) /\ MaxVid \in Nat /\ count <= MaxVid
      /\ kind \in Kinds /\ \A v \in Live : cell[v] \in ValuesOf(kind)
  BY LiveTyped, ValueStoresAssumption DEF Inv, CallsOk
<1>2. Live \in SUBSET (1..MaxVid)
  BY <1>1
<1>3. \A v \in Live : Meaning(kind, cell[v]) # Free
  BY <1>1, MeaningTyped
<1> QED BY <1>2, <1>3 DEF ShownValues

\* What is found is what the map has, if the store can tell what means the same.
LEMMA VidsAre ==
    ASSUME Inv, NEW v \in ValuesOf(kind)
    PROVE  LET x == Meaning(kind, v)
           IN  /\ HasFound(v, FindVid(v)) => FindVid(v) \in Abstract!VidsOf(x)
               /\ HasMissed(v, FindVid(v)) => Abstract!VidsOf(x) = {}
<1> DEFINE x == Meaning(kind, v)
<1>1. x # Free
  BY LiveTyped, MeaningTyped DEF Inv
<1>2. Abstract!VidsOf(x) = {w \in 1..MaxVid : ShownValues[w] = x}
  BY DEF Abstract!VidsOf
<1>3. HasFound(v, FindVid(v)) => FindVid(v) \in Abstract!VidsOf(x)
  BY <1>2, ShownIs DEF HasFound
<1>4. ASSUME HasMissed(v, FindVid(v)) PROVE Abstract!VidsOf(x) = {}
  <2>1. \A u \in Live : ShownValues[u] # x
    BY <1>4, ShownIs DEF HasMissed
  <2>2. \A u \in (1..MaxVid) \ Live : ShownValues[u] # x
    BY <1>1, ShownIs
  <2> QED BY <1>2, <2>1, <2>2
<1> QED BY <1>3, <1>4

\* How a store that has got a new cell is shown.
Adds(w, gone) ==
    ShownValues' = [v \in 1..MaxVid |->
                       IF v = count + 1 THEN Meaning(kind, w)
                       ELSE IF v \in gone THEN Free ELSE ShownValues[v]]

LEMMA NewCellShows ==
    ASSUME Inv, kind' = kind, NEW cells, NEW w, HasNewCell(cells, w),
           NEW gone \in SUBSET Live, LiveIn(count, cells) = Live \ gone,
           \A u \in Live \ gone : cells[u] = cell[u]
    PROVE  Adds(w, gone) /\ count + 1 \in 1..MaxVid
<1>1. /\ count' = count + 1 /\ count' \in Nat /\ count' <= MaxVid
      /\ LiveIn(count', cell') = (Live \ gone) \cup {count'} /\ count' \notin Live \ gone
      /\ cell'[count'] = w
      /\ \A u \in 1..count : cell'[u] = cells[u]
  BY DEF HasNewCell, Number
<1>2. Live' = (Live \ gone) \cup {count'}
  BY <1>1 DEF Live, LiveIn, Vids
<1>3. count \in Nat /\ Live \in SUBSET (1..count) /\ Live \in SUBSET (1..MaxVid)
  BY LiveTyped, ShownIs DEF Inv
<1>4. \A u \in Live \ gone : cell'[u] = cell[u] /\ u # count'
  BY <1>1, <1>3
<1>5. ASSUME NEW v \in 1..MaxVid
      PROVE  (IF v \in Live' THEN Meaning(kind', cell'[v]) ELSE Free)
                = IF v = count + 1 THEN Meaning(kind, w)
                  ELSE IF v \in gone THEN Free ELSE ShownValues[v]
  <2>1. CASE v = count + 1
    <3>1. v \in Live' /\ cell'[v] = w
      BY <1>1, <1>2, <2>1
    <3> QED BY <2>1, <3>1
  <2>2. CASE v # count + 1 /\ v \in gone
    <3>1. v \notin Live'
      BY <1>1, <1>2, <2>2
    <3> QED BY <2>2, <3>1
  <2>3. CASE v # count + 1 /\ v \in Live \ gone
    <3>1. v \in Live' /\ cell'[v] = cell[v] /\ ShownValues[v] = Meaning(kind, cell[v])
      BY <1>2, <1>4, <2>3, ShownIs
    <3> QED BY <2>3, <3>1
  <2>4. CASE v # count + 1 /\ v \notin Live
    <3>1. v \notin Live' /\ ShownValues[v] = Free /\ v \notin gone
      BY <1>1, <1>2, <2>4, ShownIs
    <3> QED BY <2>4, <3>1
  <2> QED BY <2>1, <2>2, <2>3, <2>4
<1>6. ShownValues' = [v \in 1..MaxVid |-> IF v \in Live' THEN Meaning(kind', cell'[v]) ELSE Free]
  BY DEF ShownValues
<1>7. Adds(w, gone)
  BY <1>5, <1>6 DEF Adds
<1>8. count + 1 \in 1..MaxVid
  BY <1>1, <1>3
<1> QED BY <1>7, <1>8

LEMMA ShownStays ==
    ASSUME UNCHANGED <<kind, store>>
    PROVE  ShownValues' = ShownValues /\ count' = count
BY DEF ShownValues, Live, Vids, store

\* To get a value is to find or to create it in the map.
LEMMA GotIsMapped ==
    ASSUME Inv, kind' = kind, kind # "TextSet", NEW v \in ValuesOf(kind), HasGot(v),
           HasFound(v, FindVid(v)) \/ HasMissed(v, FindVid(v))
    PROVE  Abstract!FindOrCreate(Meaning(kind, v))
<1> DEFINE x == Meaning(kind, v)
<1>1. 0 \notin Live
  BY LiveTyped DEF Inv
<1>2. CASE HasFound(v, FindVid(v))
  <2>1. FindVid(v) # 0
    BY <1>1, <1>2 DEF HasFound
  <2>2. answer' = FindVid(v) /\ UNCHANGED <<kind, store>>
    BY <2>1 DEF HasGot
  <2>3. answer' \in Abstract!VidsOf(x)
    BY <1>2, <2>2, VidsAre
  <2>4. Abstract!Find(x)
    BY <2>2, <2>3, ShownStays DEF Abstract!Find
  <2> QED BY <2>3, <2>4 DEF Abstract!FindOrCreate
<1>3. CASE HasMissed(v, FindVid(v))
  <2>1. Abstract!VidsOf(x) = {}
    BY <1>3, VidsAre
  <2>2. HasNewCell(cell, v)
    BY <1>3 DEF HasGot, HasMissed, HasCreated
  <2>3. Adds(v, {}) /\ count + 1 \in 1..MaxVid
    <3>1. LiveIn(count, cell) = Live \ {}
      BY LiveIs
    <3> QED BY <2>2, <3>1, NewCellShows
  <2>4. answer' = count + 1 /\ count' = count + 1
    BY <2>2 DEF HasNewCell
  <2>5. ShownValues' = [ShownValues EXCEPT ![count + 1] = x]
    BY <2>3, ShownIs DEF Adds
  <2>6. Abstract!Create(x)
    BY <2>1, <2>4, <2>5 DEF Abstract!Create
  <2> QED BY <2>1, <2>6 DEF Abstract!FindOrCreate
<1> QED BY <1>2, <1>3

\* How a call is shown.
LEMMA CallIsShown ==
    ASSUME NEW o, NEW val, NEW vid, NEW list,
           call' = [op |-> o, value |-> val, vid |-> vid, merge |-> list]
    PROVE  ShownCall' = [op |-> o,
                         value |-> IF val = Free THEN Free ELSE Meaning(kind, val)',
                         vid |-> vid,
                         merge |-> IF list = <<>> THEN Free ELSE MergeSet(list)]
<1> DEFINE a == IF val = Free THEN Free ELSE Meaning(kind', val)
           b == IF list = <<>> THEN Free ELSE MergeSet(list)
           c == [call' EXCEPT !.value = IF @ = Free THEN Free ELSE Meaning(kind', @)]
<1>1. c = [op |-> o, value |-> a, vid |-> vid, merge |-> list]
  <2>1. call'.value = val
    OBVIOUS
  <2>2. c = [call' EXCEPT !.value = a]
    BY <2>1
  <2> HIDE DEF a, c
  <2> QED BY <2>2
<1>2. ShownCall' = [c EXCEPT !.merge = IF @ = <<>> THEN Free ELSE MergeSet(@)]
  BY DEF ShownCall
<1>3. ShownCall' = [c EXCEPT !.merge = b]
  <2>1. c.merge = list
    <3> HIDE DEF a, c
    <3> QED BY <1>1
  <2> HIDE DEF c
  <2> QED BY <1>2, <2>1
<1>4. ShownCall' = [op |-> o, value |-> a, vid |-> vid, merge |-> b]
  <2> HIDE DEF a, b, c
  <2> QED BY <1>1, <1>3
<1> QED BY <1>4

\* A call before its arguments are put in.
Blank(r, y) == r = [op |-> "none", value |-> Free, vid |-> 0, merge |-> y]

LEMMA BlanksAre == Blank(NoCall, <<>>) /\ Blank(Abstract!NoCall, Free)
BY DEF Blank, NoCall, Abstract!NoCall

\* With a value, with a vid, and with both a vid and a merge set.
ValueCall(r, o, x) == [r EXCEPT !.op = o, !.value = x]
VidCall(r, o, vid) == [r EXCEPT !.op = o, !.vid = vid]
MergeCall(r, o, vid, merge) == [r EXCEPT !.op = o, !.vid = vid, !.merge = merge]

LEMMA WithValue ==
    ASSUME NEW r, NEW y, Blank(r, y), NEW o, NEW x
    PROVE  ValueCall(r, o, x)
              = [op |-> o, value |-> x, vid |-> 0, merge |-> y]
<1> DEFINE s == [r EXCEPT !.op = o]
<1>1. s = [op |-> o, value |-> Free, vid |-> 0, merge |-> y]
  BY DEF Blank
<1>2. [s EXCEPT !.value = x] = [op |-> o, value |-> x, vid |-> 0, merge |-> y]
  <2> HIDE DEF s
  <2> QED BY <1>1
<1> QED BY <1>2 DEF ValueCall

LEMMA WithVid ==
    ASSUME NEW r, NEW y, Blank(r, y), NEW o, NEW vid
    PROVE  VidCall(r, o, vid)
              = [op |-> o, value |-> Free, vid |-> vid, merge |-> y]
<1> DEFINE s == [r EXCEPT !.op = o]
<1>1. s = [op |-> o, value |-> Free, vid |-> 0, merge |-> y]
  BY DEF Blank
<1>2. [s EXCEPT !.vid = vid] = [op |-> o, value |-> Free, vid |-> vid, merge |-> y]
  <2> HIDE DEF s
  <2> QED BY <1>1
<1> QED BY <1>2 DEF VidCall

LEMMA WithMerge ==
    ASSUME NEW r, NEW y, Blank(r, y), NEW o, NEW vid, NEW merge
    PROVE  MergeCall(r, o, vid, merge)
              = [op |-> o, value |-> Free, vid |-> vid, merge |-> merge]
<1> DEFINE s == [r EXCEPT !.op = o, !.vid = vid]
<1>1. s = [op |-> o, value |-> Free, vid |-> vid, merge |-> y]
  <2>1. VidCall(r, o, vid) = [op |-> o, value |-> Free, vid |-> vid, merge |-> y]
    BY WithVid
  <2> QED BY <2>1 DEF VidCall
<1>2. [s EXCEPT !.merge = merge]
         = [op |-> o, value |-> Free, vid |-> vid, merge |-> merge]
  <2> HIDE DEF s
  <2> QED BY <1>1
<1> QED BY <1>2 DEF MergeCall

\* The last call, and what is shown of it.
ValueCalled(o, v) == call' = ValueCall(NoCall, o, v)
ValueShown(o, x) == ShownCall' = ValueCall(Abstract!NoCall, o, x)
VidCalled(o, vid) == call' = VidCall(NoCall, o, vid)
VidShown(o, vid) == ShownCall' = VidCall(Abstract!NoCall, o, vid)
MergeCalled(o, vid, list) == call' = MergeCall(NoCall, o, vid, list)
MergeShown(o, vid, list) ==
    ShownCall' = MergeCall(Abstract!NoCall, o, vid, MergeSet(list))

\* How such calls are shown.
LEMMA ValueCallIs ==
    ASSUME NEW o, NEW v, v # Free, kind' = kind, ValueCalled(o, v)
    PROVE  ValueShown(o, Meaning(kind, v))
<1>1. call' = [op |-> o, value |-> v, vid |-> 0, merge |-> <<>>]
  <2>1. ValueCall(NoCall, o, v) = [op |-> o, value |-> v, vid |-> 0, merge |-> <<>>]
    BY BlanksAre, WithValue
  <2> QED BY <2>1 DEF ValueCalled
<1>2. ShownCall' = [op |-> o,
                    value |-> IF v = Free THEN Free ELSE Meaning(kind, v)',
                    vid |-> 0,
                    merge |-> IF <<>> = <<>> THEN Free ELSE MergeSet(<<>>)]
  BY <1>1, CallIsShown
<1>3. ShownCall' = [op |-> o, value |-> Meaning(kind, v), vid |-> 0, merge |-> Free]
  BY <1>2
<1>4. ValueCall(Abstract!NoCall, o, Meaning(kind, v))
         = [op |-> o, value |-> Meaning(kind, v), vid |-> 0, merge |-> Free]
  BY BlanksAre, WithValue
<1> QED BY <1>3, <1>4 DEF ValueShown

LEMMA VidCallIs ==
    ASSUME NEW o, NEW vid, VidCalled(o, vid)
    PROVE  VidShown(o, vid)
<1>1. call' = [op |-> o, value |-> Free, vid |-> vid, merge |-> <<>>]
  <2>1. VidCall(NoCall, o, vid) = [op |-> o, value |-> Free, vid |-> vid, merge |-> <<>>]
    BY BlanksAre, WithVid
  <2> QED BY <2>1 DEF VidCalled
<1>2. ShownCall' = [op |-> o,
                    value |-> IF Free = Free THEN Free ELSE Meaning(kind, Free)',
                    vid |-> vid,
                    merge |-> IF <<>> = <<>> THEN Free ELSE MergeSet(<<>>)]
  BY <1>1, CallIsShown
<1>3. ShownCall' = [op |-> o, value |-> Free, vid |-> vid, merge |-> Free]
  BY <1>2
<1>4. VidCall(Abstract!NoCall, o, vid)
         = [op |-> o, value |-> Free, vid |-> vid, merge |-> Free]
  BY BlanksAre, WithVid
<1> QED BY <1>3, <1>4 DEF VidShown

LEMMA MergeCallIs ==
    ASSUME NEW o, NEW vid, NEW list, list # <<>>,
           MergeCalled(o, vid, list)
    PROVE  MergeShown(o, vid, list)
<1>1. call' = [op |-> o, value |-> Free, vid |-> vid, merge |-> list]
  <2>1. MergeCall(NoCall, o, vid, list) = [op |-> o, value |-> Free, vid |-> vid, merge |-> list]
    BY BlanksAre, WithMerge
  <2> QED BY <2>1 DEF MergeCalled
<1>2. ShownCall' = [op |-> o,
                    value |-> IF Free = Free THEN Free ELSE Meaning(kind, Free)',
                    vid |-> vid,
                    merge |-> IF list = <<>> THEN Free ELSE MergeSet(list)]
  BY <1>1, CallIsShown
<1>3. ShownCall' = [op |-> o, value |-> Free, vid |-> vid, merge |-> MergeSet(list)]
  BY <1>2
<1>4. MergeCall(Abstract!NoCall, o, vid, MergeSet(list))
         = [op |-> o, value |-> Free, vid |-> vid, merge |-> MergeSet(list)]
  BY BlanksAre, WithMerge
<1> QED BY <1>3, <1>4 DEF MergeShown

LEMMA NoCallIs ==
    ASSUME call' = NoCall
    PROVE  ShownCall' = Abstract!NoCall
<1>1. call' = [op |-> "none", value |-> Free, vid |-> 0, merge |-> <<>>]
  BY BlanksAre DEF Blank
<1>2. ShownCall' = [op |-> "none",
                    value |-> IF Free = Free THEN Free ELSE Meaning(kind, Free)',
                    vid |-> 0,
                    merge |-> IF <<>> = <<>> THEN Free ELSE MergeSet(<<>>)]
  BY <1>1, CallIsShown
<1>3. ShownCall' = [op |-> "none", value |-> Free, vid |-> 0, merge |-> Free]
  BY <1>2
<1> QED BY <1>3, BlanksAre DEF Blank

\* A value in which topics are replaced means the image of the old one.
LEMMA SetImageIs ==
    ASSUME kind = "TopicSet", NEW set \in Lists(Topic), NEW list \in Seq(Topic) \ {<<>>},
           ReplaceAsserts(set, list)
    PROVE  Meaning(kind, Replaced(set, list))
              = Abstract!Image(Meaning(kind, set), MergeSet(list))
<1> DEFINE new == ReplaceInSet(set, list)
           merge == MergeSet(list)
           f(t) == IF t \in merge.gone THEN merge.stays ELSE t
           x == Meaning(kind, set)
<1>1. ToSet(new) = {Stay(list, t) : t \in ToSet(set)}
  BY ReplaceInSetKeeps
<1>2. \A t : f(t) = Stay(list, t)
  BY DEF MergeSet, Stay
<1>3. x[1] = "TopicSet" /\ x[2] = ToSet(set)
  BY DEF Meaning
<1>4. Meaning(kind, Replaced(set, list)) = <<"TopicSet", ToSet(new)>>
  BY DEF Meaning, Replaced
<1> HIDE DEF x
<1>5. Abstract!Image(x, merge) = <<x[1], {f(t) : t \in x[2]}>>
  BY <1>3 DEF Abstract!Image
<1> HIDE DEF f, new, merge
<1>6. {f(t) : t \in ToSet(set)} = {Stay(list, t) : t \in ToSet(set)}
  BY <1>2
<1>7. Abstract!Image(x, merge) = <<"TopicSet", ToSet(new)>>
  BY <1>1, <1>3, <1>5, <1>6
<1> QED BY <1>4, <1>7 DEF x, merge

LEMMA ASidpImageIs ==
    ASSUME kind \in {"ASidp", "SlowASidp"}, NEW v \in ASidpType,
           NEW list \in Seq(Topic) \ {<<>>}
    PROVE  Meaning(kind, Replaced(v, list))
              = Abstract!Image(Meaning(kind, v), MergeSet(list))
<1> DEFINE new == ReplaceInASidp(v, list)
           merge == MergeSet(list)
           f(t) == IF t \in merge.gone THEN merge.stays ELSE t
           x == Meaning(kind, v)
           pairs == Pairs(v.members)
           image == {<<f(m[1]), f(m[2])>> : m \in pairs}
<1>1. /\ new.type = Stay(list, v.type)
      /\ ToSet(new.members) = {ReplacedMember(m, list) : m \in ToSet(v.members)}
  BY ReplaceInASidpKeeps
<1>2. \A t : f(t) = Stay(list, t)
  BY DEF MergeSet, Stay
<1>3. x[1] = "ASidp" /\ x[2].type = v.type /\ x[2].members = pairs
  BY DEF Meaning, Pairs
<1>4. Meaning(kind, Replaced(v, list))
         = <<"ASidp", [type |-> new.type, members |-> Pairs(new.members)]>>
  BY DEF Meaning, Replaced, Pairs
<1> HIDE DEF x
<1>5. Abstract!Image(x, merge)
         = <<x[1], [type |-> f(x[2].type),
                    members |-> {<<f(m[1]), f(m[2])>> : m \in x[2].members}]>>
  BY <1>3 DEF Abstract!Image
<1> HIDE DEF f, new, merge
<1>6. image = Pairs(new.members)
  <2>1. \A m : /\ ReplacedMember(m, list).role = f(m.role)
               /\ ReplacedMember(m, list).player = f(m.player)
    BY <1>2 DEF ReplacedMember
  <2>2. ASSUME NEW m \in ToSet(v.members)
        PROVE  /\ <<m.role, m.player>> \in pairs
               /\ <<m.role, m.player>>[1] = m.role /\ <<m.role, m.player>>[2] = m.player
    BY DEF Pairs
  <2>3. ASSUME NEW p \in pairs PROVE <<f(p[1]), f(p[2])>> \in Pairs(new.members)
    <3>1. PICK m \in ToSet(v.members) : p = <<m.role, m.player>>
      BY DEF Pairs
    <3>2. p[1] = m.role /\ p[2] = m.player
      BY <3>1
    <3>3. ReplacedMember(m, list) \in ToSet(new.members)
      BY <1>1
    <3>4. <<ReplacedMember(m, list).role, ReplacedMember(m, list).player>>
             \in Pairs(new.members)
      BY <3>3 DEF Pairs
    <3> QED BY <2>1, <3>2, <3>4
  <2>4. ASSUME NEW p \in Pairs(new.members) PROVE p \in image
    <3>1. PICK r \in ToSet(new.members) : p = <<r.role, r.player>>
      BY DEF Pairs
    <3>2. PICK m \in ToSet(v.members) : r = ReplacedMember(m, list)
      BY <1>1
    <3>3. PICK q \in pairs : q[1] = m.role /\ q[2] = m.player
      BY <2>2
    <3>4. p = <<f(q[1]), f(q[2])>>
      BY <2>1, <3>1, <3>2, <3>3
    <3> QED BY <3>4
  <2> QED BY <2>3, <2>4
<1>7. f(x[2].type) = new.type
  BY <1>1, <1>2, <1>3
<1>8. Abstract!Image(x, merge)
         = <<"ASidp", [type |-> new.type, members |-> Pairs(new.members)]>>
  <2>1. {<<f(m[1]), f(m[2])>> : m \in x[2].members} = image
    BY <1>3
  <2> HIDE DEF image
  <2> QED BY <1>3, <1>5, <1>6, <1>7, <2>1
<1> QED BY <1>4, <1>8 DEF x, merge

\* The values of a store are those of the map.
AllMeant == UNION {{Meaning(k, v) : v \in Inputs[k]} : k \in Kinds}

LEMMA LookupMapped ==
    ASSUME Inv, RolesAscend, NEW v \in Inputs[kind], Lookup(v)
    PROVE  Abstract!Lookup(Meaning(kind, v))
<1> DEFINE x == Meaning(kind, v)
<1>1. /\ answer' = FindVid(v) /\ UNCHANGED <<kind, store>> /\ kind' = kind
      /\ call' = [NoCall EXCEPT !.op = "lookup", !.value = v]
  BY DEF Lookup
<1>2. StoreOk /\ kind \in Kinds
  BY LiveTyped DEF Inv
<1>3. v \in ValuesOf(kind) /\ (kind = "SlowASidp" => Ascending(v)) /\ v # Free
  BY <1>2, InputTyped, CallersAssumption
<1>4. HasFound(v, FindVid(v)) \/ HasMissed(v, FindVid(v))
  BY <1>2, <1>3, FindIs
<1>5. answer' \in Abstract!VidsOf(x) \/ (answer' = 0 /\ Abstract!VidsOf(x) = {})
  BY <1>1, <1>3, <1>4, VidsAre DEF HasMissed
<1>6. Abstract!Find(x)
  BY <1>1, <1>5, ShownStays DEF Abstract!Find
<1>7. ShownCall' = [Abstract!NoCall EXCEPT !.op = "lookup", !.value = x]
  <2>1. ValueCalled("lookup", v)
    BY <1>1 DEF ValueCalled, ValueCall
  <2>2. ValueShown("lookup", x)
    BY <1>1, <1>3, <2>1, ValueCallIs
  <2> QED BY <2>2 DEF ValueShown, ValueCall
<1> QED BY <1>6, <1>7 DEF Abstract!Lookup

LEMMA StoreMapped ==
    ASSUME Inv, RolesAscend, NEW v \in Inputs[kind], Store(v)
    PROVE  Abstract!Store(Meaning(kind, v))
<1> DEFINE x == Meaning(kind, v)
<1>1. /\ kind # "TextSet" /\ kind' = kind
      /\ call' = [NoCall EXCEPT !.op = "store", !.value = v]
  BY DEF Store
<1>2. StoreOk /\ kind \in Kinds
  BY LiveTyped DEF Inv
<1>3. v \in ValuesOf(kind) /\ (kind = "SlowASidp" => Ascending(v)) /\ v # Free
  BY <1>2, InputTyped, CallersAssumption
<1>4. HasFound(v, FindVid(v)) \/ HasMissed(v, FindVid(v))
  BY <1>2, <1>3, FindIs
<1>5. HasGot(v)
  BY StoreStepOk
<1>6. Abstract!FindOrCreate(x)
  BY <1>1, <1>3, <1>4, <1>5, GotIsMapped
<1>7. ShownCall' = [Abstract!NoCall EXCEPT !.op = "store", !.value = x]
  <2>1. ValueCalled("store", v)
    BY <1>1 DEF ValueCalled, ValueCall
  <2>2. ValueShown("store", x)
    BY <1>1, <1>3, <2>1, ValueCallIs
  <2> QED BY <2>2 DEF ValueShown, ValueCall
<1> QED BY <1>6, <1>7 DEF Abstract!Store

LEMMA DeleteMapped ==
    ASSUME Inv, NEW v \in Live, Delete(v)
    PROVE  Abstract!Delete(v)
<1>1. /\ kind' = kind /\ count' = count /\ answer' = 0
      /\ call' = [NoCall EXCEPT !.op = "delete", !.vid = v]
  BY DEF Delete
<1>2. Live' = Live \ {v} /\ \A u \in Live \ {v} : cell'[u] = cell[u]
  BY DeleteStepOk DEF HasDeleted
<1>3. /\ Live \in SUBSET (1..MaxVid) /\ ShownValues[v] # Free
      /\ DOMAIN ShownValues = 1..MaxVid
  BY ShownIs
<1>4. ASSUME NEW u \in 1..MaxVid
      PROVE  (IF u \in Live' THEN Meaning(kind', cell'[u]) ELSE Free)
                = IF u = v THEN Free ELSE ShownValues[u]
  <2>1. CASE u = v
    BY <1>2, <2>1
  <2>2. CASE u # v /\ u \in Live
    <3>1. u \in Live' /\ cell'[u] = cell[u] /\ ShownValues[u] = Meaning(kind, cell[u])
      BY <1>2, <2>2, ShownIs
    <3> QED BY <1>1, <2>2, <3>1
  <2>3. CASE u # v /\ u \notin Live
    <3>1. u \notin Live' /\ ShownValues[u] = Free
      BY <1>2, <2>3, ShownIs
    <3> QED BY <2>3, <3>1
  <2> QED BY <2>1, <2>2, <2>3
<1>5. ShownValues' = [u \in 1..MaxVid |-> IF u \in Live' THEN Meaning(kind', cell'[u]) ELSE Free]
  BY DEF ShownValues
<1>6. [ShownValues EXCEPT ![v] = Free] = [u \in 1..MaxVid |-> IF u = v THEN Free ELSE ShownValues[u]]
  BY <1>3
<1>7. ShownValues' = [ShownValues EXCEPT ![v] = Free]
  BY <1>4, <1>5, <1>6
<1>8. ShownCall' = [Abstract!NoCall EXCEPT !.op = "delete", !.vid = v]
  <2>1. VidCalled("delete", v)
    BY <1>1 DEF VidCalled, VidCall
  <2>2. VidShown("delete", v)
    BY <2>1, VidCallIs
  <2> QED BY <2>2 DEF VidShown, VidCall
<1> QED BY <1>1, <1>3, <1>7, <1>8 DEF Abstract!Delete

LEMMA ReplaceMapped ==
    ASSUME Inv, RolesAscend, RolesAscend', NEW v \in Live, NEW list \in MergeLists,
           Replace(v, list)
    PROVE  Abstract!Replace(v, MergeSet(list)) \/ UNCHANGED Abstract!vars
<1> DEFINE new == Replaced(cell[v], list)
           x == Meaning(kind, new)
<1>1. kind' = kind /\ kind \in {"TopicSet", "ASidp", "SlowASidp"}
  BY DEF Replace
<1>2. StoreOk /\ cell[v] \in ValuesOf(kind) /\ list \in Seq(Topic) \ {<<>>} /\ list # <<>>
  BY LiveTyped, CallersAssumption DEF Inv
<1>3. HasReplaced(v, list) \/ UNCHANGED <<store, answer, call>>
  BY ReplaceStepOk
<1>4. CASE UNCHANGED <<store, answer, call>>
  <2>1. UNCHANGED <<kind, store>> /\ answer' = answer /\ call' = call
    BY <1>1, <1>4
  <2>2. ShownCall' = ShownCall
    BY <1>1, <2>1 DEF ShownCall
  <2> QED BY <2>1, <2>2, ShownStays DEF Abstract!vars
<1>5. CASE ~ UNCHANGED <<store, answer, call>> /\ HasReplaced(v, list)
  <2>1. new \in ValuesOf(kind) /\ HasGot(new) /\ ReplacedOk(cell[v], list)
    BY <1>5 DEF HasReplaced
  <2>2. call' = [NoCall EXCEPT !.op = "replace", !.vid = v, !.merge = list]
    <3>1. GetValue(v) = cell[v]
      BY <1>1 DEF GetValue
    <3> QED BY <2>1, <3>1 DEF Replace
  <2>3. HasFound(new, FindVid(new)) \/ HasMissed(new, FindVid(new))
    <3>1. CASE FindVid(new) # 0
      BY <1>2, <2>1, <3>1, FindIs
    <3>2. CASE FindVid(new) = 0
      <4>1. HasNewCell(cell, new)
        BY <2>1, <3>2 DEF HasGot, HasCreated
      <4>2. count' \in Live' /\ cell'[count'] = new
        BY <4>1 DEF HasNewCell, LiveIn, Live, Vids
      <4>3. kind = "SlowASidp" => Ascending(new)
        BY <1>1, <4>2 DEF RolesAscend
      <4> QED BY <1>2, <2>1, <4>3, FindIs
    <3> QED BY <3>1, <3>2
  <2>4. Abstract!FindOrCreate(x)
    BY <1>1, <2>1, <2>3, GotIsMapped
  <2>5. x = Abstract!Image(Meaning(kind, cell[v]), MergeSet(list))
    <3>1. CASE kind = "TopicSet"
      <4>1. cell[v] \in Lists(Topic)
        BY <1>2, <3>1 DEF ValuesOf, Lists
      <4>2. ReplaceAsserts(cell[v], list)
        BY <2>1, <3>1 DEF ReplacedOk
      <4> QED BY <1>2, <3>1, <4>1, <4>2, SetImageIs
    <3>2. CASE kind \in {"ASidp", "SlowASidp"}
      <4>1. cell[v] \in ASidpType
        BY <1>2, <3>2 DEF ValuesOf
      <4> QED BY <1>2, <3>2, <4>1, ASidpImageIs
    <3> QED BY <1>1, <3>1, <3>2
  <2>6. ShownValues[v] = Meaning(kind, cell[v]) /\ ShownValues[v] # Free
    BY ShownIs
  <2>7. ShownCall' = [Abstract!NoCall EXCEPT !.op = "replace", !.vid = v,
                                             !.merge = MergeSet(list)]
    <3>1. MergeCalled("replace", v, list)
      BY <2>2 DEF MergeCalled, MergeCall
    <3>2. MergeShown("replace", v, list)
      BY <1>2, <3>1, MergeCallIs
    <3> QED BY <3>2 DEF MergeShown, MergeCall
  <2> HIDE DEF x
  <2>8. Abstract!FindOrCreate(Abstract!Image(ShownValues[v], MergeSet(list)))
    BY <2>4, <2>5, <2>6
  <2> QED BY <2>6, <2>7, <2>8 DEF Abstract!Replace
<1> QED BY <1>3, <1>4, <1>5

\* The sets that a set meets, in the map and by the table.
LEMMA MeetingIs ==
    ASSUME Inv, kind = "TextSet", NEW v
    PROVE  Abstract!Meeting(Meaning(kind, v)) = Led(ToSet(v))
<1> DEFINE x == Meaning(kind, v)
<1>1. \A y : Meaning(kind, y)[2] = ToSet(y)
  BY DEF Meaning
<1>2. Led(ToSet(v)) = {u \in Live : ToSet(v) \cap ToSet(cell[u]) # {}}
  BY LedAre DEF Inv
<1>3. Abstract!Meeting(x)
         = {u \in 1..MaxVid : ShownValues[u] # Free /\ ShownValues[u][2] \cap x[2] # {}}
  BY DEF Abstract!Meeting
<1>4. \A u \in Live : /\ u \in 1..MaxVid /\ ShownValues[u] # Free
                      /\ ShownValues[u][2] = ToSet(cell[u])
  BY <1>1, ShownIs
<1>5. \A u \in 1..MaxVid : ShownValues[u] # Free => u \in Live
  BY ShownIs
<1>6. x[2] = ToSet(v)
  BY <1>1
<1> HIDE DEF x
<1>7. ASSUME NEW u \in Abstract!Meeting(x) PROVE u \in Led(ToSet(v))
  BY <1>2, <1>3, <1>4, <1>5, <1>6
<1>8. ASSUME NEW u \in Led(ToSet(v)) PROVE u \in Abstract!Meeting(x)
  BY <1>2, <1>3, <1>4, <1>6
<1> QED BY <1>7, <1>8 DEF x

LEMMA CombineMapped ==
    ASSUME Inv, NEW v \in Inputs[kind], Combine(v)
    PROVE  Abstract!Combine(Meaning(kind, v))
<1> DEFINE x == Meaning(kind, v)
           gone == Led(ToSet(v))
<1>1. /\ kind = "TextSet" /\ kind' = kind
      /\ call' = [NoCall EXCEPT !.op = "combine", !.value = v]
  BY DEF Combine
<1>2. StoreOk /\ kind \in Kinds
  BY LiveTyped DEF Inv
<1>3. v \in ValuesOf(kind) /\ v # Free /\ v # <<>> /\ v \in Seq(Seq(Char))
  BY <1>1, <1>2, InputTyped, CallersAssumption DEF ValuesOf
<1>4. ShownCall' = [Abstract!NoCall EXCEPT !.op = "combine", !.value = x]
  <2>1. ValueCalled("combine", v)
    BY <1>1 DEF ValueCalled, ValueCall
  <2>2. ValueShown("combine", x)
    BY <1>1, <1>3, <2>1, ValueCallIs
  <2> QED BY <2>2 DEF ValueShown, ValueCall
<1>5. Abstract!Meeting(x) = gone /\ gone \in SUBSET Live
  BY <1>1, <1>2, <1>3, MeetingIs, MetAre
<1>6. \A y : Meaning(kind, y) = <<"TextSet", ToSet(y)>>
  BY <1>1 DEF Meaning
<1>7. x = <<"TextSet", ToSet(v)>> /\ x[1] = "TextSet" /\ x[2] = ToSet(v)
  BY <1>6
<1>8. \A u \in Live : ShownValues[u] = <<"TextSet", ToSet(cell[u])>>
  BY <1>6, ShownIs
<1>9. CASE HasFoundSame(v)
  <2> DEFINE h == Head(Met(v))
  <2>1. /\ h \in Live /\ gone = {h} /\ ToSet(cell[h]) = ToSet(v)
        /\ answer' = h /\ UNCHANGED store /\ UNCHANGED <<kind, store>>
    BY <1>1, <1>9 DEF HasFoundSame
  <2> HIDE DEF h, x
  <2>2. ShownValues[h] = x
    BY <1>7, <1>8, <2>1
  <2>3. {ShownValues[u] : u \in Abstract!Meeting(x)} = {x}
    BY <1>5, <2>1, <2>2
  <2>4. answer' \in Abstract!VidsOf(x)
    BY <2>1, <2>2, ShownIs DEF Abstract!VidsOf
  <2>5. Abstract!Find(x)
    BY <2>1, <2>4, ShownStays DEF Abstract!Find
  <2>6. Abstract!Combine(x)
    BY <1>4, <1>7, <2>3, <2>5 DEF Abstract!Combine
  <2> QED BY <2>6 DEF x
<1>10. CASE HasJoined(v)
  <2> DEFINE all == Joined(v, Met(v))
             cells == CellsWithout(v)
             union == ToSet(v) \cup UNION {ToSet(cell[u]) : u \in gone}
  <2>1. /\ ~ \E w \in Live : gone = {w} /\ ToSet(cell[w]) = ToSet(v)
        /\ HasNewCell(cells, all)
        /\ LiveIn(count, cells) = Live \ gone
        /\ \A u \in Live \ gone : cells[u] = cell[u]
    BY <1>10 DEF HasJoined
  <2>2. Adds(all, gone)
    BY <1>1, <1>5, <2>1, NewCellShows
  <2>3. answer' = count + 1 /\ count' = count + 1
    BY <2>1 DEF HasNewCell
  <2>4. ToSet(all) = union
    <3>1. ToSet(all) = ToSet(v) \cup TextsOf(gone)
      BY <1>1, <1>2, <1>3, JoinedAre DEF Enumerates
    <3>2. TextsOf(gone) = UNION {ToSet(cell[u]) : u \in gone}
      BY DEF TextsOf
    <3> QED BY <3>1, <3>2
  <2>5. {ShownValues[u] : u \in Abstract!Meeting(x)} # {x}
    <3> SUFFICES ASSUME {ShownValues[u] : u \in gone} = {x} PROVE FALSE
      BY <1>5
    <3>1. \A u \in gone : ToSet(cell[u]) = ToSet(v)
      <4> SUFFICES ASSUME NEW u \in gone PROVE ToSet(cell[u]) = ToSet(v)
        OBVIOUS
      <4>1. ShownValues[u] = x
        OBVIOUS
      <4>2. <<"TextSet", ToSet(cell[u])>> = <<"TextSet", ToSet(v)>>
        BY <1>5, <1>7, <1>8, <4>1
      <4> QED BY <4>2
    <3>2. PICK w \in gone : TRUE
      OBVIOUS
    <3>3. Head(v) \in ToSet(v)
      BY <1>3 DEF ToSet
    <3>4. \A u \in Live : \A y \in ToSet(cell[u]) : y \in DOMAIN table /\ table[y] = u
      <4>1. \A y : KeysOf(kind, y) = ToSet(y)
        BY <1>1 DEF KeysOf
      <4> QED BY <1>2, <4>1 DEF StoreOk, TableOk
    <3>5. \A u \in gone : u = table[Head(v)]
      BY <1>5, <3>1, <3>3, <3>4
    <3>6. gone = {w}
      BY <3>2, <3>5
    <3> QED BY <1>5, <2>1, <3>1, <3>2, <3>6
  <2>6. {ShownValues[w][2] : w \in gone} = {ToSet(cell[u]) : u \in gone}
    <3>1. \A u \in gone : ShownValues[u][2] = ToSet(cell[u])
      BY <1>5, <1>8
    <3> QED BY <3>1
  <2> HIDE DEF all, cells
  <2>7. Meaning(kind, all) = <<x[1], x[2] \cup UNION {ShownValues[w][2] : w \in gone}>>
    BY <1>6, <1>7, <2>4, <2>6
  <2> HIDE DEF x, gone, union
  <2>8. ShownValues' = [u \in 1..MaxVid |->
           IF u = count + 1
           THEN <<x[1], x[2] \cup UNION {ShownValues[w][2] : w \in Abstract!Meeting(x)}>>
           ELSE IF u \in Abstract!Meeting(x) THEN Free ELSE ShownValues[u]]
    BY <1>5, <2>2, <2>7 DEF Adds
  <2>9. Abstract!Combine(x)
    BY <1>4, <1>7, <2>3, <2>5, <2>8 DEF Abstract!Combine
  <2> QED BY <2>9 DEF x
<1>11. HasFoundSame(v) \/ HasJoined(v)
  BY CombineStepOk
<1> QED BY <1>9, <1>10, <1>11

LEMMA ScanOpenMapped ==
    ASSUME NEW op, NEW arg, ScanOpen(op, arg)
    PROVE  Abstract!Scan
<1>1. call' = NoCall /\ answer' = 0 /\ UNCHANGED <<kind, store>>
  BY DEF ScanOpen
<1>2. ShownCall' = Abstract!NoCall
  BY <1>1, NoCallIs
<1> QED BY <1>1, <1>2, ShownStays DEF Abstract!Scan

LEMMA InitMapped ==
    ASSUME Init
    PROVE  Abstract!Init
<1>1. count = 0 /\ call = NoCall /\ answer = 0
  BY DEF Init
<1>2. Live = {}
  BY <1>1 DEF Live, Vids
<1>3. ShownValues = [v \in 1..MaxVid |-> Free]
  BY <1>2 DEF ShownValues
<1>4. ShownCall = Abstract!NoCall
  <2> DEFINE none == [op |-> "none", value |-> Free, vid |-> 0, merge |-> <<>>]
  <2>1. call = none /\ call.value = Free /\ call.merge = <<>>
    BY <1>1 DEF NoCall
  <2>2. ShownCall = [none EXCEPT !.value = Free, !.merge = Free]
    BY <2>1 DEF ShownCall
  <2> DEFINE freed == [none EXCEPT !.value = Free]
  <2>3. freed = [op |-> "none", value |-> Free, vid |-> 0, merge |-> <<>>]
    OBVIOUS
  <2>4. ShownCall = [freed EXCEPT !.merge = Free]
    BY <2>2
  <2> HIDE DEF none, freed
  <2>5. [freed EXCEPT !.merge = Free]
           = [op |-> "none", value |-> Free, vid |-> 0, merge |-> Free]
    BY <2>3
  <2> QED BY <2>4, <2>5 DEF Abstract!NoCall
<1> QED BY <1>1, <1>3, <1>4 DEF Abstract!Init

LEMMA StepMapped ==
    ASSUME Inv, RolesAscend, RolesAscend', [Next]_vars
    PROVE  [Abstract!Next]_(Abstract!vars)
<1>1. kind \in Kinds /\ Live \in SUBSET (1..MaxVid)
  BY LiveTyped, ShownIs DEF Inv
<1>2. CASE \E v \in Inputs[kind] : Lookup(v) \/ Store(v) \/ Combine(v)
  <2>1. PICK v \in Inputs[kind] : Lookup(v) \/ Store(v) \/ Combine(v)
    BY <1>2
  <2> DEFINE x == Meaning(kind, v)
  <2>2. Abstract!Lookup(x) \/ Abstract!Store(x) \/ Abstract!Combine(x)
    BY <2>1, LookupMapped, StoreMapped, CombineMapped
  <2>3. x \in UNION {{Meaning(k, u) : u \in Inputs[k]} : k \in Kinds}
    BY <1>1
  <2> QED BY <2>2, <2>3 DEF Abstract!Next
<1>3. CASE \E v \in Live : Delete(v)
  BY <1>1, <1>3, DeleteMapped DEF Abstract!Next
<1>4. CASE \E v \in Live, list \in MergeLists : Replace(v, list)
  <2>1. PICK v \in Live, list \in MergeLists : Replace(v, list)
    BY <1>4
  <2>2. Abstract!Replace(v, MergeSet(list)) \/ UNCHANGED Abstract!vars
    BY <2>1, ReplaceMapped
  <2> QED BY <1>1, <2>2 DEF Abstract!Next
<1>5. CASE \E s \in Scans[kind] : ScanOpen(s[1], s[2])
  BY <1>5, ScanOpenMapped DEF Abstract!Next
<1>6. CASE ScanFetch \/ ScanClose \/ UNCHANGED vars
  <2>1. UNCHANGED <<kind, store>> /\ kind' = kind /\ call' = call /\ answer' = answer
    BY <1>6 DEF ScanFetch, ScanClose, vars
  <2>2. ShownCall' = ShownCall
    BY <2>1 DEF ShownCall
  <2> QED BY <2>1, <2>2, ShownStays DEF Abstract!vars
<1> QED BY <1>2, <1>3, <1>4, <1>5, <1>6 DEF Next

\* A store shows its callers nothing but a map from numbers to what its values
\* mean, however it keeps and finds them: a value is found by its meaning, its
\* number is used for no other value ever, merged topics leave the image of the
\* value, sets of texts that meet are joined.  For the slow a-sidp store, which
\* has no assert, that needs what it does not check: that no merge has brought
\* two roles of an assertion together.
THEOREM StoresImplementValueMap == Spec /\ []RolesAscend => ImplementsValueMap
<1>1. Init => Abstract!Init
  BY InitMapped
<1>2. Inv /\ RolesAscend /\ RolesAscend' /\ [Next]_vars => [Abstract!Next]_(Abstract!vars)
  BY StepMapped
<1> QED BY <1>1, <1>2, InvHolds, PTL DEF Spec, ImplementsValueMap, Abstract!Spec

\* The kind of a store does not change.
LEMMA KindStays == ASSUME [Next]_vars PROVE kind' = kind
<1>1. CASE \E v \in Inputs[kind] : Lookup(v) \/ Store(v) \/ Combine(v)
  <2>1. PICK v \in Inputs[kind] : Lookup(v) \/ Store(v) \/ Combine(v)
    BY <1>1
  <2>2. Lookup(v) => kind' = kind
    BY DEF Lookup
  <2>3. Store(v) => kind' = kind
    BY DEF Store
  <2>4. Combine(v) => kind' = kind
    BY DEF Combine
  <2> QED BY <2>1, <2>2, <2>3, <2>4
<1>2. CASE \E v \in Live : Delete(v)
  BY <1>2 DEF Delete
<1>3. CASE \E v \in Live, list \in MergeLists : Replace(v, list)
  <2>1. PICK v \in Live, list \in MergeLists : Replace(v, list)
    BY <1>3
  <2> QED BY <2>1 DEF Replace
<1>4. CASE \E s \in Scans[kind] : ScanOpen(s[1], s[2])
  BY <1>4 DEF ScanOpen
<1>5. CASE ScanFetch \/ ScanClose \/ UNCHANGED vars
  BY <1>5 DEF ScanFetch, ScanClose, vars
<1> QED BY <1>1, <1>2, <1>3, <1>4, <1>5 DEF Next

\* All stores that are linked, the a-sidp store of asidp.c among them, need no
\* such condition.
THEOREM LinkedStoresImplement ==
    Spec /\ kind # "SlowASidp" => ImplementsValueMap
<1>1. kind # "SlowASidp" /\ [Next]_vars => (kind # "SlowASidp")'
  BY KindStays
<1>2. kind # "SlowASidp" => RolesAscend
  BY DEF RolesAscend
<1> QED BY <1>1, <1>2, StoresImplementValueMap, PTL DEF Spec

=============================================================================
