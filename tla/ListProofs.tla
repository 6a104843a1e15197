----------------------------- MODULE ListProofs -----------------------------
(***************************************************************************)
(* Facts about sequences and folds that the proofs of several modules rest *)
(* on, and what they say of the loop of tm_topicmap_add_mergelist, for any *)
(* number of topics, lists and any arrays.  Induction is over a set of     *)
(* naturals, by the least number outside of it; from it follows that the   *)
(* recursive function behind a fold exists, so that the loops of the code  *)
(* that are modelled by folds can be reasoned about.                       *)
(***************************************************************************)
EXTENDS MergeLists, TLAPS, FiniteSetTheorems, SequenceTheorems,
        WellFoundedInduction

-----------------------------------------------------------------------------
(* Sequences without repetition *)

\* A topic of an array is one of its elements, and each element is at some place.
LEMMA ElementInSet ==
    ASSUME NEW S, NEW q \in Seq(S), NEW k \in 1..Len(q)
    PROVE  q[k] \in ToSet(q)
BY DEF ToSet

\* Adding a topic at the end of an array that does not have it.
LEMMA AppendIsLarger ==
    ASSUME NEW S, NEW q \in Seq(S), IsInjective(q), NEW t \in S,
           t \notin ToSet(q)
    PROVE  /\ Append(q, t) \in Seq(S)
           /\ IsInjective(Append(q, t))
           /\ ToSet(Append(q, t)) = ToSet(q) \cup {t}
           /\ Append(q, t) # <<>>
<1> DEFINE n == Len(q)
           a == Append(q, t)
<1>1. n \in Nat /\ DOMAIN q = 1..n /\ DOMAIN a = 1..(n + 1)
  OBVIOUS
<1>2. a[n + 1] = t /\ \A i \in 1..n : a[i] = q[i]
  OBVIOUS
<1>3. \A i \in 1..n : q[i] # t
  BY <1>1 DEF ToSet
<1>4. IsInjective(a)
  <2> SUFFICES ASSUME NEW i \in 1..(n + 1), NEW j \in 1..(n + 1), a[i] = a[j]
               PROVE  i = j
    BY <1>1 DEF IsInjective
  <2>1. \A x, y \in 1..n : q[x] = q[y] => x = y
    BY <1>1 DEF IsInjective
  <2>2. (i = n + 1 \/ i \in 1..n) /\ (j = n + 1 \/ j \in 1..n)
    BY <1>1
  <2> QED BY <2>1, <2>2, <1>2, <1>3
<1>5. ToSet(a) = ToSet(q) \cup {t}
  <2>1. ToSet(a) \subseteq ToSet(q) \cup {t}
    <3> SUFFICES ASSUME NEW i \in 1..(n + 1) PROVE a[i] \in ToSet(q) \cup {t}
      BY <1>1 DEF ToSet
    <3>1. i = n + 1 \/ i \in 1..n
      BY <1>1
    <3> QED BY <3>1, <1>1, <1>2 DEF ToSet
  <2>2. ToSet(q) \subseteq ToSet(a)
    <3> SUFFICES ASSUME NEW i \in 1..n PROVE q[i] \in ToSet(a)
      BY <1>1 DEF ToSet
    <3>1. i \in 1..(n + 1)
      BY <1>1
    <3> QED BY <3>1, <1>1, <1>2 DEF ToSet
  <2>3. t \in ToSet(a)
    <3>1. n + 1 \in 1..(n + 1)
      BY <1>1
    <3> QED BY <3>1, <1>1, <1>2 DEF ToSet
  <2> QED BY <2>1, <2>2, <2>3
<1> QED BY <1>1, <1>4, <1>5

\* Putting one array, reversed, behind another that has none of its topics.
LEMMA JoinReversed ==
    ASSUME NEW S, NEW q \in Seq(S), NEW r \in Seq(S),
           IsInjective(q), IsInjective(r), ToSet(q) \cap ToSet(r) = {}
    PROVE  /\ q \o Reverse(r) \in Seq(S)
           /\ IsInjective(q \o Reverse(r))
           /\ ToSet(q \o Reverse(r)) = ToSet(q) \cup ToSet(r)
           /\ r # <<>> => q \o Reverse(r) # <<>>
<1> DEFINE m == Len(q)
           n == Len(r)
           reversed == Reverse(r)
           j == q \o reversed
<1>1. m \in Nat /\ n \in Nat /\ DOMAIN q = 1..m /\ DOMAIN r = 1..n
  OBVIOUS
<1>2. /\ reversed \in Seq(S) /\ Len(reversed) = n
      /\ \A i \in 1..n : reversed[i] = r[(n - i) + 1]
  <2>1. reversed = [i \in 1..n |-> r[(n - i) + 1]]
    BY DEF Reverse
  <2>2. \A i \in 1..n : (n - i) + 1 \in 1..n
    BY <1>1
  <2>3. reversed \in [1..n -> S]
    BY <2>1, <2>2, <1>1
  <2> QED BY <2>1, <2>3, <1>1
<1> HIDE DEF reversed
<1>3. j \in Seq(S) /\ Len(j) = m + n /\ DOMAIN j = 1..(m + n)
  <2>1. j \in Seq(S) /\ Len(j) = m + n
    BY <1>2, ConcatProperties
  <2> QED BY <2>1
<1>4. \A i \in 1..m : j[i] = q[i]
  BY <1>1, <1>2
<1>5. \A i \in (m + 1)..(m + n) : j[i] = r[(n - (i - m)) + 1]
  BY <1>1, <1>2
<1>6. /\ \A i \in 1..(m + n) : i \in 1..m \/ i \in (m + 1)..(m + n)
      /\ \A i \in (m + 1)..(m + n) : (n - (i - m)) + 1 \in 1..n
  BY <1>1
<1>7. IsInjective(j)
  <2> SUFFICES ASSUME NEW a \in 1..(m + n), NEW b \in 1..(m + n), j[a] = j[b]
               PROVE  a = b
    BY <1>3 DEF IsInjective
  <2>1. \A x, y \in 1..m : q[x] = q[y] => x = y
    BY <1>1 DEF IsInjective
  <2>2. \A x, y \in 1..n : r[x] = r[y] => x = y
    BY <1>1 DEF IsInjective
  <2>3. \A x \in 1..m, y \in 1..n : q[x] # r[y]
    BY <1>1 DEF ToSet
  <2>4. CASE a \in 1..m /\ b \in 1..m
    BY <2>4, <2>1, <1>4
  <2>5. CASE a \in 1..m /\ b \in (m + 1)..(m + n)
    <3>1. j[b] = r[(n - (b - m)) + 1] /\ j[a] = q[a]
      BY <2>5, <1>4, <1>5
    <3> QED BY <3>1, <2>5, <2>3, <1>6
  <2>6. CASE b \in 1..m /\ a \in (m + 1)..(m + n)
    <3>1. j[a] = r[(n - (a - m)) + 1] /\ j[b] = q[b]
      BY <2>6, <1>4, <1>5
    <3> QED BY <3>1, <2>6, <2>3, <1>6
  <2>7. CASE a \in (m + 1)..(m + n) /\ b \in (m + 1)..(m + n)
    <3>1. (n - (a - m)) + 1 = (n - (b - m)) + 1
      <4>1. /\ j[a] = r[(n - (a - m)) + 1] /\ j[b] = r[(n - (b - m)) + 1]
            /\ (n - (a - m)) + 1 \in 1..n /\ (n - (b - m)) + 1 \in 1..n
        BY <2>7, <1>5, <1>6
      <4> HIDE DEF j
      <4> QED BY <4>1, <2>2
    <3> QED BY <3>1, <1>1, <2>7
  <2> QED BY <2>4, <2>5, <2>6, <2>7, <1>6
<1>8. ToSet(j) = ToSet(q) \cup ToSet(r)
  <2>1. ToSet(j) \subseteq ToSet(q) \cup ToSet(r)
    <3> SUFFICES ASSUME NEW i \in 1..(m + n) PROVE j[i] \in ToSet(q) \cup ToSet(r)
      BY <1>3 DEF ToSet
    <3> QED BY <1>1, <1>4, <1>5, <1>6 DEF ToSet
  <2>2. ToSet(q) \subseteq ToSet(j)
    <3> SUFFICES ASSUME NEW i \in 1..m PROVE q[i] \in ToSet(j)
      BY <1>1 DEF ToSet
    <3>1. i \in 1..(m + n)
      BY <1>1
    <3> QED BY <3>1, <1>3, <1>4 DEF ToSet
  <2>3. ToSet(r) \subseteq ToSet(j)
    <3> SUFFICES ASSUME NEW i \in 1..n PROVE r[i] \in ToSet(j)
      BY <1>1 DEF ToSet
    <3>1. m + (n - i) + 1 \in (m + 1)..(m + n)
      BY <1>1
    <3>2. j[m + (n - i) + 1] = r[i]
      <4>1. (n - ((m + (n - i) + 1) - m)) + 1 = i
        BY <1>1
      <4> QED BY <3>1, <4>1, <1>5
    <3>3. m + (n - i) + 1 \in 1..(m + n)
      BY <1>1
    <3> QED BY <3>2, <3>3, <1>3 DEF ToSet
  <2> QED BY <2>1, <2>2, <2>3
<1>9. r # <<>> => j # <<>>
  BY <1>1, <1>3
<1> QED BY <1>3, <1>7, <1>8, <1>9 DEF reversed

-----------------------------------------------------------------------------
(* Induction and recursion *)

\* A set that has 0 and with a number the next has all of them.
LEMMA NatSetInduction ==
    ASSUME NEW S, 0 \in S, \A n \in Nat : n \in S => n + 1 \in S
    PROVE  Nat \subseteq S
<1> SUFFICES ASSUME Nat \ S # {} PROVE FALSE
  OBVIOUS
<1> DEFINE R == {ss \in Nat \X Nat : ss[1] < ss[2]}
<1>1. IsWellFoundedOn(R, Nat)
  BY NatLessThanWellFounded DEF OpToRel
<1> HIDE DEF R
<1>2. PICK x \in Nat \ S : \A y \in Nat \ S : ~ (<<y, x>> \in R)
  BY <1>1, WFMin
<1>3. x # 0 /\ x - 1 \in Nat /\ x - 1 < x /\ (x - 1) + 1 = x
  OBVIOUS
<1>4. <<x - 1, x>> \in R
  BY <1>3 DEF R
<1>5. x - 1 \in S
  BY <1>2, <1>3, <1>4
<1> QED BY <1>3, <1>5

\* What holds at the start of a loop of n rounds and is kept by each round holds
\* throughout: Good is the set of the numbers of rounds after which it does.
LEMMA LoopInvariant ==
    ASSUME NEW n \in Nat, NEW Good, 0 \in Good,
           \A k \in 1..n : k - 1 \in Good => k \in Good
    PROVE  0..n \subseteq Good
<1> DEFINE S == {k \in Nat : k <= n => k \in Good}
<1>1. 0 \in S
  OBVIOUS
<1>2. ASSUME NEW k \in Nat, k \in S PROVE k + 1 \in S
  <2>1. CASE k + 1 <= n
    <3>1. k + 1 \in 1..n /\ k \in Good /\ (k + 1) - 1 = k
      BY <1>2, <2>1
    <3>2. k + 1 \in Good
      BY <3>1
    <3> QED BY <3>2
  <2>2. CASE ~(k + 1 <= n)
    BY <2>2
  <2> QED BY <2>1, <2>2
<1> HIDE DEF S
<1>3. Nat \subseteq S
  BY <1>1, <1>2, NatSetInduction
<1> QED BY <1>3 DEF S

\* The greatest element of a set that reaches up to m.
LEMMA MaxOfUpTo ==
    ASSUME NEW m \in Nat, NEW s \in SUBSET (1..m), m \in s
    PROVE  Max(s) = m
<1>1. \A y \in s : m >= y
  OBVIOUS
<1>2. \A x \in s : (\A y \in s : x >= y) => x = m
  OBVIOUS
<1> QED BY <1>1, <1>2 DEF Max

\* A set of some of the first n numbers has a greatest element.
LEMMA MaxOfSome ==
    ASSUME NEW n \in Nat, NEW s \in SUBSET (1..n), s # {}
    PROVE  Max(s) \in s
<1> DEFINE Good == {m \in 0..n : \A q \in SUBSET (1..m) : q # {} => Max(q) \in q}
<1>1. 0 \in Good
  <2>1. 1..0 = {} /\ 0 \in 0..n
    OBVIOUS
  <2>2. \A q \in SUBSET (1..0) : q = {}
    BY <2>1
  <2> QED BY <2>1, <2>2
<1>2. ASSUME NEW k \in 1..n, k - 1 \in Good PROVE k \in Good
  <2> SUFFICES ASSUME NEW q \in SUBSET (1..k), q # {} PROVE Max(q) \in q
    OBVIOUS
  <2>1. CASE k \in q
    BY <2>1, MaxOfUpTo
  <2>2. CASE k \notin q
    <3>1. q \in SUBSET (1..(k - 1))
      BY <2>2
    <3>2. \A r \in SUBSET (1..(k - 1)) : r # {} => Max(r) \in r
      BY <1>2
    <3> QED BY <3>1, <3>2
  <2> QED BY <2>1, <2>2
<1> HIDE DEF Good
<1>3. 0..n \subseteq Good
  BY <1>1, <1>2, LoopInvariant
<1>4. n \in Good
  BY <1>3
<1> QED BY <1>4 DEF Good

\* f is the recursive function on the subsets of 1..n that a fold is defined
\* by: it takes the greatest element first, and g does one round.
IsFoldOn(f, base, g, n) ==
    f = [s \in SUBSET (1..n) |->
            IF s = {} THEN base ELSE g[<<Max(s), f[s \ {Max(s)}]>>]]

\* There is such a function.
LEMMA FoldExists ==
    ASSUME NEW A, NEW base \in A, NEW n \in Nat, NEW g \in [(1..n) \X A -> A]
    PROVE  \E f \in [SUBSET (1..n) -> A] : IsFoldOn(f, base, g, n)
<1> DEFINE Good == {m \in 0..n : \E f \in [SUBSET (1..m) -> A] :
                                    IsFoldOn(f, base, g, m)}
<1>1. 0 \in Good
  <2> DEFINE f == [s \in SUBSET (1..0) |-> base]
  <2>1. \A s \in SUBSET (1..0) : s = {}
    OBVIOUS
  <2>2. f \in [SUBSET (1..0) -> A]
    OBVIOUS
  <2>3. IsFoldOn(f, base, g, 0)
    BY <2>1 DEF IsFoldOn
  <2> QED BY <2>2, <2>3
<1>2. ASSUME NEW k \in 1..n, k - 1 \in Good PROVE k \in Good
  <2>1. PICK f \in [SUBSET (1..(k - 1)) -> A] : IsFoldOn(f, base, g, k - 1)
    BY <1>2
  <2> DEFINE h == [s \in SUBSET (1..k) |->
                      IF k \in s THEN g[<<k, f[s \ {k}]>>] ELSE f[s]]
  <2>2. ASSUME NEW s \in SUBSET (1..k)
        PROVE  s \ {k} \in SUBSET (1..(k - 1)) /\ (k \notin s => s \ {k} = s)
    OBVIOUS
  <2>3. h \in [SUBSET (1..k) -> A]
    BY <2>2
  <2>4. ASSUME NEW s \in SUBSET (1..k)
        PROVE  h[s] = IF s = {} THEN base ELSE g[<<Max(s), h[s \ {Max(s)}]>>]
    <3>1. CASE k \in s
      <4>1. Max(s) = k
        BY <3>1, MaxOfUpTo
      <4>2. s \ {k} \in SUBSET (1..k) /\ k \notin s \ {k} /\ s # {}
        BY <3>1
      <4>3. h[s \ {k}] = f[s \ {k}] /\ h[s] = g[<<k, f[s \ {k}]>>]
        BY <3>1, <4>2
      <4> HIDE DEF h
      <4> QED BY <4>1, <4>2, <4>3
    <3>2. CASE k \notin s
      <4>1. s \in SUBSET (1..(k - 1)) /\ h[s] = f[s]
        BY <2>2, <3>2
      <4>2. f[s] = IF s = {} THEN base ELSE g[<<Max(s), f[s \ {Max(s)}]>>]
        BY <2>1, <4>1 DEF IsFoldOn
      <4>3. s \ {Max(s)} \in SUBSET (1..k) /\ k \notin s \ {Max(s)}
        BY <3>2
      <4>4. h[s \ {Max(s)}] = f[s \ {Max(s)}]
        BY <4>3
      <4> HIDE DEF h
      <4> QED BY <4>1, <4>2, <4>4
    <3> QED BY <3>1, <3>2
  <2>5. DOMAIN h = SUBSET (1..k) /\ h = [s \in SUBSET (1..k) |-> h[s]]
    OBVIOUS
  <2> HIDE DEF h
  <2>6. IsFoldOn(h, base, g, k)
    BY <2>4, <2>5 DEF IsFoldOn
  <2> QED BY <2>3, <2>6
<1> HIDE DEF Good
<1>3. 0..n \subseteq Good
  BY <1>1, <1>2, LoopInvariant
<1>4. n \in Good
  BY <1>3
<1> QED BY <1>4 DEF Good

\* Max and what is left, for the first k numbers: round k comes last.
LEMMA LastRound ==
    ASSUME NEW k \in Nat, k # 0
    PROVE  1..k # {} /\ Max(1..k) = k /\ (1..k) \ {k} = 1..(k - 1)
<1>1. k \in 1..k /\ (1..k) \ {k} = 1..(k - 1)
  OBVIOUS
<1> QED BY <1>1, MaxOfUpTo

\* Arrays in which no topic is twice.
Lists(S) == {q \in Seq(S) : IsInjective(q)}

-----------------------------------------------------------------------------
(* tm_topicset_add and the loop that unites *)

\* Adding a topic: it is then in the set, once.
LEMMA AddTopicKeeps ==
    ASSUME NEW S, NEW set \in Lists(S), NEW t \in S
    PROVE  /\ AddTopic(set, t) \in Lists(S)
           /\ ToSet(AddTopic(set, t)) = ToSet(set) \cup {t}
<1>1. set \in Seq(S) /\ IsInjective(set)
  BY DEF Lists
<1>2. CASE t \in ToSet(set)
  BY <1>2 DEF AddTopic
<1>3. CASE t \notin ToSet(set)
  BY <1>1, <1>3, AppendIsLarger DEF AddTopic, Lists
<1> QED BY <1>2, <1>3

\* An array with at least n different topics among its elements is as long.
LEMMA LongEnough ==
    ASSUME NEW S, NEW q \in Seq(S), NEW n \in Nat, NEW r \in [1..n -> S],
           \A i, j \in 1..n : r[i] = r[j] => i = j,
           \A i \in 1..n : r[i] \in ToSet(q)
    PROVE  n <= Len(q)
<1> DEFINE place == [i \in 1..n |-> CHOOSE k \in 1..Len(q) : q[k] = r[i]]
<1>1. \A i \in 1..n : place[i] \in 1..Len(q) /\ q[place[i]] = r[i]
  <2>1. ToSet(q) = {q[k] : k \in 1..Len(q)} /\ Len(q) \in Nat
    BY DEF ToSet
  <2> QED BY <2>1
<1>2. place \in Injection(1..n, 1..Len(q))
  <2>1. place \in [1..n -> 1..Len(q)]
    BY <1>1
  <2>2. \A i, j \in 1..n : place[i] = place[j] => i = j
    <3> HIDE DEF place
    <3> QED BY <1>1
  <2> HIDE DEF place
  <2> QED BY <2>1, <2>2 DEF Injection, IsInjective
<1> HIDE DEF place
<1>3. Len(q) \in Nat
  OBVIOUS
<1>4. /\ IsFiniteSet(1..Len(q)) /\ Cardinality(1..n) = n
      /\ Cardinality(1..Len(q)) = Len(q)
  <2>1. \A m \in Nat : IsFiniteSet(1..m) /\ Cardinality(1..m) = m
    <3> SUFFICES ASSUME NEW m \in Nat
                 PROVE  IsFiniteSet(1..m) /\ Cardinality(1..m) = m
      OBVIOUS
    <3>1. Cardinality(1..m) = IF 1 > m THEN 0 ELSE m - 1 + 1
      BY FS_Interval
    <3>2. IsFiniteSet(1..m)
      BY FS_Interval
    <3> QED BY <3>1, <3>2
  <2> QED BY <1>3, <2>1
<1>5. Cardinality(1..n) <= Cardinality(1..Len(q))
  BY <1>2, <1>4, FS_Injection
<1> QED BY <1>4, <1>5

\* The first n topics of an array.
First(q, n) == {q[k] : k \in 1..n}

\* Uniting: the topics of the one list and the first len of the other.
LEMMA UniteJoins ==
    ASSUME NEW S, NEW other \in Lists(S), NEW set \in Lists(S),
           NEW len \in 0..Len(set)
    PROVE  /\ Unite(other, set, len) \in Lists(S)
           /\ ToSet(Unite(other, set, len)) = ToSet(other) \cup First(set, len)
           /\ len <= Len(Unite(other, set, len))
<1> DEFINE q == SubSeq(set, 1, len)
           Rule(f) == f = [s \in SUBSET DOMAIN q |->
                              IF s = {} THEN other
                              ELSE AddTopic(f[s \ {Max(s)}], q[Max(s)])]
           F == CHOOSE f : Rule(f)
<1>1. /\ set \in Seq(S) /\ \A i, j \in 1..Len(set) : set[i] = set[j] => i = j
      /\ other \in Seq(S) /\ len \in Nat /\ Len(set) \in Nat
  BY DEF Lists, IsInjective
<1>2. DOMAIN q = 1..len /\ \A k \in 1..len : q[k] = set[k] /\ q[k] \in S
  BY <1>1
<1>3. Unite(other, set, len) = F[DOMAIN q]
  BY DEF Unite, FoldLeft, MapThenFoldSet
<1>4. Rule(F)
  <2> DEFINE g == [x \in (1..len) \X Lists(S) |-> AddTopic(x[2], q[x[1]])]
  <2> HIDE DEF q
  <2>1. g \in [(1..len) \X Lists(S) -> Lists(S)]
    BY <1>2, AddTopicKeeps
  <2>2. PICK f \in [SUBSET (1..len) -> Lists(S)] : IsFoldOn(f, other, g, len)
    BY <1>1, <2>1, FoldExists
  <2>3. ASSUME NEW s \in SUBSET (1..len), s # {}
        PROVE  g[<<Max(s), f[s \ {Max(s)}]>>]
                  = AddTopic(f[s \ {Max(s)}], q[Max(s)])
    <3>1. Max(s) \in 1..len
      BY <1>1, <2>3, MaxOfSome
    <3>2. f[s \ {Max(s)}] \in Lists(S)
      OBVIOUS
    <3> QED BY <3>1, <3>2
  <2> HIDE DEF g
  <2>4. Rule(f)
    BY <1>2, <2>2, <2>3 DEF IsFoldOn
  <2> HIDE DEF Rule
  <2> QED BY <2>4
<1> DEFINE r == [k \in 0..len |-> F[1..k]]
<1> HIDE DEF F, q
<1>5. r[0] = other
  BY <1>1, <1>2, <1>4
<1>6. ASSUME NEW k \in 1..len PROVE r[k] = AddTopic(r[k - 1], q[k])
  <2>1. 1..k # {} /\ Max(1..k) = k /\ (1..k) \ {k} = 1..(k - 1)
    BY LastRound
  <2>2. 1..k \in SUBSET DOMAIN q
    BY <1>1, <1>2
  <2>3. F[1..k] = AddTopic(F[1..(k - 1)], q[k])
    BY <1>4, <2>1, <2>2
  <2> QED BY <1>1, <2>3
<1>7. r[len] = Unite(other, set, len)
  BY <1>1, <1>2, <1>3
<1> DEFINE Good == {k \in 0..len : /\ r[k] \in Lists(S)
                                   /\ ToSet(r[k]) = ToSet(other)
                                                     \cup {set[i] : i \in 1..k}}
<1> HIDE DEF r
<1>8. 0 \in Good
  BY <1>1, <1>5
<1>9. ASSUME NEW k \in 1..len, k - 1 \in Good PROVE k \in Good
  <2>1. r[k] \in Lists(S) /\ ToSet(r[k]) = ToSet(r[k - 1]) \cup {set[k]}
    BY <1>2, <1>6, <1>9, AddTopicKeeps
  <2>2. {set[i] : i \in 1..k} = {set[i] : i \in 1..(k - 1)} \cup {set[k]}
    <3>1. \A i \in 1..k : i = k \/ i \in 1..(k - 1)
      OBVIOUS
    <3>2. 1..(k - 1) \subseteq 1..k /\ k \in 1..k
      OBVIOUS
    <3> QED BY <3>1, <3>2
  <2> QED BY <1>1, <1>9, <2>1, <2>2
<1> HIDE DEF Good
<1>10. 0..len \subseteq Good
  BY <1>1, <1>8, <1>9, LoopInvariant
<1>11. len \in Good
  BY <1>1, <1>10
<1>12. /\ Unite(other, set, len) \in Lists(S)
       /\ ToSet(Unite(other, set, len))
             = ToSet(other) \cup {set[k] : k \in 1..len}
  BY <1>7, <1>11 DEF Good
<1>13. len <= Len(Unite(other, set, len))
  <2> DEFINE u == Unite(other, set, len)
             part == [k \in 1..len |-> set[k]]
  <2>1. u \in Seq(S) /\ \A k \in 1..len : set[k] \in ToSet(u)
    BY <1>12 DEF Lists
  <2> HIDE DEF u
  <2>2. part \in [1..len -> S]
    BY <1>1
  <2>3. \A i, j \in 1..len : part[i] = part[j] => i = j
    BY <1>1
  <2> QED BY <1>1, <2>1, <2>2, <2>3, LongEnough DEF u
<1> QED BY <1>12, <1>13 DEF First

-----------------------------------------------------------------------------
(* The loop over the lists *)

\* What the loop carries along: the set, which never gets shorter than the array
\* handed over, and the lists that stay as they are.
Acc(S, len) ==
    [set : {q \in Lists(S) : len <= Len(q)}, kept : Seq(Lists(S)),
     freed : BOOLEAN]

\* A round that finds the list disjoint from the set keeps it, one that does not
\* unites it with the set; after a freed list nothing more happens.
OneRound(acc, next, list, len) ==
    /\ acc.freed => next = acc
    /\ ~acc.freed /\ ToSet(list) \cap ToSet(acc.set) = {} =>
          /\ next.set = acc.set
          /\ next.kept = Append(acc.kept, list)
          /\ next.freed = FALSE
    /\ ~acc.freed /\ ToSet(list) \cap ToSet(acc.set) # {} =>
          /\ ToSet(next.set) = ToSet(list) \cup First(acc.set, len)
          /\ next.kept = acc.kept

\* Visit does such a round.
LEMMA VisitCases ==
    ASSUME NEW S, NEW ls \in Seq(Lists(S)), NEW i \in 1..Len(ls), NEW len \in Nat,
           NEW acc \in Acc(S, len)
    PROVE  /\ Visit(acc, ls, i, len) \in Acc(S, len)
           /\ OneRound(acc, Visit(acc, ls, i, len), ls[i], len)
<1> DEFINE next == Visit(acc, ls, i, len)
           meet == ToSet(ls[i]) \cap ToSet(acc.set) # {}
           u == Unite(ls[i], acc.set, len)
<1>1. /\ acc.set \in Lists(S) /\ len <= Len(acc.set) /\ acc.kept \in Seq(Lists(S))
      /\ acc.freed \in BOOLEAN
      /\ acc = [set |-> acc.set, kept |-> acc.kept, freed |-> acc.freed]
  BY DEF Acc
<1>2. ls[i] \in Lists(S)
  OBVIOUS
<1>3. len \in 0..Len(acc.set)
  BY <1>1 DEF Lists
<1>4. CASE acc.freed
  BY <1>4 DEF Visit, OneRound
<1>5. CASE ~acc.freed /\ ~meet
  <2>1. next = [acc EXCEPT !.kept = Append(@, ls[i])]
    BY <1>5 DEF Visit
  <2>2. Append(acc.kept, ls[i]) \in Seq(Lists(S))
    BY <1>1, <1>2
  <2>3. next = [set |-> acc.set, kept |-> Append(acc.kept, ls[i]),
                freed |-> acc.freed]
    BY <1>1, <2>1
  <2>4. acc.freed = FALSE
    BY <1>1, <1>5
  <2> HIDE DEF next
  <2>5. next \in Acc(S, len)
    BY <1>1, <2>2, <2>3 DEF Acc
  <2> QED BY <1>5, <2>3, <2>4, <2>5 DEF OneRound, next
<1>6. CASE ~acc.freed /\ meet
  <2> DEFINE flag == (acc.kept = <<>> /\ i < Len(ls))
  <2>1. next = [acc EXCEPT !.set = u, !.freed = flag]
    BY <1>6 DEF Visit
  <2>2. /\ u \in Lists(S) /\ len <= Len(u)
        /\ ToSet(u) = ToSet(ls[i]) \cup First(acc.set, len)
    <3>1. PICK other \in Lists(S) : other = ls[i]
      BY <1>2
    <3>2. PICK set \in Lists(S) : set = acc.set
      BY <1>1
    <3>3. len \in 0..Len(set)
      BY <1>3, <3>2
    <3>4. /\ Unite(other, set, len) \in Lists(S)
          /\ len <= Len(Unite(other, set, len))
          /\ ToSet(Unite(other, set, len)) = ToSet(other) \cup First(set, len)
      BY <3>3, UniteJoins
    <3> QED BY <3>1, <3>2, <3>4
  <2>3. flag \in BOOLEAN
    OBVIOUS
  <2> HIDE DEF u, flag
  <2>4. next = [set |-> u, kept |-> acc.kept, freed |-> flag]
    BY <1>1, <2>1
  <2> HIDE DEF next
  <2>5. next \in Acc(S, len)
    BY <1>1, <2>2, <2>3, <2>4 DEF Acc
  <2> QED BY <1>6, <2>2, <2>4, <2>5 DEF OneRound, next
<1> QED BY <1>1, <1>4, <1>5, <1>6

\* r[k] is what the loop carries after k rounds.
Rounds(r, S, ls, array) ==
    /\ r[0] = [set |-> array, kept |-> <<>>, freed |-> FALSE]
    /\ \A k \in 1..Len(ls) : r[k] = Visit(r[k - 1], ls, k, Len(array))
    /\ \A k \in 0..Len(ls) : r[k] \in Acc(S, Len(array))

\* AddMergeList is the loop over all the lists.
LEMMA LoopRuns ==
    ASSUME NEW S, NEW ls \in Seq(Lists(S)), NEW array \in Lists(S)
    PROVE  \E r : /\ Rounds(r, S, ls, array)
                  /\ AddMergeList(ls, array).lists
                        = <<r[Len(ls)].set>> \o r[Len(ls)].kept
                  /\ AddMergeList(ls, array).freed = r[Len(ls)].freed
<1> DEFINE n == Len(ls)
           len == Len(array)
           start == [set |-> array, kept |-> <<>>, freed |-> FALSE]
           Rule(f) == f = [s \in SUBSET (1..n) |->
                              IF s = {} THEN start
                              ELSE Visit(f[s \ {Max(s)}], ls, Max(s), len)]
           F == CHOOSE f : Rule(f)
<1>1. n \in Nat /\ len \in Nat /\ DOMAIN ls = 1..n /\ start \in Acc(S, len)
  BY DEF Acc, Lists
<1>2. /\ AddMergeList(ls, array).lists = <<F[1..n].set>> \o F[1..n].kept
      /\ AddMergeList(ls, array).freed = F[1..n].freed
  <2> DEFINE G == CHOOSE f : f = [s \in SUBSET DOMAIN [i \in DOMAIN ls |-> i] |->
                     IF s = {} THEN start
                     ELSE Visit(f[s \ {Max(s)}], ls,
                                [i \in DOMAIN ls |-> i][Max(s)], len)]
  <2>1. /\ AddMergeList(ls, array).lists
              = <<G[DOMAIN ls].set>> \o G[DOMAIN ls].kept
        /\ AddMergeList(ls, array).freed = G[DOMAIN ls].freed
    BY DEF AddMergeList, FoldLeftDomain, FoldLeft, MapThenFoldSet
  <2>2. \A f : [s \in SUBSET DOMAIN [i \in DOMAIN ls |-> i] |->
                     IF s = {} THEN start
                     ELSE Visit(f[s \ {Max(s)}], ls,
                                [i \in DOMAIN ls |-> i][Max(s)], len)]
               = [s \in SUBSET (1..n) |->
                     IF s = {} THEN start
                     ELSE Visit(f[s \ {Max(s)}], ls, Max(s), len)]
    <3>1. \A s \in SUBSET (1..n) : s # {} => [i \in DOMAIN ls |-> i][Max(s)] = Max(s)
      BY <1>1, MaxOfSome
    <3> HIDE DEF start, len
    <3> QED BY <1>1, <3>1
  <2>3. G = F
    BY <2>2
  <2> HIDE DEF G, F
  <2> QED BY <1>1, <2>1, <2>3
<1>3. Rule(F)
  <2> DEFINE g == [x \in (1..n) \X Acc(S, len) |-> Visit(x[2], ls, x[1], len)]
  <2> HIDE DEF start, len, n
  <2>1. g \in [(1..n) \X Acc(S, len) -> Acc(S, len)]
    <3>1. \A k \in 1..n, a \in Acc(S, len) : Visit(a, ls, k, len) \in Acc(S, len)
      BY <1>1, VisitCases DEF n
    <3> QED BY <3>1
  <2>2. PICK f \in [SUBSET (1..n) -> Acc(S, len)] : IsFoldOn(f, start, g, n)
    BY <1>1, <2>1, FoldExists
  <2>3. ASSUME NEW s \in SUBSET (1..n), s # {}
        PROVE  g[<<Max(s), f[s \ {Max(s)}]>>]
                  = Visit(f[s \ {Max(s)}], ls, Max(s), len)
    <3>1. Max(s) \in 1..n
      BY <1>1, <2>3, MaxOfSome
    <3>2. f[s \ {Max(s)}] \in Acc(S, len)
      OBVIOUS
    <3> QED BY <3>1, <3>2
  <2> HIDE DEF g
  <2>4. Rule(f)
    BY <2>2, <2>3 DEF IsFoldOn
  <2> HIDE DEF Rule
  <2> QED BY <2>4
<1> DEFINE r == [k \in 0..n |-> F[1..k]]
<1> HIDE DEF F
<1>4. r[0] = start
  <2> HIDE DEF start
  <2> QED BY <1>1, <1>3
<1>5. ASSUME NEW k \in 1..n PROVE r[k] = Visit(r[k - 1], ls, k, len)
  <2>1. 1..k # {} /\ Max(1..k) = k /\ (1..k) \ {k} = 1..(k - 1)
    BY LastRound
  <2>2. 1..k \in SUBSET (1..n)
    BY <1>1
  <2>3. F[1..k] = Visit(F[1..(k - 1)], ls, k, len)
    BY <1>3, <2>1, <2>2
  <2> QED BY <1>1, <2>3
<1>6. r[n] = F[1..n]
  BY <1>1
<1> HIDE DEF r, start
<1> DEFINE Good == {k \in 0..n : r[k] \in Acc(S, len)}
<1>7. 0 \in Good
  BY <1>1, <1>4
<1>8. ASSUME NEW k \in 1..n, k - 1 \in Good PROVE k \in Good
  <2>1. r[k - 1] \in Acc(S, len) /\ k \in 1..Len(ls)
    BY <1>8
  <2>2. Visit(r[k - 1], ls, k, len) \in Acc(S, len)
    BY <1>1, <2>1, VisitCases
  <2> QED BY <1>5, <2>2
<1> HIDE DEF Good
<1>9. 0..n \subseteq Good
  BY <1>1, <1>7, <1>8, LoopInvariant
<1>10. \A k \in 0..n : r[k] \in Acc(S, len)
  BY <1>9 DEF Good
<1>11. Rounds(r, S, ls, array)
  BY <1>4, <1>5, <1>10 DEF Rounds, start
<1> QED BY <1>2, <1>6, <1>11

-----------------------------------------------------------------------------
(* tm_topicmap_add_mergelist *)

\* No topic is in two of the lists.
Disjoint(q) ==
    \A i, j \in DOMAIN q : i # j => ToSet(q[i]) \cap ToSet(q[j]) = {}

\* The new list and the ones kept.
LEMMA InFront ==
    ASSUME NEW S, NEW a \in S, NEW q \in Seq(S)
    PROVE  /\ <<a>> \o q \in Seq(S) /\ DOMAIN (<<a>> \o q) = 1..(Len(q) + 1)
           /\ (<<a>> \o q)[1] = a /\ Len(q) \in Nat
           /\ \A i \in 1..Len(q) : (<<a>> \o q)[i + 1] = q[i]
           /\ \A i \in 2..(Len(q) + 1) : i - 1 \in 1..Len(q)
                                         /\ (<<a>> \o q)[i] = q[i - 1]
<1>1. <<a>> \in Seq(S) /\ Len(<<a>>) = 1 /\ <<a>>[1] = a /\ Len(q) \in Nat
  OBVIOUS
<1>2. /\ <<a>> \o q \in Seq(S) /\ Len(<<a>> \o q) = Len(q) + 1
      /\ \A i \in 1..(Len(q) + 1) : (<<a>> \o q)[i]
                                      = IF i <= 1 THEN <<a>>[i] ELSE q[i - 1]
  BY <1>1, ConcatProperties
<1>3. DOMAIN (<<a>> \o q) = 1..(Len(q) + 1)
  BY <1>1, <1>2
<1> QED BY <1>1, <1>2, <1>3

\* A list appended to those kept.
LEMMA AtTheEnd ==
    ASSUME NEW S, NEW a \in S, NEW q \in Seq(S)
    PROVE  /\ Len(q) \in Nat /\ DOMAIN q = 1..Len(q)
           /\ DOMAIN Append(q, a) = 1..(Len(q) + 1)
           /\ Append(q, a)[Len(q) + 1] = a
           /\ \A i \in 1..Len(q) : Append(q, a)[i] = q[i]
OBVIOUS

\* The lists stay arrays without repetition.
LEMMA AddKeepsLists ==
    ASSUME NEW S, NEW ls \in Seq(Lists(S)), NEW array \in Lists(S)
    PROVE  /\ AddMergeList(ls, array).lists \in Seq(Lists(S))
           /\ AddMergeList(ls, array).freed \in BOOLEAN
<1>1. PICK r : /\ Rounds(r, S, ls, array)
               /\ AddMergeList(ls, array).lists
                        = <<r[Len(ls)].set>> \o r[Len(ls)].kept
               /\ AddMergeList(ls, array).freed = r[Len(ls)].freed
  BY LoopRuns
<1>2. Len(ls) \in 0..Len(ls)
  OBVIOUS
<1>3. r[Len(ls)] \in Acc(S, Len(array))
  BY <1>1, <1>2 DEF Rounds
<1>4. /\ r[Len(ls)].set \in Lists(S) /\ r[Len(ls)].kept \in Seq(Lists(S))
      /\ r[Len(ls)].freed \in BOOLEAN
  BY <1>3 DEF Acc
<1> QED BY <1>1, <1>4, InFront

\* Lists of two or more topics each.
LongLists(S) == {q \in Seq(Lists(S)) : \A i \in DOMAIN q : Len(q[i]) > 1}

\* Handing over an array of several topics leaves no list with less than two.
LEMMA AddKeepsLong ==
    ASSUME NEW S, NEW ls \in LongLists(S), NEW array \in Lists(S), Len(array) > 1
    PROVE  /\ AddMergeList(ls, array).lists \in LongLists(S)
           /\ AddMergeList(ls, array).freed \in BOOLEAN
<1> DEFINE n == Len(ls)
           len == Len(array)
<1>1. /\ ls \in Seq(Lists(S)) /\ DOMAIN ls = 1..n /\ n \in Nat /\ len \in Nat
      /\ \A i \in 1..n : Len(ls[i]) > 1 /\ ls[i] \in Lists(S)
  BY DEF LongLists, Lists
<1>2. PICK r : /\ Rounds(r, S, ls, array)
               /\ AddMergeList(ls, array).lists = <<r[n].set>> \o r[n].kept
               /\ AddMergeList(ls, array).freed = r[n].freed
  BY <1>1, LoopRuns
<1> DEFINE Good == {k \in 0..n : r[k].kept \in LongLists(S)}
<1>3. 0 \in Good
  <2>1. r[0].kept = <<>>
    BY <1>2 DEF Rounds
  <2>2. <<>> \in LongLists(S)
    BY DEF LongLists
  <2>3. 0 \in 0..n
    BY <1>1
  <2> QED BY <2>1, <2>2, <2>3
<1>4. ASSUME NEW k \in 1..n, k - 1 \in Good PROVE k \in Good
  <2>1. /\ k - 1 \in 0..n /\ r[k - 1].kept \in LongLists(S)
        /\ r[k] = Visit(r[k - 1], ls, k, len) /\ r[k - 1] \in Acc(S, len)
    BY <1>2, <1>4 DEF Rounds
  <2>2. OneRound(r[k - 1], Visit(r[k - 1], ls, k, len), ls[k], len)
    BY <1>1, <2>1, VisitCases
  <2>3. \/ r[k].kept = r[k - 1].kept
        \/ r[k].kept = Append(r[k - 1].kept, ls[k])
    BY <2>1, <2>2 DEF OneRound
  <2>4. ASSUME NEW q \in LongLists(S), NEW a \in Lists(S), Len(a) > 1
        PROVE  Append(q, a) \in LongLists(S)
    <3>1. q \in Seq(Lists(S)) /\ \A i \in DOMAIN q : Len(q[i]) > 1
      BY DEF LongLists
    <3>2. Append(q, a) \in Seq(Lists(S))
      BY <3>1
    <3>3. /\ DOMAIN q = 1..Len(q) /\ DOMAIN Append(q, a) = 1..(Len(q) + 1)
          /\ Append(q, a)[Len(q) + 1] = a
          /\ \A i \in 1..Len(q) : Append(q, a)[i] = q[i]
      BY <3>1, AtTheEnd
    <3>4. \A i \in 1..(Len(q) + 1) : i = Len(q) + 1 \/ i \in 1..Len(q)
      BY <3>1
    <3> QED BY <2>4, <3>1, <3>2, <3>3, <3>4 DEF LongLists
  <2>5. Append(r[k - 1].kept, ls[k]) \in LongLists(S)
    BY <1>1, <2>1, <2>4
  <2>6. r[k].kept \in LongLists(S)
    BY <2>1, <2>3, <2>5
  <2>7. k \in 0..n
    BY <1>1
  <2> QED BY <2>6, <2>7
<1> HIDE DEF Good
<1>5. 0..n \subseteq Good
  BY <1>1, <1>3, <1>4, LoopInvariant
<1>6. r[n].kept \in LongLists(S)
  BY <1>1, <1>5 DEF Good
<1>7. r[n].set \in Lists(S) /\ Len(r[n].set) > 1 /\ r[n].freed \in BOOLEAN
  <2>1. r[n] \in Acc(S, len)
    BY <1>1, <1>2 DEF Rounds
  <2>2. r[n].set \in Lists(S) /\ len <= Len(r[n].set) /\ r[n].freed \in BOOLEAN
    BY <2>1 DEF Acc
  <2> QED BY <1>1, <2>2 DEF Lists
<1>8. ASSUME NEW q \in LongLists(S), NEW a \in Lists(S), Len(a) > 1
      PROVE  <<a>> \o q \in LongLists(S)
  <2>1. q \in Seq(Lists(S)) /\ \A i \in DOMAIN q : Len(q[i]) > 1
    BY DEF LongLists
  <2>2. /\ <<a>> \o q \in Seq(Lists(S)) /\ DOMAIN (<<a>> \o q) = 1..(Len(q) + 1)
        /\ (<<a>> \o q)[1] = a /\ Len(q) \in Nat
        /\ \A i \in 2..(Len(q) + 1) : i - 1 \in 1..Len(q)
                                         /\ (<<a>> \o q)[i] = q[i - 1]
    BY <2>1, InFront
  <2>3. \A i \in 1..(Len(q) + 1) : i = 1 \/ i \in 2..(Len(q) + 1)
    BY <2>2
  <2>4. DOMAIN q = 1..Len(q)
    BY <2>1
  <2> QED BY <1>8, <2>1, <2>2, <2>3, <2>4 DEF LongLists
<1> QED BY <1>2, <1>6, <1>7, <1>8

\* What the loop keeps true of the lists it keeps: no topic is in two of them,
\* in one of them and in the set, or in one of them and in a list still to come.
Apart(acc, ls, k) ==
    /\ Disjoint(acc.kept)
    /\ \A a \in DOMAIN acc.kept : ToSet(acc.kept[a]) \cap ToSet(acc.set) = {}
    /\ \A a \in DOMAIN acc.kept : \A j \in (k + 1)..Len(ls) :
           ToSet(acc.kept[a]) \cap ToSet(ls[j]) = {}

\* One round of the loop of add_mergelist leaves the lists apart and the new
\* set without repetition.
LEMMA VisitKeepsApart ==
    ASSUME NEW S, NEW ls \in Seq(Lists(S)), NEW k \in 1..Len(ls), NEW len \in Nat,
           NEW acc \in Acc(S, len), Disjoint(ls), Apart(acc, ls, k - 1)
    PROVE  Apart(Visit(acc, ls, k, len), ls, k)
<1> DEFINE next == Visit(acc, ls, k, len)
<1>1. /\ acc.kept \in Seq(Lists(S)) /\ acc.set \in Seq(S)
      /\ acc.freed \in BOOLEAN /\ len <= Len(acc.set) /\ Len(acc.set) \in Nat
      /\ DOMAIN acc.kept = 1..Len(acc.kept) /\ Len(acc.kept) \in Nat
  BY DEF Acc, Lists
<1>2. /\ DOMAIN ls = 1..Len(ls) /\ Len(ls) \in Nat /\ ls[k] \in Lists(S)
      /\ k \in k..Len(ls) /\ \A j \in (k + 1)..Len(ls) : j \in k..Len(ls) /\ j # k
      /\ k..Len(ls) \subseteq 1..Len(ls) /\ (k - 1) + 1 = k
  OBVIOUS
<1>3. First(acc.set, len) \subseteq ToSet(acc.set)
  BY <1>1 DEF First, ToSet
<1>4. \A a \in DOMAIN acc.kept : \A j \in k..Len(ls) :
         ToSet(acc.kept[a]) \cap ToSet(ls[j]) = {}
  BY <1>2 DEF Apart
<1>5. OneRound(acc, next, ls[k], len)
  BY VisitCases
<1> HIDE DEF next
<1>6. CASE acc.freed
  <2>1. next = acc
    BY <1>5, <1>6 DEF OneRound
  <2> QED BY <1>2, <1>4, <2>1 DEF Apart, next
<1>7. CASE ~acc.freed /\ ToSet(ls[k]) \cap ToSet(acc.set) = {}
  <2>1. next.set = acc.set /\ next.kept = Append(acc.kept, ls[k])
    BY <1>5, <1>7 DEF OneRound
  <2>2. /\ DOMAIN next.kept = 1..(Len(acc.kept) + 1)
        /\ next.kept[Len(acc.kept) + 1] = ls[k]
        /\ \A a \in DOMAIN acc.kept : next.kept[a] = acc.kept[a]
    BY <1>1, <1>2, <2>1, AtTheEnd
  <2>3. \A a \in DOMAIN next.kept : a = Len(acc.kept) + 1 \/ a \in DOMAIN acc.kept
    BY <1>1, <2>2
  <2>4. Disjoint(next.kept)
    <3> SUFFICES ASSUME NEW a \in DOMAIN next.kept, NEW b \in DOMAIN next.kept,
                        a # b
                 PROVE  ToSet(next.kept[a]) \cap ToSet(next.kept[b]) = {}
      BY DEF Disjoint
    <3>1. CASE a \in DOMAIN acc.kept /\ b \in DOMAIN acc.kept
      BY <2>2, <3>1 DEF Apart, Disjoint
    <3>2. CASE a = Len(acc.kept) + 1
      <4>1. b \in DOMAIN acc.kept
        BY <2>3, <3>2
      <4> QED BY <1>2, <1>4, <2>2, <3>2, <4>1
    <3>3. CASE b = Len(acc.kept) + 1
      <4>1. a \in DOMAIN acc.kept
        BY <2>3, <3>3
      <4> QED BY <1>2, <1>4, <2>2, <3>3, <4>1
    <3> QED BY <2>3, <3>1, <3>2, <3>3
  <2>5. \A a \in DOMAIN next.kept : ToSet(next.kept[a]) \cap ToSet(next.set) = {}
    BY <1>7, <2>1, <2>2, <2>3 DEF Apart
  <2>6. ASSUME NEW a \in DOMAIN next.kept, NEW j \in (k + 1)..Len(ls)
        PROVE  ToSet(next.kept[a]) \cap ToSet(ls[j]) = {}
    <3>1. CASE a \in DOMAIN acc.kept
      BY <1>2, <1>4, <2>2, <3>1
    <3>2. CASE a = Len(acc.kept) + 1
      BY <1>2, <2>2, <3>2 DEF Disjoint
    <3> QED BY <2>3, <3>1, <3>2
  <2> QED BY <2>4, <2>5, <2>6 DEF Apart, next
<1>8. CASE ~acc.freed /\ ToSet(ls[k]) \cap ToSet(acc.set) # {}
  <2>1. /\ ToSet(next.set) = ToSet(ls[k]) \cup First(acc.set, len)
        /\ next.kept = acc.kept
    BY <1>5, <1>8 DEF OneRound
  <2>2. \A a \in DOMAIN next.kept : ToSet(next.kept[a]) \cap ToSet(next.set) = {}
    BY <1>2, <1>3, <1>4, <2>1 DEF Apart
  <2> QED BY <1>2, <1>4, <2>1, <2>2 DEF Apart, next
<1> QED BY <1>1, <1>6, <1>7, <1>8

\* No topic comes to be in two lists.
LEMMA AddKeepsDisjoint ==
    ASSUME NEW S, NEW ls \in Seq(Lists(S)), NEW array \in Lists(S), Disjoint(ls)
    PROVE  Disjoint(AddMergeList(ls, array).lists)
<1> DEFINE n == Len(ls)
           len == Len(array)
           new == AddMergeList(ls, array).lists
<1>1. PICK r : /\ Rounds(r, S, ls, array)
               /\ new = <<r[n].set>> \o r[n].kept
  BY LoopRuns
<1>2. /\ n \in Nat /\ len \in Nat
      /\ \A k \in 1..n : r[k] = Visit(r[k - 1], ls, k, len)
      /\ \A k \in 0..n : r[k] \in Acc(S, len)
      /\ r[0] = [set |-> array, kept |-> <<>>, freed |-> FALSE]
  BY <1>1 DEF Rounds, Lists
<1> DEFINE Good == {k \in 0..n : Apart(r[k], ls, k)}
<1>3. 0 \in Good
  <2>1. r[0].kept = <<>> /\ DOMAIN <<>> = {}
    BY <1>2
  <2>2. 0 \in 0..n
    BY <1>2
  <2> QED BY <2>1, <2>2 DEF Apart, Disjoint
<1>4. ASSUME NEW k \in 1..n, k - 1 \in Good PROVE k \in Good
  <2>1. /\ k - 1 \in 0..n /\ k \in 0..n
        /\ r[k - 1] \in Acc(S, len) /\ Apart(r[k - 1], ls, k - 1)
    BY <1>2, <1>4
  <2>2. Apart(Visit(r[k - 1], ls, k, len), ls, k)
    BY <1>2, <2>1, VisitKeepsApart
  <2> QED BY <1>2, <2>1, <2>2
<1> HIDE DEF Good
<1>5. 0..n \subseteq Good
  BY <1>2, <1>3, <1>4, LoopInvariant
<1>6. n \in Good /\ n \in 0..n
  BY <1>2, <1>5
<1>7. Apart(r[n], ls, n)
  BY <1>6 DEF Good
<1>8. r[n].set \in Lists(S) /\ r[n].kept \in Seq(Lists(S))
  BY <1>2, <1>6 DEF Acc
<1>9. /\ DOMAIN new = 1..(Len(r[n].kept) + 1) /\ new[1] = r[n].set
      /\ DOMAIN r[n].kept = 1..Len(r[n].kept) /\ Len(r[n].kept) \in Nat
      /\ \A i \in 2..(Len(r[n].kept) + 1) :
            i - 1 \in 1..Len(r[n].kept) /\ new[i] = r[n].kept[i - 1]
  BY <1>1, <1>8, InFront
<1> HIDE DEF new, n
<1> SUFFICES ASSUME NEW i \in DOMAIN new, NEW j \in DOMAIN new, i # j
             PROVE  ToSet(new[i]) \cap ToSet(new[j]) = {}
  BY DEF Disjoint, new
<1>10. (i = 1 \/ i \in 2..(Len(r[n].kept) + 1)) /\ (j = 1 \/ j \in 2..(Len(r[n].kept) + 1))
  BY <1>9
<1>11. CASE i # 1 /\ j # 1
  <2>1. i - 1 # j - 1
    BY <1>9
  <2> QED BY <1>7, <1>9, <1>10, <1>11, <2>1 DEF Apart, Disjoint
<1>12. CASE i = 1 \/ j = 1
  BY <1>7, <1>9, <1>10, <1>12 DEF Apart
<1> QED BY <1>11, <1>12

-----------------------------------------------------------------------------
(* The sets of topics that the lists stand for *)

\* X is the set of the topics of one of the lists.
IsSetOf(X, q) == \E i \in DOMAIN q : X = ToSet(q[i])

\* What the array becomes when it meets list m alone, or none when m is 0.
JoinedWith(ls, array, m) ==
    ToSet(array) \cup (IF m = 0 THEN {} ELSE ToSet(ls[m]))

\* List m and no other has a topic of the array.
MeetsOnly(ls, array, m) ==
    \A i \in 1..Len(ls) : ToSet(ls[i]) \cap ToSet(array) # {} <=> i = m

\* What the loop has gathered after k rounds when the array meets list m only.
Gathers(acc, ls, array, m, k) ==
    ~acc.freed =>
        /\ m \notin 1..k => acc.set = array
        /\ m \in 1..k => ToSet(acc.set) = ToSet(array) \cup ToSet(ls[m])
        /\ \A X : IsSetOf(X, acc.kept)
                    <=> \E j \in 1..k : j # m /\ X = ToSet(ls[j])

\* Appending a list adds its set.
LEMMA AppendAddsSet ==
    ASSUME NEW S, NEW a \in S, NEW q \in Seq(S), NEW X
    PROVE  IsSetOf(X, Append(q, a)) <=> IsSetOf(X, q) \/ X = ToSet(a)
<1>1. /\ Len(q) \in Nat /\ DOMAIN q = 1..Len(q)
      /\ DOMAIN Append(q, a) = 1..(Len(q) + 1)
      /\ Append(q, a)[Len(q) + 1] = a
      /\ \A i \in 1..Len(q) : Append(q, a)[i] = q[i]
  BY AtTheEnd
<1>2. \A i \in 1..(Len(q) + 1) : i = Len(q) + 1 \/ i \in 1..Len(q)
  BY <1>1
<1>3. Len(q) + 1 \in 1..(Len(q) + 1) /\ 1..Len(q) \subseteq 1..(Len(q) + 1)
  BY <1>1
<1>4. ASSUME IsSetOf(X, Append(q, a)) PROVE IsSetOf(X, q) \/ X = ToSet(a)
  BY <1>1, <1>2, <1>4 DEF IsSetOf
<1>5. ASSUME IsSetOf(X, q) PROVE IsSetOf(X, Append(q, a))
  BY <1>1, <1>3, <1>5 DEF IsSetOf
<1>6. ASSUME X = ToSet(a) PROVE IsSetOf(X, Append(q, a))
  BY <1>1, <1>3, <1>6 DEF IsSetOf
<1> QED BY <1>4, <1>5, <1>6

\* A list in front adds its set.
LEMMA InFrontAddsSet ==
    ASSUME NEW S, NEW a \in S, NEW q \in Seq(S), NEW X
    PROVE  IsSetOf(X, <<a>> \o q) <=> X = ToSet(a) \/ IsSetOf(X, q)
<1> DEFINE new == <<a>> \o q
<1>1. /\ DOMAIN new = 1..(Len(q) + 1) /\ new[1] = a /\ Len(q) \in Nat
      /\ \A i \in 1..Len(q) : new[i + 1] = q[i]
      /\ \A i \in 2..(Len(q) + 1) : i - 1 \in 1..Len(q) /\ new[i] = q[i - 1]
      /\ DOMAIN q = 1..Len(q)
  BY InFront
<1>2. \A i \in 1..(Len(q) + 1) : i = 1 \/ i \in 2..(Len(q) + 1)
  BY <1>1
<1>3. /\ 1 \in 1..(Len(q) + 1)
      /\ \A i \in 1..Len(q) : i + 1 \in 1..(Len(q) + 1)
  BY <1>1
<1> HIDE DEF new
<1>4. ASSUME IsSetOf(X, new) PROVE X = ToSet(a) \/ IsSetOf(X, q)
  BY <1>1, <1>2, <1>4 DEF IsSetOf
<1>5. ASSUME IsSetOf(X, q) PROVE IsSetOf(X, new)
  BY <1>1, <1>3, <1>5 DEF IsSetOf
<1>6. ASSUME X = ToSet(a) PROVE IsSetOf(X, new)
  BY <1>1, <1>3, <1>6 DEF IsSetOf
<1> QED BY <1>4, <1>5, <1>6 DEF new

\* A round goes on gathering.
LEMMA VisitGathers ==
    ASSUME NEW S, NEW ls \in Seq(Lists(S)), NEW array \in Lists(S), Disjoint(ls),
           NEW m \in 0..Len(ls), MeetsOnly(ls, array, m), NEW k \in 1..Len(ls),
           NEW acc \in Acc(S, Len(array)), Gathers(acc, ls, array, m, k - 1)
    PROVE  Gathers(Visit(acc, ls, k, Len(array)), ls, array, m, k)
<1> DEFINE next == Visit(acc, ls, k, Len(array))
<1>1. /\ acc.kept \in Seq(Lists(S)) /\ acc.freed \in BOOLEAN
      /\ next.freed \in BOOLEAN
  <2>1. Len(array) \in Nat
    BY DEF Lists
  <2>2. next \in Acc(S, Len(array))
    BY <2>1, VisitCases
  <2> HIDE DEF next
  <2> QED BY <2>2 DEF Acc
<1>2. /\ DOMAIN ls = 1..Len(ls) /\ Len(ls) \in Nat /\ ls[k] \in Lists(S)
      /\ k \in 1..k /\ 1..(k - 1) \subseteq 1..k
      /\ \A j \in 1..k : j = k \/ j \in 1..(k - 1)
      /\ 1..k \subseteq 1..Len(ls) /\ k \notin 1..(k - 1)
  OBVIOUS
<1>3. OneRound(acc, next, ls[k], Len(array))
  <2>1. Len(array) \in Nat
    BY DEF Lists
  <2> QED BY <2>1, VisitCases
<1> HIDE DEF next
<1>4. CASE acc.freed
  <2>1. next = acc
    BY <1>3, <1>4 DEF OneRound
  <2> QED BY <1>4, <2>1 DEF Gathers, next
<1>5. CASE ~acc.freed /\ k = m
  <2>1. acc.set = array
    BY <1>2, <1>5 DEF Gathers
  <2>2. ToSet(ls[k]) \cap ToSet(acc.set) # {}
    BY <1>5, <2>1 DEF MeetsOnly
  <2>3. /\ ToSet(next.set) = ToSet(ls[k]) \cup First(array, Len(array))
        /\ next.kept = acc.kept
    BY <1>3, <1>5, <2>1, <2>2 DEF OneRound
  <2>4. First(array, Len(array)) = ToSet(array)
    BY DEF First, ToSet, Lists
  <2>5. \A X : IsSetOf(X, next.kept)
                 <=> \E j \in 1..k : j # m /\ X = ToSet(ls[j])
    BY <1>2, <1>5, <2>3 DEF Gathers
  <2>6. ToSet(next.set) = ToSet(array) \cup ToSet(ls[m])
    BY <1>5, <2>3, <2>4
  <2> QED BY <1>2, <1>5, <2>5, <2>6 DEF Gathers, next
<1>6. CASE ~acc.freed /\ k # m
  <2>1. ToSet(ls[k]) \cap ToSet(acc.set) = {}
    <3>1. ToSet(ls[k]) \cap ToSet(array) = {}
      BY <1>6 DEF MeetsOnly
    <3>2. CASE m \notin 1..(k - 1)
      BY <1>6, <3>1, <3>2 DEF Gathers
    <3>3. CASE m \in 1..(k - 1)
      <4>1. m \in DOMAIN ls /\ k \in DOMAIN ls
        BY <1>2, <3>3
      <4>2. ToSet(ls[k]) \cap ToSet(ls[m]) = {}
        BY <1>6, <4>1 DEF Disjoint
      <4>3. ToSet(acc.set) = ToSet(array) \cup ToSet(ls[m])
        BY <1>6, <3>3 DEF Gathers
      <4> QED BY <3>1, <4>2, <4>3
    <3> QED BY <3>2, <3>3
  <2>2. next.set = acc.set /\ next.kept = Append(acc.kept, ls[k])
    BY <1>3, <1>6, <2>1 DEF OneRound
  <2>3. \A X : IsSetOf(X, next.kept) <=> IsSetOf(X, acc.kept) \/ X = ToSet(ls[k])
    <3>1. PICK kept \in Seq(Lists(S)) : kept = acc.kept
      BY <1>1
    <3>2. PICK list \in Lists(S) : list = ls[k]
      BY <1>2
    <3> QED BY <2>2, <3>1, <3>2, AppendAddsSet
  <2>4. \A X : IsSetOf(X, acc.kept)
                 <=> \E j \in 1..(k - 1) : j # m /\ X = ToSet(ls[j])
    BY <1>6 DEF Gathers
  <2>5. \A X : IsSetOf(X, next.kept)
                 <=> \E j \in 1..k : j # m /\ X = ToSet(ls[j])
    BY <1>2, <1>6, <2>3, <2>4
  <2>6. m \in 1..k <=> m \in 1..(k - 1)
    BY <1>2, <1>6
  <2> QED BY <1>6, <2>2, <2>5, <2>6 DEF Gathers, next
<1> QED BY <1>1, <1>4, <1>5, <1>6

\* An array that meets list m only, or none, is joined with that list, and the
\* other lists stay.
LEMMA AddJoins ==
    ASSUME NEW S, NEW ls \in Seq(Lists(S)), NEW array \in Lists(S), Disjoint(ls),
           NEW m \in 0..Len(ls), MeetsOnly(ls, array, m),
           ~AddMergeList(ls, array).freed, NEW X
    PROVE  IsSetOf(X, AddMergeList(ls, array).lists)
             <=> \/ X = JoinedWith(ls, array, m)
                 \/ \E j \in 1..Len(ls) : j # m /\ X = ToSet(ls[j])
<1> DEFINE n == Len(ls)
           len == Len(array)
           new == AddMergeList(ls, array).lists
<1>1. PICK r : /\ Rounds(r, S, ls, array)
               /\ new = <<r[n].set>> \o r[n].kept
               /\ AddMergeList(ls, array).freed = r[n].freed
  BY LoopRuns
<1>2. /\ n \in Nat /\ len \in Nat
      /\ \A k \in 1..n : r[k] = Visit(r[k - 1], ls, k, len)
      /\ \A k \in 0..n : r[k] \in Acc(S, len)
      /\ r[0] = [set |-> array, kept |-> <<>>, freed |-> FALSE]
  BY <1>1 DEF Rounds, Lists
<1> DEFINE Good == {k \in 0..n : Gathers(r[k], ls, array, m, k)}
<1>3. 0 \in Good
  <2>1. r[0].kept = <<>> /\ DOMAIN <<>> = {} /\ r[0].set = array
    BY <1>2
  <2>2. 0 \in 0..n /\ 1..0 = {}
    BY <1>2
  <2> QED BY <2>1, <2>2 DEF Gathers, IsSetOf
<1>4. ASSUME NEW k \in 1..n, k - 1 \in Good PROVE k \in Good
  <2>1. /\ k - 1 \in 0..n /\ k \in 0..n
        /\ r[k - 1] \in Acc(S, len) /\ Gathers(r[k - 1], ls, array, m, k - 1)
    BY <1>2, <1>4
  <2>2. Gathers(Visit(r[k - 1], ls, k, len), ls, array, m, k)
    BY <1>2, <2>1, VisitGathers
  <2> QED BY <1>2, <2>1, <2>2
<1> HIDE DEF Good
<1>5. 0..n \subseteq Good
  BY <1>2, <1>3, <1>4, LoopInvariant
<1>6. n \in Good /\ n \in 0..n
  BY <1>2, <1>5
<1>7. Gathers(r[n], ls, array, m, n) /\ ~r[n].freed
  BY <1>1, <1>6 DEF Good
<1>8. r[n].set \in Lists(S) /\ r[n].kept \in Seq(Lists(S))
  BY <1>2, <1>6 DEF Acc
<1>9. ToSet(r[n].set) = JoinedWith(ls, array, m)
  <2>1. m \in 1..n <=> m # 0
    BY <1>2
  <2> QED BY <1>7, <2>1 DEF Gathers, JoinedWith
<1>10. IsSetOf(X, r[n].kept) <=> \E j \in 1..n : j # m /\ X = ToSet(ls[j])
  BY <1>7 DEF Gathers
<1>11. IsSetOf(X, <<r[n].set>> \o r[n].kept)
          <=> X = ToSet(r[n].set) \/ IsSetOf(X, r[n].kept)
  <2>1. PICK set \in Lists(S) : set = r[n].set
    BY <1>8
  <2>2. PICK kept \in Seq(Lists(S)) : kept = r[n].kept
    BY <1>8
  <2> QED BY <2>1, <2>2, InFrontAddsSet
<1> QED BY <1>1, <1>9, <1>10, <1>11

-----------------------------------------------------------------------------
(* Sets of topics that the arrays do not cut *)

\* The topics of an array are in X all or none of them.
OneSided(X, q) == ToSet(q) \subseteq X \/ ToSet(q) \cap X = {}

\* What the loop carries along lies on one side.
AccOneSided(X, acc) ==
    OneSided(X, acc.set) /\ \A i \in DOMAIN acc.kept : OneSided(X, acc.kept[i])

\* Two arrays that meet are on the same side, and so is what they become.
LEMMA VisitKeepsSides ==
    ASSUME NEW S, NEW ls \in Seq(Lists(S)), NEW k \in 1..Len(ls), NEW len \in Nat,
           NEW acc \in Acc(S, len), NEW X, AccOneSided(X, acc), OneSided(X, ls[k])
    PROVE  AccOneSided(X, Visit(acc, ls, k, len))
<1> DEFINE next == Visit(acc, ls, k, len)
<1>1. /\ acc.kept \in Seq(Lists(S)) /\ acc.set \in Seq(S)
      /\ len <= Len(acc.set) /\ Len(acc.set) \in Nat /\ ls[k] \in Lists(S)
  BY DEF Acc, Lists
<1>2. First(acc.set, len) \subseteq ToSet(acc.set)
  BY <1>1 DEF First, ToSet
<1>3. OneRound(acc, next, ls[k], len)
  BY VisitCases
<1> HIDE DEF next
<1>4. CASE acc.freed
  BY <1>3, <1>4 DEF OneRound, next
<1>5. CASE ~acc.freed /\ ToSet(ls[k]) \cap ToSet(acc.set) = {}
  <2>1. next.set = acc.set /\ next.kept = Append(acc.kept, ls[k])
    BY <1>3, <1>5 DEF OneRound
  <2>2. /\ next.kept[Len(acc.kept) + 1] = ls[k]
        /\ \A a \in DOMAIN acc.kept : next.kept[a] = acc.kept[a]
        /\ \A a \in DOMAIN next.kept : a = Len(acc.kept) + 1 \/ a \in DOMAIN acc.kept
    BY <1>1, <2>1, AtTheEnd
  <2> QED BY <2>1, <2>2 DEF AccOneSided, next
<1>6. CASE ~acc.freed /\ ToSet(ls[k]) \cap ToSet(acc.set) # {}
  <2>1. /\ ToSet(next.set) = ToSet(ls[k]) \cup First(acc.set, len)
        /\ next.kept = acc.kept
    BY <1>3, <1>6 DEF OneRound
  <2>2. OneSided(X, next.set)
    BY <1>2, <1>6, <2>1 DEF AccOneSided, OneSided
  <2> QED BY <2>1, <2>2 DEF AccOneSided, next
<1> QED BY <1>4, <1>5, <1>6

\* If neither the lists nor the array cut X, nor do the resulting lists.
LEMMA AddKeepsSides ==
    ASSUME NEW S, NEW ls \in Seq(Lists(S)), NEW array \in Lists(S), NEW X,
           \A i \in DOMAIN ls : OneSided(X, ls[i]), OneSided(X, array)
    PROVE  LET new == AddMergeList(ls, array).lists
           IN \A i \in DOMAIN new : OneSided(X, new[i])
<1> DEFINE n == Len(ls)
           len == Len(array)
           new == AddMergeList(ls, array).lists
<1>1. PICK r : /\ Rounds(r, S, ls, array)
               /\ new = <<r[n].set>> \o r[n].kept
  BY LoopRuns
<1>2. /\ n \in Nat /\ len \in Nat
      /\ \A k \in 1..n : r[k] = Visit(r[k - 1], ls, k, len)
      /\ \A k \in 0..n : r[k] \in Acc(S, len)
      /\ r[0] = [set |-> array, kept |-> <<>>, freed |-> FALSE]
  BY <1>1 DEF Rounds, Lists
<1> DEFINE Good == {k \in 0..n : AccOneSided(X, r[k])}
<1>3. 0 \in Good
  <2>1. r[0].kept = <<>> /\ DOMAIN <<>> = {} /\ r[0].set = array
    BY <1>2
  <2>2. 0 \in 0..n
    BY <1>2
  <2> QED BY <2>1, <2>2 DEF AccOneSided
<1>4. ASSUME NEW k \in 1..n, k - 1 \in Good PROVE k \in Good
  <2>1. /\ k - 1 \in 0..n /\ k \in 0..n
        /\ r[k - 1] \in Acc(S, len) /\ AccOneSided(X, r[k - 1])
    BY <1>2, <1>4
  <2>2. AccOneSided(X, Visit(r[k - 1], ls, k, len))
    BY <1>2, <2>1, VisitKeepsSides
  <2> QED BY <1>2, <2>1, <2>2
<1> HIDE DEF Good
<1>5. 0..n \subseteq Good
  BY <1>2, <1>3, <1>4, LoopInvariant
<1>6. n \in Good /\ n \in 0..n
  BY <1>2, <1>5
<1>7. AccOneSided(X, r[n])
  BY <1>6 DEF Good
<1>8. r[n].set \in Lists(S) /\ r[n].kept \in Seq(Lists(S))
  BY <1>2, <1>6 DEF Acc
<1>9. /\ DOMAIN new = 1..(Len(r[n].kept) + 1) /\ new[1] = r[n].set
      /\ DOMAIN r[n].kept = 1..Len(r[n].kept) /\ Len(r[n].kept) \in Nat
      /\ \A i \in 2..(Len(r[n].kept) + 1) :
            i - 1 \in 1..Len(r[n].kept) /\ new[i] = r[n].kept[i - 1]
  BY <1>1, <1>8, InFront
<1> HIDE DEF new, n
<1>10. ASSUME NEW i \in DOMAIN new PROVE OneSided(X, new[i])
  <2>1. i = 1 \/ i \in 2..(Len(r[n].kept) + 1)
    BY <1>9
  <2> QED BY <1>7, <1>9, <2>1 DEF AccOneSided
<1> QED BY <1>10 DEF new

=============================================================================
