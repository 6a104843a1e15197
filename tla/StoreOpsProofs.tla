--------------------------- MODULE StoreOpsProofs ---------------------------
(***************************************************************************)
(* What the functions of StoreOps do to the two stores of a property, for  *)
(* any number of topics and vids and any set V of values: each function    *)
(* gets a lemma that says what it needs of a store and what it leaves, and *)
(* one that says what it does to the values the topics show.               *)
(***************************************************************************)
EXTENDS StoreOps, ListProofs

\* Vids are handed out in order: nothing is stored beyond the counter.
NothingBeyond(s) == \A v \in Vid : v > s.count => s.value[v] = NoValue

\* NoOrphans but for one vid w, which has a value and perhaps no topic yet:
\* what _pstore_vput leaves to its caller.
Pending(s, w) ==
    /\ s.value[w] # NoValue
    /\ \A v \in Vid \ {w} : s.value[v] # NoValue <=> s.topics[v] # <<>>

\* The values of a property that combines are non-empty sets, closed under union.
Fits(V, p) ==
    /\ NoValue \notin V
    /\ p.combines => /\ {} \notin V
                     /\ \A S \in SUBSET V : S # {} => UNION S \in V

Consistent(s, p, V) ==
    /\ s \in StoreType(V)
    /\ Fits(V, p)
    /\ Matching(s)
    /\ Distinct(s, p)
    /\ Unique(s, p)
    /\ NothingBeyond(s)
    /\ ~s.aborted

Sound(s, p, V) == Consistent(s, p, V) /\ NoOrphans(s)

\* Store n has the table of s, but for topic t, which has vid v.
VidSet(n, s, t, v) == n.vid = [s.vid EXCEPT ![t] = v]

-----------------------------------------------------------------------------
(* Sequences *)

\* Taking one topic out of an array leaves the others, each once.
LEMMA WithoutIsSmaller ==
    ASSUME NEW S, NEW q \in Seq(S), IsInjective(q), NEW k \in DOMAIN q
    PROVE  /\ Without(q, k) \in Seq(S)
           /\ IsInjective(Without(q, k))
           /\ Len(Without(q, k)) = Len(q) - 1
           /\ ToSet(Without(q, k)) = ToSet(q) \ {q[k]}
<1> DEFINE n == Len(q)
           w == Without(q, k)
<1>1. n \in Nat /\ k \in 1..n /\ DOMAIN q = 1..n
  OBVIOUS
<1>2. w = [i \in 1..(n - 1) |-> IF i < k THEN q[i] ELSE q[i + 1]]
  BY DEF Without
<1>3. w \in Seq(S) /\ Len(w) = n - 1 /\ DOMAIN w = 1..(n - 1)
  <2>1. n - 1 \in Nat
    BY <1>1
  <2>2. \A i \in 1..(n - 1) : (IF i < k THEN q[i] ELSE q[i + 1]) \in S
    BY <1>1
  <2>3. w \in [1..(n - 1) -> S]
    BY <1>2, <2>2
  <2> QED BY <2>1, <2>3
<1>4. \A i \in 1..(n - 1) : w[i] = IF i < k THEN q[i] ELSE q[i + 1]
  BY <1>2
<1>5. \A i, j \in 1..n : q[i] = q[j] => i = j
  BY <1>1 DEF IsInjective
<1>6. IsInjective(w)
  <2> SUFFICES ASSUME NEW i \in 1..(n - 1), NEW j \in 1..(n - 1), w[i] = w[j]
               PROVE  i = j
    BY <1>3 DEF IsInjective
  <2> QED BY <1>1, <1>4, <1>5
<1>7. ToSet(w) = ToSet(q) \ {q[k]}
  <2>1. ASSUME NEW x \in ToSet(w) PROVE x \in ToSet(q) /\ x # q[k]
    <3>1. PICK i \in 1..(n - 1) : x = w[i]
      BY <2>1, <1>3 DEF ToSet
    <3> QED BY <3>1, <1>1, <1>4, <1>5 DEF ToSet
  <2>2. ASSUME NEW x \in ToSet(q), x # q[k] PROVE x \in ToSet(w)
    <3>1. PICK i \in 1..n : x = q[i]
      BY <2>2, <1>1 DEF ToSet
    <3>2. CASE i < k
      <4>1. i \in 1..(n - 1) /\ w[i] = x
        BY <3>1, <3>2, <1>1, <1>4
      <4> QED BY <4>1, <1>3 DEF ToSet
    <3>3. CASE i > k
      <4>1. i - 1 \in 1..(n - 1) /\ w[i - 1] = x
        BY <3>1, <3>3, <1>1, <1>4
      <4> QED BY <4>1, <1>3 DEF ToSet
    <3> QED BY <3>1, <3>2, <3>3, <2>2, <1>1
  <2> QED BY <2>1, <2>2
<1> QED BY <1>3, <1>6, <1>7

-----------------------------------------------------------------------------
(* The property store *)

\* insert: a topic without a value gets one that is waiting for a topic.
LEMMA InsertKeepsSound ==
    ASSUME NEW V, NEW s, NEW p, NEW t \in Topic, NEW v \in Vid,
           Consistent(s, p, V), Pending(s, v), s.vid[t] = 0
    PROVE  /\ Sound(InsertTopic(s, t, v), p, V)
           /\ VidSet(InsertTopic(s, t, v), s, t, v)
           /\ InsertTopic(s, t, v).value = s.value
<1> DEFINE n == InsertTopic(s, t, v)
<1>1. n = [s EXCEPT !.topics[v] = Append(@, t), !.vid[t] = v,
                    !.normalized = FALSE]
  BY DEF InsertTopic
<1>2. /\ s.topics \in [Vid -> Seq(Topic)] /\ s.vid \in [Topic -> 0..MaxVid]
      /\ s \in StoreType(V) /\ MaxVid \in Nat
      /\ 0 \notin Vid
  BY StoreAssumption DEF Consistent, StoreType, Vid
<1>3. /\ n.topics = [s.topics EXCEPT ![v] = Append(@, t)]
      /\ n.vid = [s.vid EXCEPT ![t] = v]
      /\ n.value = s.value /\ n.count = s.count
      /\ n.normalized = FALSE /\ n.aborted = s.aborted
  BY <1>1, <1>2 DEF StoreType
<1>4. IsInjective(s.topics[v]) /\ t \notin ToSet(s.topics[v])
  BY <1>2 DEF Consistent, Matching
<1>5. /\ Append(s.topics[v], t) \in Seq(Topic)
      /\ IsInjective(Append(s.topics[v], t))
      /\ ToSet(Append(s.topics[v], t)) = ToSet(s.topics[v]) \cup {t}
      /\ Append(s.topics[v], t) # <<>>
  BY <1>2, <1>4, AppendIsLarger
<1>6. n \in StoreType(V)
  <2>1. n.topics \in [Vid -> Seq(Topic)]
    BY <1>2, <1>3, <1>5
  <2>2. n.vid \in [Topic -> 0..MaxVid]
    BY <1>2, <1>3 DEF Vid
  <2> QED BY <1>1, <1>2, <1>3, <2>1, <2>2 DEF StoreType
<1>7. Matching(n)
  <2>1. \A w \in Vid : IsInjective(n.topics[w])
    BY <1>2, <1>3, <1>5 DEF Consistent, Matching
  <2>2. ASSUME NEW u \in Topic, NEW w \in Vid
        PROVE  n.vid[u] = w <=> u \in ToSet(n.topics[w])
    <3>1. s.vid[u] = w <=> u \in ToSet(s.topics[w])
      BY DEF Consistent, Matching
    <3>2. CASE w = v
      BY <3>1, <3>2, <1>2, <1>3, <1>5
    <3>3. CASE w # v
      BY <3>1, <3>3, <1>2, <1>3
    <3> QED BY <3>2, <3>3
  <2> QED BY <2>1, <2>2 DEF Matching
<1>8. NoOrphans(n)
  BY <1>2, <1>3, <1>5 DEF Pending, NoOrphans
<1>9. Distinct(n, p) /\ Unique(n, p) /\ NothingBeyond(n) /\ ~n.aborted
  BY <1>3 DEF Consistent, Distinct, Unique, NothingBeyond
<1> QED BY <1>3, <1>6, <1>7, <1>8, <1>9 DEF Sound, Consistent, VidSet

\* remove: the value goes with its last topic.
LEMMA RemoveKeepsSound ==
    ASSUME NEW V, NEW s, NEW p, NEW t \in Topic, Sound(s, p, V), s.vid[t] # 0
    PROVE  /\ Sound(RemoveTopic(s, t), p, V)
           /\ VidSet(RemoveTopic(s, t), s, t, 0)
           /\ RemoveTopic(s, t).count = s.count
<1> DEFINE n == RemoveTopic(s, t)
           v == s.vid[t]
           q == s.topics[v]
<1>1. /\ s.topics \in [Vid -> Seq(Topic)] /\ s.vid \in [Topic -> 0..MaxVid]
      /\ s.value \in [Vid -> {NoValue} \cup V]
      /\ s \in StoreType(V) /\ MaxVid \in Nat
      /\ v \in Vid /\ 0 \notin Vid /\ q \in Seq(Topic)
  BY StoreAssumption DEF Sound, Consistent, StoreType, Vid
<1>2. IsInjective(q) /\ t \in ToSet(q) /\ q # <<>>
  BY <1>1 DEF Sound, Consistent, Matching, ToSet
<1>3. CASE Len(q) = 1
  <2>1. n = DropLast(s, t)
    BY <1>1, <1>2, <1>3 DEF RemoveTopic
  <2>2. /\ n.topics = [s.topics EXCEPT ![v] = <<>>]
        /\ n.vid = [s.vid EXCEPT ![t] = 0]
        /\ n.value = [s.value EXCEPT ![v] = NoValue] /\ n.count = s.count
        /\ n.normalized = s.normalized /\ n.aborted = s.aborted
    BY <1>1, <2>1 DEF DropLast, StoreType
  <2>3. n \in StoreType(V)
    <3>1. n.topics \in [Vid -> Seq(Topic)]
      BY <1>1, <2>2
    <3>2. n.vid \in [Topic -> 0..MaxVid] /\ n.value \in [Vid -> {NoValue} \cup V]
      BY <1>1, <2>2
    <3> QED BY <1>1, <2>1, <2>2, <3>1, <3>2 DEF StoreType, DropLast
  <2>4. ToSet(q) = {t}
    BY <1>1, <1>2, <1>3 DEF ToSet
  <2>5. Matching(n)
    <3>1. IsInjective(<<>>) /\ ToSet(<<>>) = {}
      BY DEF IsInjective, ToSet
    <3>2. \A w \in Vid : IsInjective(n.topics[w])
      BY <1>1, <2>2, <3>1 DEF Sound, Consistent, Matching
    <3>3. ASSUME NEW u \in Topic, NEW w \in Vid
          PROVE  n.vid[u] = w <=> u \in ToSet(n.topics[w])
      <4>1. s.vid[u] = w <=> u \in ToSet(s.topics[w])
        BY DEF Sound, Consistent, Matching
      <4>2. CASE w = v
        BY <4>1, <4>2, <1>1, <2>2, <2>4, <3>1
      <4>3. CASE w # v
        BY <4>1, <4>3, <1>1, <2>2
      <4> QED BY <4>2, <4>3
    <3> QED BY <3>2, <3>3 DEF Matching
  <2>6. NoOrphans(n)
    BY <1>1, <2>2 DEF Sound, NoOrphans
  <2>7. Distinct(n, p) /\ NothingBeyond(n) /\ ~n.aborted
    BY <1>1, <2>2 DEF Sound, Consistent, Distinct, NothingBeyond
  <2>8. Unique(n, p)
    BY <1>1, <2>2 DEF Sound, Consistent, Unique
  <2> QED BY <2>2, <2>3, <2>5, <2>6, <2>7, <2>8 DEF Sound, Consistent, VidSet
<1>4. CASE Len(q) # 1
  <2> DEFINE k == Position(q, t)
             r == Without(q, k)
  <2>1. n = DropOne(s, t)
    BY <1>1, <1>2, <1>4 DEF RemoveTopic
  <2>2. /\ n.topics = [s.topics EXCEPT ![v] = r]
        /\ n.vid = [s.vid EXCEPT ![t] = 0]
        /\ n.value = s.value /\ n.count = s.count
        /\ n.normalized = s.normalized /\ n.aborted = s.aborted
    BY <1>1, <2>1 DEF DropOne, StoreType
  <2>3. k \in DOMAIN q /\ q[k] = t
    BY <1>1, <1>2 DEF Position, ToSet
  <2>4. /\ r \in Seq(Topic) /\ IsInjective(r) /\ Len(r) = Len(q) - 1
        /\ ToSet(r) = ToSet(q) \ {t}
    BY <1>1, <1>2, <2>3, WithoutIsSmaller
  <2> HIDE DEF r
  <2>5. n \in StoreType(V)
    <3>1. n.topics \in [Vid -> Seq(Topic)]
      BY <1>1, <2>2, <2>4
    <3>2. n.vid \in [Topic -> 0..MaxVid]
      BY <1>1, <2>2
    <3> QED BY <1>1, <2>1, <2>2, <3>1, <3>2 DEF StoreType, DropOne
  <2>6. Matching(n)
    <3>2. \A w \in Vid : IsInjective(n.topics[w])
      BY <1>1, <2>2, <2>4 DEF Sound, Consistent, Matching
    <3>3. ASSUME NEW u \in Topic, NEW w \in Vid
          PROVE  n.vid[u] = w <=> u \in ToSet(n.topics[w])
      <4>1. s.vid[u] = w <=> u \in ToSet(s.topics[w])
        BY DEF Sound, Consistent, Matching
      <4>2. CASE w = v
        BY <4>1, <4>2, <1>1, <2>2, <2>4
      <4>3. CASE w # v
        BY <4>1, <4>3, <1>1, <2>2
      <4> QED BY <4>2, <4>3
    <3> QED BY <3>2, <3>3 DEF Matching
  <2>7. NoOrphans(n)
    <3>1. r # <<>>
      <4>1. Len(q) \in Nat /\ Len(q) # 0
        BY <1>1, <1>2
      <4>2. Len(r) # 0
        BY <4>1, <1>4, <2>4
      <4> QED BY <4>2
    <3> QED BY <3>1, <1>1, <1>2, <2>2 DEF Sound, NoOrphans
  <2>8. Distinct(n, p) /\ NothingBeyond(n) /\ ~n.aborted
    BY <1>1, <2>2 DEF Sound, Consistent, Distinct, NothingBeyond
  <2>9. Unique(n, p)
    <3>1. Len(r) <= Len(q)
      BY <2>4, <1>1
    <3> QED BY <3>1, <1>1, <1>2, <1>4, <2>2, <2>4 DEF Sound, Consistent, Unique
  <2> QED BY <2>2, <2>5, <2>6, <2>7, <2>8, <2>9 DEF Sound, Consistent, VidSet
<1> QED BY <1>3, <1>4

\* normalize: one topic per value stays.
LEMMA NormalizeKeepsSound ==
    ASSUME NEW V, NEW s, NEW p, Sound(s, p, V)
    PROVE  Sound(NormalizeStore(p, s), p, V)
<1> DEFINE n == NormalizeStore(p, s)
           Cut(t) == \E v \in MergeArrays(s) :
                        \E k \in 2..Len(s.topics[v]) : s.topics[v][k] = t
<1>1. /\ s.topics \in [Vid -> Seq(Topic)] /\ s.vid \in [Topic -> 0..MaxVid]
      /\ s \in StoreType(V) /\ MaxVid \in Nat
      /\ 0 \notin Vid
  BY StoreAssumption DEF Sound, Consistent, StoreType, Vid
<1>2. CASE IsNormalized(p, s)
  BY <1>2 DEF NormalizeStore
<1>3. CASE ~IsNormalized(p, s)
  <2>1. /\ n.topics = [v \in Vid |-> IF v \in MergeArrays(s)
                                     THEN <<s.topics[v][1]>> ELSE s.topics[v]]
        /\ n.vid = [t \in Topic |-> IF Cut(t) THEN 0 ELSE s.vid[t]]
        /\ n.value = s.value /\ n.count = s.count
        /\ n.normalized = TRUE /\ n.aborted = s.aborted
        /\ DOMAIN n = DOMAIN s
        /\ n \in StoreType(V) <=> /\ n.topics \in [Vid -> Seq(Topic)]
                                      /\ n.vid \in [Topic -> 0..MaxVid]
    BY <1>1, <1>3 DEF NormalizeStore, StoreType
  <2>2. ASSUME NEW v \in MergeArrays(s)
        PROVE  /\ v \in Vid /\ Len(s.topics[v]) \in Nat /\ Len(s.topics[v]) > 1
               /\ s.topics[v] # <<>>
               /\ <<s.topics[v][1]>> \in Seq(Topic)
               /\ IsInjective(<<s.topics[v][1]>>)
               /\ ToSet(<<s.topics[v][1]>>) = {s.topics[v][1]}
    <3>1. v \in Vid /\ Len(s.topics[v]) \in Nat /\ Len(s.topics[v]) > 1
      BY <1>1 DEF MergeArrays
    <3>2. s.topics[v][1] \in Topic /\ s.topics[v] # <<>>
      BY <1>1, <3>1
    <3> QED BY <3>1, <3>2 DEF IsInjective, ToSet
  <2>3. n \in StoreType(V)
    <3>1. n.topics \in [Vid -> Seq(Topic)]
      BY <1>1, <2>1, <2>2
    <3>2. n.vid \in [Topic -> 0..MaxVid]
      BY <1>1, <2>1
    <3> QED BY <2>1, <3>1, <3>2
  <2>4. Matching(n)
    <3>1. \A v \in Vid : IsInjective(n.topics[v])
      BY <2>1, <2>2 DEF Sound, Consistent, Matching
    <3>2. ASSUME NEW t \in Topic, NEW v \in Vid
          PROVE  n.vid[t] = v <=> t \in ToSet(n.topics[v])
      <4>1. s.vid[t] = v <=> t \in ToSet(s.topics[v])
        BY DEF Sound, Consistent, Matching
      <4>2. IsInjective(s.topics[v]) /\ s.topics[v] \in Seq(Topic)
        BY <1>1 DEF Sound, Consistent, Matching
      <4>3. ASSUME Cut(t) PROVE s.vid[t] \in MergeArrays(s) /\
               \E k \in 2..Len(s.topics[s.vid[t]]) : s.topics[s.vid[t]][k] = t
        <5>1. PICK w \in MergeArrays(s) :
                 \E k \in 2..Len(s.topics[w]) : s.topics[w][k] = t
          BY <4>3
        <5>2. w \in Vid /\ t \in ToSet(s.topics[w])
          <6>1. w \in Vid /\ s.topics[w] \in Seq(Topic)
            BY <2>2, <1>1
          <6>2. PICK k \in 2..Len(s.topics[w]) : s.topics[w][k] = t
            BY <5>1
          <6>3. k \in 1..Len(s.topics[w])
            BY <6>1, <6>2
          <6> QED BY <6>1, <6>2, <6>3, ElementInSet
        <5>3. s.vid[t] = w
          BY <5>2 DEF Sound, Consistent, Matching
        <5> QED BY <5>1, <5>3
      <4>4. CASE v \in MergeArrays(s)
        <5>1. n.topics[v] = <<s.topics[v][1]>> /\ ToSet(n.topics[v]) = {s.topics[v][1]}
          BY <4>4, <2>1, <2>2
        <5>2. ASSUME t = s.topics[v][1] PROVE s.vid[t] = v /\ ~Cut(t)
          <6>1. s.vid[t] = v
            <7>1. 1 \in 1..Len(s.topics[v])
              <8>1. Len(s.topics[v]) \in Nat /\ Len(s.topics[v]) > 1
                BY <4>4, <2>2
              <8> QED BY <8>1
            <7> QED BY <7>1, <5>2, <4>1, <4>2, ElementInSet
          <6> QED BY <6>1, <5>2, <4>2, <4>3, <4>4, <2>2 DEF IsInjective
        <5>3. ASSUME s.vid[t] = v, ~Cut(t) PROVE t = s.topics[v][1]
          <6>1. PICK k \in 1..Len(s.topics[v]) : s.topics[v][k] = t
            BY <5>3, <4>1, <4>2 DEF ToSet
          <6>2. k \notin 2..Len(s.topics[v])
            BY <6>1, <5>3, <4>4
          <6> QED BY <6>1, <6>2, <4>4, <2>2
        <5>4. n.vid[t] = v <=> (s.vid[t] = v /\ ~Cut(t))
          BY <2>1, <1>1
        <5> QED BY <5>1, <5>2, <5>3, <5>4
      <4>5. CASE v \notin MergeArrays(s)
        <5>1. n.topics[v] = s.topics[v]
          BY <4>5, <2>1
        <5>2. n.vid[t] = v <=> s.vid[t] = v
          BY <4>3, <4>5, <2>1, <1>1
        <5> QED BY <5>1, <5>2, <4>1
      <4> QED BY <4>4, <4>5
    <3> QED BY <3>1, <3>2 DEF Matching
  <2>5. NoOrphans(n)
    BY <2>1, <2>2 DEF Sound, NoOrphans
  <2>6. Distinct(n, p) /\ NothingBeyond(n) /\ ~n.aborted
    BY <2>1 DEF Sound, Consistent, Distinct, NothingBeyond
  <2>7. Unique(n, p)
    <3> SUFFICES ASSUME NEW v \in Vid PROVE Len(n.topics[v]) <= 1
      BY DEF Unique
    <3>1. CASE v \in MergeArrays(s)
      <4>1. n.topics[v] = <<s.topics[v][1]>>
        BY <3>1, <2>1
      <4> QED BY <4>1
    <3>2. CASE v \notin MergeArrays(s)
      BY <3>2, <2>1, <1>1 DEF MergeArrays
    <3> QED BY <3>1, <3>2
  <2> QED BY <2>3, <2>4, <2>5, <2>6, <2>7 DEF Sound, Consistent
<1> QED BY <1>2, <1>3

-----------------------------------------------------------------------------
(* The value store *)

\* An order of the topics collected is an array of them.
LEMMA OrderIsArray ==
    ASSUME NEW S \in SUBSET Topic, NEW q \in Orders(S)
    PROVE  q \in Seq(Topic) /\ IsInjective(q) /\ ToSet(q) = S
<1>1. IsFiniteSet(S)
  BY FS_Subset, StoreAssumption
<1>2. Cardinality(S) \in Nat
  BY <1>1, FS_CardinalityType
<1>3. q \in [1..Cardinality(S) -> S] /\ ToSet(q) = S /\ IsInjective(q)
  BY DEF Orders
<1>4. q \in [1..Cardinality(S) -> Topic]
  BY <1>3
<1> QED BY <1>2, <1>3, <1>4

\* Without hits the empty order is one of nothing.
LEMMA EmptyOrder ==
    <<>> \in Seq(Topic) /\ IsInjective(<<>>) /\ ToSet(<<>>) = {}
BY DEF IsInjective, ToSet

\* Empty stores are sound.
LEMMA EmptyIsSound ==
    ASSUME NEW V, NEW p, Fits(V, p)
    PROVE  Sound(EmptyStore, p, V)
<1>1. /\ EmptyStore.topics = [v \in Vid |-> <<>>]
      /\ EmptyStore.vid = [t \in Topic |-> 0]
      /\ EmptyStore.value = [v \in Vid |-> NoValue]
      /\ EmptyStore.count = 0 /\ EmptyStore.aborted = FALSE
  BY DEF EmptyStore
<1>2. EmptyStore \in StoreType(V)
  <2>1. 0 \in 0..MaxVid
    BY StoreAssumption
  <2>2. /\ [v \in Vid |-> <<>>] \in [Vid -> Seq(Topic)]
        /\ [t \in Topic |-> 0] \in [Topic -> 0..MaxVid]
        /\ [v \in Vid |-> NoValue] \in [Vid -> {NoValue} \cup V]
    BY <2>1, EmptyOrder
  <2> QED BY <2>1, <2>2 DEF EmptyStore, StoreType
<1>3. Matching(EmptyStore)
  <2>1. \A v \in Vid : v # 0
    BY DEF Vid
  <2> QED BY <2>1, <1>1, EmptyOrder DEF Matching
<1>4. /\ NoOrphans(EmptyStore) /\ Distinct(EmptyStore, p)
      /\ NothingBeyond(EmptyStore) /\ Unique(EmptyStore, p)
  BY <1>1 DEF NoOrphans, Distinct, NothingBeyond, Unique
<1> QED BY <1>1, <1>2, <1>3, <1>4 DEF Sound, Consistent

\* What the values found are combined to is a value, which meets no other.
LEMMA CombinedIsValue ==
    ASSUME NEW V, NEW s, NEW p, NEW val \in V, Consistent(s, p, V), p.combines
    PROVE  /\ Combined(s, p, val) \in V
           /\ \A v \in Vid \ Hits(s, p, val) : s.value[v] # NoValue
                => /\ s.value[v] \cap Combined(s, p, val) = {}
                   /\ s.value[v] # Combined(s, p, val)
<1> DEFINE found == {s.value[v] : v \in Hits(s, p, val)}
<1>1. s.value \in [Vid -> {NoValue} \cup V]
  BY DEF Consistent, StoreType
<1>2. \A v \in Hits(s, p, val) : v \in Vid /\ s.value[v] \in V
  BY <1>1 DEF Hits
<1>3. Combined(s, p, val) \in V
  <2>1. Combined(s, p, val) = UNION ({val} \cup found)
    BY DEF Combined
  <2>2. {val} \cup found \in SUBSET V /\ {val} \cup found # {}
    BY <1>2
  <2> QED BY <2>1, <2>2 DEF Consistent, Fits
<1>4. ASSUME NEW v \in Vid \ Hits(s, p, val), s.value[v] # NoValue
      PROVE  /\ s.value[v] \cap Combined(s, p, val) = {}
             /\ s.value[v] # Combined(s, p, val)
  <2>1. s.value[v] \cap val = {}
    BY <1>4 DEF Hits, Meets
  <2>2. \A w \in Hits(s, p, val) : s.value[v] \cap s.value[w] = {}
    BY <1>4 DEF Hits, Consistent, Distinct
  <2>3. s.value[v] \cap Combined(s, p, val) = {}
    BY <2>1, <2>2 DEF Combined
  <2>4. s.value[v] # {}
    BY <1>1, <1>4 DEF Consistent, Fits
  <2> QED BY <2>3, <2>4
<1> QED BY <1>3, <1>4

\* vput: the vid returned has the value and waits for a topic; the table
\* entries of topics without a value are as they were.
LEMMA CreateIsPending ==
    ASSUME NEW V, NEW s, NEW p, NEW val \in V, NEW order \in Seq(Topic),
           Sound(s, p, V), s.count < MaxVid, ~IsStored(s, p, val),
           IsInjective(order), ToSet(order) = Collected(s, p, val)
    PROVE  LET n == CreateValue(s, p, val, order)
               new == s.count + 1
           IN /\ Consistent(n, p, V) /\ Pending(n, new) /\ new \in Vid
              /\ \A t \in Topic : s.vid[t] = 0 => n.vid[t] = 0
              /\ s.value[new] = NoValue
              /\ \A v \in Vid \ (Hits(s, p, val) \cup {new}) :
                    n.topics[v] = s.topics[v] /\ n.value[v] = s.value[v]
<1> DEFINE n == CreateValue(s, p, val, order)
           new == s.count + 1
           hits == Hits(s, p, val)
           W == IF p.combines THEN Combined(s, p, val) ELSE val
<1>1. /\ s.topics \in [Vid -> Seq(Topic)] /\ s.vid \in [Topic -> 0..MaxVid]
      /\ s.value \in [Vid -> {NoValue} \cup V] /\ s.count \in 0..MaxVid
      /\ s.normalized \in BOOLEAN
      /\ MaxVid \in Nat /\ new \in Vid /\ 0 \notin Vid
  BY StoreAssumption DEF Sound, Consistent, StoreType, Vid
<1>2. s.value[new] = NoValue /\ s.topics[new] = <<>> /\ new \notin hits
  <2>1. s.value[new] = NoValue
    BY <1>1 DEF Sound, Consistent, NothingBeyond
  <2> QED BY <2>1, <1>1 DEF Sound, NoOrphans, Hits
<1>3. /\ n.topics = [v \in Vid |-> IF v = new THEN order
                                   ELSE IF v \in hits THEN <<>> ELSE s.topics[v]]
      /\ n.vid = [t \in Topic |-> IF t \in ToSet(order) THEN new ELSE s.vid[t]]
      /\ n.value = [v \in Vid |-> IF v = new THEN W
                                  ELSE IF v \in hits THEN NoValue ELSE s.value[v]]
      /\ n.count = new
      /\ n.normalized = (s.normalized /\ order = <<>>)
      /\ n.aborted = (s.aborted \/ ~VPutAsserts(s, p, val))
      /\ n = [topics |-> n.topics, vid |-> n.vid, value |-> n.value,
              count |-> n.count, normalized |-> n.normalized,
              aborted |-> n.aborted]
  BY DEF CreateValue
<1>4. hits \subseteq Vid /\ \A v \in hits : s.value[v] # NoValue
  BY DEF Hits
<1>5. W \in V /\ W # NoValue
  BY CombinedIsValue DEF Sound, Consistent, Fits
<1>6. \A v \in Vid \ hits : s.value[v] # NoValue
         => s.value[v] # W /\ (p.combines => s.value[v] \cap W = {})
  <2>1. CASE p.combines
    BY <2>1, CombinedIsValue DEF Sound
  <2>2. CASE ~p.combines
    BY <2>2 DEF Hits, Meets
  <2> QED BY <2>1, <2>2
<1>7. VPutAsserts(s, p, val)
  <2>1. \A v \in hits : s.topics[v] # <<>>
    BY <1>4 DEF Sound, NoOrphans
  <2> QED BY <2>1, <1>6 DEF VPutAsserts
<1>8. ~n.aborted
  BY <1>3, <1>7 DEF Sound, Consistent
<1> HIDE DEF W
<1>9. n \in StoreType(V)
  <2>1. n.topics \in [Vid -> Seq(Topic)]
    BY <1>1, <1>3, EmptyOrder
  <2>2. n.vid \in [Topic -> 0..MaxVid]
    BY <1>1, <1>3 DEF Vid
  <2>3. n.value \in [Vid -> {NoValue} \cup V]
    BY <1>1, <1>3, <1>5
  <2>4. n.count \in 0..MaxVid /\ n.normalized \in BOOLEAN /\ n.aborted \in BOOLEAN
    BY <1>1, <1>3, <1>8 DEF Vid
  <2> HIDE DEF n
  <2> QED BY <1>3, <2>1, <2>2, <2>3, <2>4 DEF StoreType
<1> HIDE DEF n
<1>10. \A t \in Topic : t \in ToSet(order) <=> s.vid[t] \in hits
  <2> SUFFICES ASSUME NEW t \in Topic
               PROVE  t \in Collected(s, p, val) <=> s.vid[t] \in hits
    OBVIOUS
  <2>1. \A v \in hits : t \in ToSet(s.topics[v]) <=> s.vid[t] = v
    BY <1>4 DEF Sound, Consistent, Matching
  <2> QED BY <2>1 DEF Collected
<1>11. Matching(n)
  <2>1. \A v \in Vid : IsInjective(n.topics[v])
    BY <1>3, EmptyOrder DEF Sound, Consistent, Matching
  <2>2. ASSUME NEW t \in Topic, NEW v \in Vid
        PROVE  n.vid[t] = v <=> t \in ToSet(n.topics[v])
    <3>1. s.vid[t] = v <=> t \in ToSet(s.topics[v])
      BY DEF Sound, Consistent, Matching
    <3>2. CASE v = new
      <4>1. s.vid[t] # new
        BY <3>1, <3>2, <1>2, EmptyOrder
      <4> QED BY <4>1, <3>2, <1>1, <1>3
    <3>3. CASE v # new /\ v \in hits
      BY <3>3, <1>3, <1>10, EmptyOrder
    <3>4. CASE v # new /\ v \notin hits
      BY <3>4, <3>1, <1>3, <1>10
    <3> QED BY <3>2, <3>3, <3>4
  <2> QED BY <2>1, <2>2 DEF Matching
<1>12. Pending(n, new)
  BY <1>1, <1>3, <1>5 DEF Sound, NoOrphans, Pending
<1>13. Distinct(n, p)
  <2> SUFFICES ASSUME NEW v \in Vid, NEW w \in Vid, v # w,
                      n.value[v] # NoValue, n.value[w] # NoValue
               PROVE  /\ n.value[v] # n.value[w]
                      /\ p.combines => n.value[v] \cap n.value[w] = {}
    BY DEF Distinct
  <2>1. CASE v = new
    <3>1. w \notin hits /\ n.value[w] = s.value[w] /\ n.value[v] = W
      BY <2>1, <1>3
    <3> QED BY <3>1, <1>6
  <2>2. CASE w = new
    <3>1. v \notin hits /\ n.value[v] = s.value[v] /\ n.value[w] = W
      BY <2>2, <1>3
    <3> QED BY <3>1, <1>6
  <2>3. CASE v # new /\ w # new
    <3>1. n.value[v] = s.value[v] /\ n.value[w] = s.value[w]
      BY <2>3, <1>3
    <3> QED BY <3>1 DEF Sound, Consistent, Distinct
  <2> QED BY <2>1, <2>2, <2>3
<1>14. Unique(n, p)
  <2> SUFFICES ASSUME p.sidp, n.normalized, NEW v \in Vid
               PROVE  Len(n.topics[v]) <= 1
    BY DEF Unique
  <2>1. order = <<>> /\ Len(s.topics[v]) <= 1
    BY <1>1, <1>3 DEF Sound, Consistent, Unique
  <2> QED BY <2>1, <1>3
<1>15. NothingBeyond(n)
  <2> SUFFICES ASSUME NEW v \in Vid, v > new PROVE n.value[v] = NoValue
    BY <1>3 DEF NothingBeyond
  <2>1. v # new /\ s.value[v] = NoValue
    BY <1>1 DEF Sound, Consistent, NothingBeyond, Vid
  <2> QED BY <2>1, <1>3
<1>16. \A t \in Topic : s.vid[t] = 0 => n.vid[t] = 0
  BY <1>1, <1>3, <1>4, <1>10
<1>17. \A v \in Vid \ (hits \cup {new}) :
          n.topics[v] = s.topics[v] /\ n.value[v] = s.value[v]
  BY <1>3
<1>18. Consistent(n, p, V)
  BY <1>8, <1>9, <1>11, <1>13, <1>14, <1>15 DEF Sound, Consistent
<1> QED BY <1>1, <1>2, <1>12, <1>16, <1>17, <1>18 DEF n

\* A value that does not combine is found under one vid, where it is stored.
LEMMA HitIsStored ==
    ASSUME NEW V, NEW s, NEW p, NEW val, Sound(s, p, V), ~p.combines,
           ~IsStored(s, p, val)
    PROVE  Hits(s, p, val) = {}
<1> SUFFICES ASSUME NEW v \in Hits(s, p, val) PROVE FALSE
  OBVIOUS
<1>1. \A w \in Hits(s, p, val) : s.value[w] = val /\ w \in Vid /\ s.value[w] # NoValue
  BY DEF Hits, Meets
<1>2. \A w \in Hits(s, p, val) : w = v
  BY <1>1 DEF Sound, Consistent, Distinct
<1>3. Hits(s, p, val) = {v}
  BY <1>2
<1> QED BY <1>1, <1>3 DEF IsStored

OrderFor(s, p, val) ==
    IF p.combines THEN Orders(Collected(s, p, val)) ELSE {<<>>}

\* vput: the value is under the vid returned, which waits for its topic if the
\* value has just been created; everything else is as it should be.
LEMMA VPutIsPending ==
    ASSUME NEW V, NEW s, NEW p, NEW val \in V, NEW order \in OrderFor(s, p, val),
           Sound(s, p, V), s.count < MaxVid
    PROVE  LET n == VPut(s, p, val, order)
               w == VPutVid(s, p, val)
           IN /\ Consistent(n, p, V) /\ Pending(n, w) /\ w \in Vid
              /\ \A t \in Topic : s.vid[t] = 0 => n.vid[t] = 0
<1>1. CASE IsStored(s, p, val)
  <2> DEFINE w == VPutVid(s, p, val)
  <2>1. VPut(s, p, val, order) = s
    BY <1>1 DEF VPut
  <2>2. w \in Vid /\ Hits(s, p, val) = {w} /\ s.value[w] = val
    BY <1>1 DEF VPutVid, IsStored
  <2>3. s.value[w] # NoValue
    BY <2>2 DEF Sound, Consistent, Fits
  <2>4. Pending(s, w)
    BY <2>3 DEF Pending, Sound, NoOrphans
  <2> QED BY <2>1, <2>2, <2>4 DEF Sound
<1>2. CASE ~IsStored(s, p, val)
  <2>1. /\ VPut(s, p, val, order) = CreateValue(s, p, val, order)
        /\ VPutVid(s, p, val) = s.count + 1
    BY <1>2 DEF VPut, VPutVid
  <2>2. Collected(s, p, val) \in SUBSET Topic
    BY DEF Collected, Hits, Sound, Consistent, StoreType, ToSet
  <2>3. /\ order \in Seq(Topic) /\ IsInjective(order)
        /\ ToSet(order) = Collected(s, p, val)
    <3>1. CASE p.combines
      BY <3>1, <2>2, OrderIsArray DEF OrderFor
    <3>2. CASE ~p.combines
      BY <3>2, <1>2, HitIsStored, EmptyOrder DEF OrderFor, Collected
    <3> QED BY <3>1, <3>2
  <2>4. LET n == CreateValue(s, p, val, order)
            new == s.count + 1
        IN /\ Consistent(n, p, V) /\ Pending(n, new) /\ new \in Vid
           /\ \A t \in Topic : s.vid[t] = 0 => n.vid[t] = 0
    BY <1>2, <2>3, CreateIsPending
  <2> QED BY <2>1, <2>4
<1> QED BY <1>1, <1>2

\* What put and replace have in common: the topic then has the value.
LEMMA StoreForKeepsSound ==
    ASSUME NEW V, NEW s, NEW p, NEW t \in Topic, NEW val \in V,
           NEW order \in OrderFor(s, p, val),
           Sound(s, p, V), s.count < MaxVid, s.vid[t] = 0
    PROVE  Sound(StoreFor(s, p, t, val, order), p, V)
<1> DEFINE n == VPut(s, p, val, order)
           w == VPutVid(s, p, val)
<1>1. Consistent(n, p, V) /\ Pending(n, w) /\ w \in Vid /\ n.vid[t] = 0
  BY VPutIsPending
<1>2. Sound(InsertTopic(n, t, w), p, V)
  BY <1>1, InsertKeepsSound
<1> QED BY <1>2 DEF StoreFor

\* A topic with a vid has a value.
LEMMA ValueOfTopic ==
    ASSUME NEW V, NEW s, NEW p, NEW t \in Topic, Sound(s, p, V), s.vid[t] # 0
    PROVE  s.vid[t] \in Vid /\ s.value[s.vid[t]] \in V
<1>1. s.vid[t] \in Vid
  BY StoreAssumption DEF Sound, Consistent, StoreType, Vid
<1>2. s.topics[s.vid[t]] # <<>>
  BY <1>1, EmptyOrder DEF Sound, Consistent, Matching
<1> QED BY <1>1, <1>2 DEF Sound, Consistent, StoreType, NoOrphans

\* What put and replace combine is a value of the property.
LEMMA UnionIsValue ==
    ASSUME NEW V, NEW p, Fits(V, p), p.combines, NEW a \in V, NEW b \in V
    PROVE  a \cup b \in V
<1>1. UNION {a, b} = a \cup b
  OBVIOUS
<1>2. {a, b} \in SUBSET V /\ {a, b} # {}
  OBVIOUS
<1> QED BY <1>1, <1>2 DEF Fits

-----------------------------------------------------------------------------
(* The functions of topicmap.c *)

\* _pstore_put keeps the stores sound: what an identity property is given is
\* combined with all it meets, any other value is stored as it is or refused.
LEMMA PutKeepsSound ==
    ASSUME NEW V, NEW s, NEW p, NEW t \in Topic, NEW val \in V,
           NEW order \in PutOrders(s, p, t, val),
           Sound(s, p, V), s.count < MaxVid
    PROVE  Sound(Put(s, p, t, val, order), p, V)
<1>1. CASE HasValue(s, t, val) \/ PutContradicts(s, p, t, val)
  BY <1>1 DEF Put
<1>2. CASE ~HasValue(s, t, val) /\ ~PutContradicts(s, p, t, val)
  <2> DEFINE c == Cleared(s, t)
             w == Wanted(s, t, val)
  <2>1. Put(s, p, t, val, order) = StoreFor(c, p, t, w, order)
    BY <1>2 DEF Put
  <2>2. Sound(c, p, V) /\ c.vid[t] = 0 /\ c.count = s.count
    <3>1. CASE s.vid[t] = 0
      BY <3>1 DEF Cleared
    <3>2. CASE s.vid[t] # 0
      <4>1. s.vid \in [Topic -> 0..MaxVid]
        BY DEF Sound, Consistent, StoreType
      <4>2. /\ Sound(RemoveTopic(s, t), p, V)
            /\ VidSet(RemoveTopic(s, t), s, t, 0)
            /\ RemoveTopic(s, t).count = s.count
        BY <3>2, RemoveKeepsSound
      <4>3. c = RemoveTopic(s, t)
        BY <3>2 DEF Cleared
      <4>4. RemoveTopic(s, t).vid[t] = 0
        BY <4>1, <4>2 DEF VidSet
      <4> QED BY <4>2, <4>3, <4>4
    <3> QED BY <3>1, <3>2
  <2>3. w \in V
    <3>1. CASE s.vid[t] = 0
      BY <3>1 DEF Wanted
    <3>2. CASE s.vid[t] # 0
      <4>1. p.combines
        BY <1>2, <3>2 DEF HasValue, PutContradicts
      <4> QED BY <3>2, <4>1, ValueOfTopic, UnionIsValue DEF Wanted, Sound, Consistent
    <3> QED BY <3>1, <3>2
  <2>4. order \in OrderFor(c, p, w)
    BY <1>2 DEF PutOrders, OrderFor
  <2> HIDE DEF c, w
  <2> QED BY <2>1, <2>2, <2>3, <2>4, StoreForKeepsSound
<1> QED BY <1>1, <1>2

\* _pstore_replace_topics keeps the stores sound, whichever of the two topics
\* has a value.
LEMMA ReplaceKeepsSound ==
    ASSUME NEW V, NEW s, NEW p, NEW stays \in Topic, NEW disap \in Topic,
           stays # disap,
           NEW order \in ReplaceOrders(s, p, stays, disap),
           Sound(s, p, V), s.count < MaxVid
    PROVE  Sound(ReplaceTopic(s, p, stays, disap, order), p, V)
<1>0. s.vid \in [Topic -> 0..MaxVid]
  BY DEF Sound, Consistent, StoreType
<1>1. CASE s.vid[disap] = 0 \/ ReplaceContradicts(s, p, stays, disap)
  BY <1>1 DEF ReplaceTopic
<1>2. CASE s.vid[disap] # 0 /\ s.vid[stays] = 0
  <2> DEFINE v == s.vid[disap]
             n == InsertTopic(s, stays, v)
  <2>1. ReplaceTopic(s, p, stays, disap, order) = RemoveTopic(n, disap)
    BY <1>2 DEF ReplaceTopic, ReplaceContradicts, BothValued
  <2>2. v \in Vid /\ s.value[v] # NoValue
    BY <1>2, ValueOfTopic DEF Sound, Consistent, Fits
  <2>3. Consistent(s, p, V) /\ Pending(s, v)
    BY <2>2 DEF Sound, NoOrphans, Pending
  <2>4. Sound(n, p, V) /\ VidSet(n, s, stays, v)
    BY <1>2, <2>2, <2>3, InsertKeepsSound
  <2>5. n.vid[disap] # 0
    BY <1>0, <1>2, <2>4 DEF VidSet
  <2> HIDE DEF n
  <2>6. Sound(RemoveTopic(n, disap), p, V)
    BY <2>4, <2>5, RemoveKeepsSound
  <2> QED BY <2>1, <2>6
<1>3. CASE /\ s.vid[disap] # 0 /\ s.vid[stays] # 0
           /\ BothValued(s, stays, disap) /\ p.combines
  <2> DEFINE r == RemoveTopic(s, stays)
             n == BothRemoved(s, stays, disap)
             j == JoinedValue(s, stays, disap)
  <2>1. ReplaceTopic(s, p, stays, disap, order) = StoreFor(n, p, stays, j, order)
    BY <1>3 DEF ReplaceTopic, ReplaceContradicts
  <2>2. Sound(r, p, V) /\ VidSet(r, s, stays, 0) /\ r.count = s.count
    BY <1>3, RemoveKeepsSound
  <2>3. r.vid[disap] # 0
    BY <1>0, <1>3, <2>2 DEF VidSet
  <2> HIDE DEF r
  <2>4. n = RemoveTopic(r, disap)
    BY DEF BothRemoved, r
  <2>5. /\ Sound(n, p, V) /\ VidSet(n, r, disap, 0)
        /\ n.count = s.count
    <3>1. /\ Sound(RemoveTopic(r, disap), p, V)
          /\ VidSet(RemoveTopic(r, disap), r, disap, 0)
          /\ RemoveTopic(r, disap).count = r.count
      BY <2>2, <2>3, RemoveKeepsSound
    <3> QED BY <2>2, <2>4, <3>1
  <2>6. n.vid[stays] = 0
    BY <1>0, <2>2, <2>5 DEF VidSet
  <2>7. j \in V
    BY <1>3, ValueOfTopic, UnionIsValue DEF JoinedValue, Sound, Consistent
  <2>8. order \in OrderFor(n, p, j)
    BY <1>3 DEF ReplaceOrders, OrderFor
  <2>9. n.count < MaxVid
    BY <2>5
  <2> HIDE DEF n, j
  <2>10. Sound(StoreFor(n, p, stays, j, order), p, V)
    BY <2>5, <2>6, <2>7, <2>8, <2>9, StoreForKeepsSound
  <2> QED BY <2>1, <2>10
<1>4. CASE /\ s.vid[disap] # 0 /\ s.vid[stays] # 0
           /\ ~ReplaceContradicts(s, p, stays, disap)
           /\ ~(BothValued(s, stays, disap) /\ p.combines)
  <2>1. ReplaceTopic(s, p, stays, disap, order) = RemoveTopic(s, disap)
    BY <1>4 DEF ReplaceTopic
  <2>2. Sound(RemoveTopic(s, disap), p, V)
    BY <1>4, RemoveKeepsSound
  <2> QED BY <2>1, <2>2
<1> QED BY <1>1, <1>2, <1>3, <1>4

\* The topics of one vid move, as a whole, to one that waits or has others.
LEMMA MoveKeepsSound ==
    ASSUME NEW V, NEW s, NEW p, NEW from \in Vid, NEW to \in Vid, from # to,
           Consistent(s, p, V), Pending(s, to), s.topics[from] # <<>>
    PROVE  Sound(MoveTopics(s, from, to), p, V)
<1> DEFINE n == MoveTopics(s, from, to)
           joined == s.topics[to] \o Reverse(s.topics[from])
<1>1. /\ s.topics \in [Vid -> Seq(Topic)] /\ s.vid \in [Topic -> 0..MaxVid]
      /\ s.value \in [Vid -> {NoValue} \cup V]
      /\ s \in StoreType(V) /\ MaxVid \in Nat /\ 0 \notin Vid
  BY StoreAssumption DEF Consistent, StoreType, Vid
<1>2. /\ n.topics = [v \in Vid |-> IF v = to THEN joined
                                   ELSE IF v = from THEN <<>> ELSE s.topics[v]]
      /\ n.vid = [t \in Topic |-> IF s.vid[t] = from THEN to ELSE s.vid[t]]
      /\ n.value = [s.value EXCEPT ![from] = NoValue]
      /\ n.count = s.count /\ n.normalized = FALSE /\ n.aborted = s.aborted
      /\ n \in StoreType(V) <=> /\ n.topics \in [Vid -> Seq(Topic)]
                                    /\ n.vid \in [Topic -> 0..MaxVid]
                                    /\ n.value \in [Vid -> {NoValue} \cup V]
  BY <1>1 DEF MoveTopics, StoreType
<1>3. /\ IsInjective(s.topics[to]) /\ IsInjective(s.topics[from])
      /\ ToSet(s.topics[to]) \cap ToSet(s.topics[from]) = {}
  <2>1. \A q \in Seq(Topic) : ToSet(q) \subseteq Topic
    BY DEF ToSet
  <2> QED BY <2>1, <1>1 DEF Consistent, Matching
<1>4. /\ joined \in Seq(Topic) /\ IsInjective(joined) /\ joined # <<>>
      /\ ToSet(joined) = ToSet(s.topics[to]) \cup ToSet(s.topics[from])
  BY <1>1, <1>3, JoinReversed
<1> HIDE DEF joined, n
<1>5. n \in StoreType(V)
  <2>1. n.topics \in [Vid -> Seq(Topic)]
    BY <1>1, <1>2, <1>4, EmptyOrder
  <2>2. n.vid \in [Topic -> 0..MaxVid]
    BY <1>1, <1>2 DEF Vid
  <2>3. n.value \in [Vid -> {NoValue} \cup V]
    BY <1>1, <1>2
  <2> QED BY <1>2, <2>1, <2>2, <2>3
<1>6. Matching(n)
  <2>1. \A v \in Vid : IsInjective(n.topics[v])
    BY <1>2, <1>4, EmptyOrder DEF Consistent, Matching
  <2>2. ASSUME NEW t \in Topic, NEW v \in Vid
        PROVE  n.vid[t] = v <=> t \in ToSet(n.topics[v])
    <3>1. \A w \in Vid : s.vid[t] = w <=> t \in ToSet(s.topics[w])
      BY DEF Consistent, Matching
    <3>2. CASE v = to
      BY <3>1, <3>2, <1>2, <1>4
    <3>3. CASE v = from
      BY <3>1, <3>3, <1>2, EmptyOrder
    <3>4. CASE v # to /\ v # from
      BY <3>1, <3>4, <1>2
    <3> QED BY <3>2, <3>3, <3>4
  <2> QED BY <2>1, <2>2 DEF Matching
<1>7. NoOrphans(n)
  BY <1>1, <1>2, <1>4 DEF Pending, NoOrphans
<1>8. Distinct(n, p) /\ Unique(n, p) /\ NothingBeyond(n) /\ ~n.aborted
  BY <1>1, <1>2 DEF Consistent, Distinct, Unique, NothingBeyond
<1>9. Sound(n, p, V)
  BY <1>5, <1>6, <1>7, <1>8 DEF Sound, Consistent
<1> QED BY <1>9 DEF n

\* The value rewritten and the value it becomes have different vids, and the
\* topics of the former are still there when the latter has been stored.
LEMMA RewrittenIsElsewhere ==
    ASSUME NEW V, NEW s, NEW p, NEW v \in Vid, NEW val \in V,
           Sound(s, p, V), s.count < MaxVid, ~p.combines,
           s.value[v] # NoValue, s.value[v] # val
    PROVE  /\ VPutVid(s, p, val) # v
           /\ VPut(s, p, val, <<>>).topics[v] # <<>>
<1> DEFINE n == VPut(s, p, val, <<>>)
           w == VPutVid(s, p, val)
<1>0. s.topics[v] # <<>>
  BY DEF Sound, NoOrphans
<1>1. CASE IsStored(s, p, val)
  <2>1. s.value[w] = val /\ n = s
    BY <1>1 DEF VPutVid, IsStored, VPut
  <2> QED BY <2>1, <1>0
<1>2. CASE ~IsStored(s, p, val)
  <2>1. Hits(s, p, val) = {} /\ Collected(s, p, val) = {}
    BY <1>2, HitIsStored DEF Collected
  <2>2. /\ n = CreateValue(s, p, val, <<>>) /\ w = s.count + 1
    BY <1>2 DEF VPut, VPutVid
  <2>3. LET c == CreateValue(s, p, val, <<>>)
            new == s.count + 1
        IN /\ s.value[new] = NoValue
           /\ \A u \in Vid \ (Hits(s, p, val) \cup {new}) :
                  c.topics[u] = s.topics[u] /\ c.value[u] = s.value[u]
    <3>1. <<>> \in Seq(Topic) /\ IsInjective(<<>>)
          /\ ToSet(<<>>) = Collected(s, p, val)
      BY <2>1, EmptyOrder
    <3>2. ASSUME NEW order \in Seq(Topic), IsInjective(order),
                 ToSet(order) = Collected(s, p, val)
          PROVE  LET c == CreateValue(s, p, val, order)
                     new == s.count + 1
                 IN /\ s.value[new] = NoValue
                    /\ \A u \in Vid \ (Hits(s, p, val) \cup {new}) :
                         c.topics[u] = s.topics[u] /\ c.value[u] = s.value[u]
      BY <1>2, <3>2, CreateIsPending
    <3> QED BY <3>1, <3>2
  <2>4. w # v
    BY <2>2, <2>3
  <2>5. n.topics[v] = s.topics[v]
    BY <2>1, <2>2, <2>3, <2>4
  <2> QED BY <2>4, <2>5, <1>0
<1> QED BY <1>1, <1>2

\* _pstore_replace_topics_in_values keeps the stores sound: the topics of the
\* old vid move to the vid of the rewritten value.
LEMMA ReplaceValueKeepsSound ==
    ASSUME NEW V, NEW s, NEW p, NEW v \in Vid, NEW val \in V,
           Sound(s, p, V), s.count < MaxVid, ~p.combines,
           s.value[v] # NoValue, s.value[v] # val
    PROVE  Sound(ReplaceValue(s, p, v, val), p, V)
<1> DEFINE n == VPut(s, p, val, <<>>)
           w == VPutVid(s, p, val)
<1>1. Consistent(n, p, V) /\ Pending(n, w) /\ w \in Vid
  BY VPutIsPending DEF OrderFor
<1>2. w # v /\ n.topics[v] # <<>>
  BY RewrittenIsElsewhere
<1> HIDE DEF n, w
<1>3. Sound(MoveTopics(n, v, w), p, V)
  BY <1>1, <1>2, MoveKeepsSound
<1> QED BY <1>3 DEF ReplaceValue, n, w

\* The values the topics show in store s.
Shown(s) ==
    [t \in Topic |-> IF s.vid[t] = 0 THEN NoValue ELSE s.value[s.vid[t]]]

\* The topics whose value has an element in common with v.
Met(f, v) == {u \in Topic : f[u] # NoValue /\ f[u] \cap v # {}}

\* The assignment f, except that t is given v.
Given(f, t, v) == [f EXCEPT ![t] = v]

\* What v and the values it meets are together.
Together(f, v) == v \cup UNION {f[w] : w \in Met(f, v)}

\* PropertyMap's Unite, for any assignment f of values.
United(f, v, ts) ==
    [u \in Topic |-> IF u \in ts \/ u \in Met(f, v) THEN Together(f, v) ELSE f[u]]

\* Store n shows what s does, but t has been given v, with all that v meets if
\* values combine.
ShowsGiven(n, s, p, t, v) ==
    Shown(n) = IF p.combines THEN United(Shown(s), v, {t}) ELSE Given(Shown(s), t, v)

-----------------------------------------------------------------------------
(* What a store shows *)

\* A topic shows a value exactly if it has a vid.
LEMMA ShownValue ==
    ASSUME NEW V, NEW s, NEW p, Sound(s, p, V), NEW t \in Topic
    PROVE  /\ s.vid[t] \in 0..MaxVid
           /\ s.vid[t] = 0 => Shown(s)[t] = NoValue
           /\ s.vid[t] # 0 => /\ s.vid[t] \in Vid
                              /\ Shown(s)[t] = s.value[s.vid[t]]
                              /\ Shown(s)[t] \in V /\ Shown(s)[t] # NoValue
<1>1. s.vid \in [Topic -> 0..MaxVid]
  BY DEF Sound, Consistent, StoreType
<1>2. CASE s.vid[t] = 0
  BY <1>1, <1>2 DEF Shown
<1>3. CASE s.vid[t] # 0
  <2>1. s.vid[t] \in Vid /\ s.value[s.vid[t]] \in V
    BY <1>3, ValueOfTopic
  <2> QED BY <1>1, <1>3, <2>1 DEF Shown, Sound, Consistent, Fits
<1> QED BY <1>2, <1>3

\* Topics that show one value have one vid.
LEMMA OneVidForValue ==
    ASSUME NEW V, NEW s, NEW p, Sound(s, p, V), NEW t \in Topic, NEW u \in Topic,
           s.vid[t] # 0, s.vid[u] # 0, Shown(s)[t] = Shown(s)[u]
    PROVE  s.vid[t] = s.vid[u]
<1>1. /\ s.vid[t] \in Vid /\ s.vid[u] \in Vid
      /\ s.value[s.vid[t]] = s.value[s.vid[u]] /\ s.value[s.vid[t]] # NoValue
  BY ShownValue
<1> QED BY <1>1 DEF Sound, Consistent, Distinct

\* For a combining property, topics whose values meet show the same value.
LEMMA MeetingIsEqual ==
    ASSUME NEW V, NEW s, NEW p, Sound(s, p, V), p.combines, NEW t \in Topic, NEW u \in Topic,
           s.vid[t] # 0, s.vid[u] # 0, Shown(s)[t] \cap Shown(s)[u] # {}
    PROVE  Shown(s)[t] = Shown(s)[u]
<1>1. /\ s.vid[t] \in Vid /\ s.vid[u] \in Vid
      /\ Shown(s)[t] = s.value[s.vid[t]] /\ Shown(s)[u] = s.value[s.vid[u]]
      /\ s.value[s.vid[t]] # NoValue /\ s.value[s.vid[u]] # NoValue
  BY ShownValue
<1>2. s.vid[t] = s.vid[u]
  BY <1>1 DEF Sound, Consistent, Distinct
<1> QED BY <1>1, <1>2

\* insert_topic: the topic shows the value of the vid.
LEMMA InsertShows ==
    ASSUME NEW V, NEW s, NEW p, NEW t \in Topic, NEW v \in Vid,
           Consistent(s, p, V), Pending(s, v), s.vid[t] = 0
    PROVE  Shown(InsertTopic(s, t, v)) = Given(Shown(s), t, s.value[v])
<1>1. s.vid \in [Topic -> 0..MaxVid] /\ v # 0
  BY DEF Consistent, StoreType, Vid
<1>2. /\ VidSet(InsertTopic(s, t, v), s, t, v)
      /\ InsertTopic(s, t, v).value = s.value
  BY InsertKeepsSound
<1> QED BY <1>1, <1>2 DEF Shown, Given, VidSet

\* remove_topic: the topic shows no value; for the others nothing changes, since
\* the value goes only with the last topic.
LEMMA RemoveShows ==
    ASSUME NEW V, NEW s, NEW p, NEW t \in Topic, Sound(s, p, V), s.vid[t] # 0
    PROVE  Shown(RemoveTopic(s, t)) = Given(Shown(s), t, NoValue)
<1> DEFINE n == RemoveTopic(s, t)
           v == s.vid[t]
<1>1. /\ s \in StoreType(V) /\ s.vid \in [Topic -> 0..MaxVid]
      /\ s.value \in [Vid -> {NoValue} \cup V] /\ s.topics \in [Vid -> Seq(Topic)]
      /\ v \in Vid
  BY ValueOfTopic DEF Sound, Consistent, StoreType
<1>2. VidSet(n, s, t, 0)
  BY RemoveKeepsSound
<1>3. t \in ToSet(s.topics[v]) /\ s.topics[v] \in Seq(Topic)
  BY <1>1 DEF Sound, Consistent, Matching
<1>4. s.topics[v] # <<>>
  BY <1>3 DEF ToSet
<1>5. ASSUME NEW u \in Topic, u # t, s.vid[u] # 0
      PROVE  n.value[s.vid[u]] = s.value[s.vid[u]]
  <2>1. s.vid[u] \in Vid /\ u \in ToSet(s.topics[s.vid[u]])
    BY <1>1, <1>5, ValueOfTopic DEF Sound, Consistent, Matching
  <2>2. CASE Len(s.topics[v]) = 1
    <3>1. n = DropLast(s, t)
      BY <1>4, <2>2 DEF RemoveTopic
    <3>2. n.value = [s.value EXCEPT ![v] = NoValue]
      BY <1>1, <3>1 DEF DropLast, StoreType
    <3>3. s.vid[u] # v
      <4>1. DOMAIN s.topics[v] = {1}
        BY <1>3, <2>2
      <4> QED BY <1>3, <1>5, <2>1, <4>1 DEF ToSet
    <3> QED BY <1>1, <2>1, <3>2, <3>3
  <2>3. CASE Len(s.topics[v]) # 1
    <3>1. n = DropOne(s, t)
      BY <1>3, <1>4, <2>3 DEF RemoveTopic
    <3>2. n.value = s.value
      BY <1>1, <3>1 DEF DropOne, StoreType
    <3> QED BY <3>2
  <2> QED BY <2>2, <2>3
<1> QED BY <1>1, <1>2, <1>5 DEF Shown, Given, VidSet

-----------------------------------------------------------------------------
(* Storing a value *)

\* The topics that the scan of vput collects are those whose value meets the new
\* one, and what it combines is the union of what these show.
LEMMA CollectedIsMet ==
    ASSUME NEW V, NEW s, NEW p, NEW val \in V, Sound(s, p, V), p.combines
    PROVE  /\ Collected(s, p, val) = Met(Shown(s), val)
           /\ Combined(s, p, val) = Together(Shown(s), val)
<1> DEFINE hits == Hits(s, p, val)
           met == Met(Shown(s), val)
<1>1. \A v \in Vid : v \in hits <=> s.value[v] # NoValue /\ s.value[v] \cap val # {}
  BY DEF Hits, Meets
<1>2. \A u \in Topic : u \in met <=> s.vid[u] \in hits
  <2> SUFFICES ASSUME NEW u \in Topic PROVE u \in met <=> s.vid[u] \in hits
    OBVIOUS
  <2>1. CASE s.vid[u] = 0
    BY <2>1, ShownValue DEF Met, Hits, Vid
  <2>2. CASE s.vid[u] # 0
    BY <1>1, <2>2, ShownValue DEF Met
  <2> QED BY <2>1, <2>2
<1>3. \A v \in Vid : \A u \in ToSet(s.topics[v]) : u \in Topic /\ s.vid[u] = v
  <2>1. s.topics \in [Vid -> Seq(Topic)]
    BY DEF Sound, Consistent, StoreType
  <2>2. \A v \in Vid : ToSet(s.topics[v]) \subseteq Topic
    BY <2>1, ElementOfSeq DEF ToSet
  <2> QED BY <2>2 DEF Sound, Consistent, Matching
<1>4. \A u \in Topic : s.vid[u] \in hits => u \in ToSet(s.topics[s.vid[u]])
  BY DEF Sound, Consistent, Matching, Hits
<1>5. Collected(s, p, val) = met
  <2>1. \A u : u \in Collected(s, p, val) <=> \E v \in hits : u \in ToSet(s.topics[v])
    BY DEF Collected
  <2>2. hits \subseteq Vid /\ met \subseteq Topic
    BY DEF Hits, Met
  <2>3. ASSUME NEW u \in Collected(s, p, val) PROVE u \in met
    <3>1. PICK v \in hits : u \in ToSet(s.topics[v])
      BY <2>1
    <3>2. u \in Topic /\ s.vid[u] = v
      BY <1>3, <2>2, <3>1
    <3> QED BY <1>2, <3>2
  <2>4. ASSUME NEW u \in met PROVE u \in Collected(s, p, val)
    <3>1. u \in Topic /\ s.vid[u] \in hits
      BY <1>2, <2>2
    <3> QED BY <1>4, <2>1, <3>1
  <2> QED BY <2>3, <2>4
<1>6. \A v \in hits : \E u \in met : Shown(s)[u] = s.value[v]
  <2> SUFFICES ASSUME NEW v \in hits PROVE \E u \in met : Shown(s)[u] = s.value[v]
    OBVIOUS
  <2>1. v \in Vid /\ s.value[v] # NoValue
    BY DEF Hits
  <2>2. s.topics[v] # <<>> /\ s.topics[v] \in Seq(Topic)
    BY <2>1 DEF Sound, NoOrphans, Consistent, StoreType
  <2>3. s.topics[v][1] \in ToSet(s.topics[v])
    BY <2>2, EmptySeq DEF ToSet
  <2>4. s.topics[v][1] \in Topic /\ s.vid[s.topics[v][1]] = v
    BY <1>3, <2>1, <2>3
  <2>5. s.topics[v][1] \in met
    BY <1>2, <2>4
  <2> QED BY <2>1, <2>4, <2>5, ShownValue DEF Vid
<1>7. \A u \in met : s.vid[u] \in hits /\ Shown(s)[u] = s.value[s.vid[u]]
  BY <1>2, ShownValue DEF Met
<1>8. UNION {s.value[v] : v \in hits} = UNION {Shown(s)[u] : u \in met}
  BY <1>6, <1>7
<1> QED BY <1>5, <1>8 DEF Combined, Together

\* What the topics show after vput has created a value.
LEMMA CreateShows ==
    ASSUME NEW V, NEW s, NEW p, NEW val \in V, NEW order \in OrderFor(s, p, val),
           Sound(s, p, V), s.count < MaxVid, ~IsStored(s, p, val)
    PROVE  LET n == CreateValue(s, p, val, order)
               new == s.count + 1
           IN \A u \in Topic :
                Shown(n)[u] = IF u \in Collected(s, p, val) THEN n.value[new]
                              ELSE Shown(s)[u]
<1> DEFINE n == CreateValue(s, p, val, order)
           new == s.count + 1
<1>1. /\ s.vid \in [Topic -> 0..MaxVid] /\ s.topics \in [Vid -> Seq(Topic)]
      /\ s.value \in [Vid -> {NoValue} \cup V] /\ s.count \in 0..MaxVid
      /\ new \in Vid /\ new # 0
  BY StoreAssumption DEF Sound, Consistent, StoreType, Vid
<1>2. ToSet(order) = Collected(s, p, val)
  <2>1. Collected(s, p, val) \in SUBSET Topic
    BY DEF Collected, Hits, Sound, Consistent, StoreType, ToSet
  <2>2. CASE p.combines
    BY <2>1, <2>2, OrderIsArray DEF OrderFor
  <2>3. CASE ~p.combines
    BY <2>3, HitIsStored, EmptyOrder DEF OrderFor, Collected
  <2> QED BY <2>2, <2>3
<1>3. /\ n.vid = [t \in Topic |-> IF t \in ToSet(order) THEN new ELSE s.vid[t]]
      /\ \A v \in Vid \ (Hits(s, p, val) \cup {new}) : n.value[v] = s.value[v]
  BY DEF CreateValue
<1>4. s.value[new] = NoValue
  BY <1>1 DEF Sound, Consistent, NothingBeyond
<1> HIDE DEF n
<1>5. ASSUME NEW u \in Topic, u \notin Collected(s, p, val)
      PROVE  Shown(n)[u] = Shown(s)[u]
  <2>1. n.vid[u] = s.vid[u]
    BY <1>2, <1>3, <1>5
  <2>2. CASE s.vid[u] = 0
    BY <2>1, <2>2 DEF Shown
  <2>3. CASE s.vid[u] # 0
    <3>1. s.vid[u] \in Vid /\ s.value[s.vid[u]] # NoValue
      BY <2>3, ValueOfTopic DEF Sound, Consistent, Fits
    <3>2. s.vid[u] # new
      BY <1>4, <3>1
    <3>3. u \in ToSet(s.topics[s.vid[u]])
      BY <3>1 DEF Sound, Consistent, Matching
    <3>4. s.vid[u] \notin Hits(s, p, val)
      BY <1>5, <3>3 DEF Collected
    <3>5. n.value[s.vid[u]] = s.value[s.vid[u]]
      BY <1>3, <3>1, <3>2, <3>4
    <3> QED BY <2>1, <2>3, <3>5 DEF Shown
  <2> QED BY <2>2, <2>3
<1>6. ASSUME NEW u \in Topic, u \in Collected(s, p, val)
      PROVE  Shown(n)[u] = n.value[new]
  <2>1. n.vid[u] = new
    BY <1>2, <1>3, <1>6
  <2> QED BY <1>1, <2>1 DEF Shown
<1> QED BY <1>5, <1>6 DEF n

\* What vput stores: the value itself, or what it is combined to.
Stored(s, p, val) == IF p.combines THEN Combined(s, p, val) ELSE val

\* vput: the vid it returns has the value, and every topic whose value the new
\* one meets shows what they are combined to.
LEMMA VPutShows ==
    ASSUME NEW V, NEW s, NEW p, NEW val \in V, NEW order \in OrderFor(s, p, val),
           Sound(s, p, V), s.count < MaxVid
    PROVE  LET n == VPut(s, p, val, order)
           IN /\ n.value[VPutVid(s, p, val)] = Stored(s, p, val)
              /\ p.combines => Shown(n) = United(Shown(s), val, {})
              /\ ~p.combines => Shown(n) = Shown(s)
<1> DEFINE n == VPut(s, p, val, order)
           w == VPutVid(s, p, val)
<1>1. Shown(n) \in [Topic -> {Shown(n)[u] : u \in Topic}]
      /\ Shown(s) = [u \in Topic |-> Shown(s)[u]]
      /\ Shown(n) = [u \in Topic |-> Shown(n)[u]]
  BY DEF Shown
<1>2. /\ n.value[w] = Stored(s, p, val)
      /\ \A u \in Topic : Shown(n)[u] = IF u \in Collected(s, p, val)
                                        THEN Stored(s, p, val) ELSE Shown(s)[u]
  <2>1. CASE IsStored(s, p, val)
    <3>1. n = s /\ w \in Vid /\ Hits(s, p, val) = {w} /\ s.value[w] = val
      BY <2>1 DEF VPut, VPutVid, IsStored
    <3>2. Stored(s, p, val) = val
      BY <3>1 DEF Stored, Combined
    <3>3. ASSUME NEW u \in Topic, u \in Collected(s, p, val)
          PROVE  Shown(s)[u] = val
      <4>1. u \in ToSet(s.topics[w])
        BY <3>1, <3>3 DEF Collected
      <4>2. s.vid[u] = w
        BY <3>1, <4>1 DEF Sound, Consistent, Matching
      <4>3. w # 0
        BY <3>1 DEF Vid
      <4> QED BY <3>1, <4>2, <4>3 DEF Shown
    <3> HIDE DEF n, w
    <3> QED BY <3>1, <3>2, <3>3
  <2>2. CASE ~IsStored(s, p, val)
    <3>1. n = CreateValue(s, p, val, order) /\ w = s.count + 1
      BY <2>2 DEF VPut, VPutVid
    <3>2. s.count + 1 \in Vid
      BY StoreAssumption DEF Sound, Consistent, StoreType, Vid
    <3>3. n.value[w] = Stored(s, p, val)
      BY <3>1, <3>2 DEF CreateValue, Stored
    <3>4. \A u \in Topic : Shown(n)[u] = IF u \in Collected(s, p, val)
                                         THEN n.value[w] ELSE Shown(s)[u]
      BY <2>2, <3>1, CreateShows
    <3> QED BY <3>3, <3>4
  <2> QED BY <2>1, <2>2
<1> HIDE DEF n, w
<1>3. CASE p.combines
  <2>1. /\ Collected(s, p, val) = Met(Shown(s), val)
        /\ Stored(s, p, val) = Together(Shown(s), val)
    BY <1>3, CollectedIsMet DEF Stored
  <2>2. \A u \in Topic : Shown(n)[u] = United(Shown(s), val, {})[u]
    BY <1>2, <2>1 DEF United
  <2>3. Shown(n) = United(Shown(s), val, {})
    BY <1>1, <2>2 DEF United
  <2> QED BY <1>2, <1>3, <2>3 DEF n, w
<1>4. CASE ~p.combines
  <2>1. \A u \in Topic : Shown(n)[u] = Shown(s)[u]
    <3>1. CASE IsStored(s, p, val)
      BY <3>1 DEF n, VPut
    <3>2. CASE ~IsStored(s, p, val)
      <4>1. Collected(s, p, val) = {}
        BY <1>4, <3>2, HitIsStored DEF Collected
      <4> QED BY <1>2, <4>1
    <3> QED BY <3>1, <3>2
  <2>2. Shown(n) = Shown(s)
    BY <1>1, <2>1
  <2> QED BY <1>2, <1>4, <2>2 DEF n, w
<1> QED BY <1>3, <1>4

\* What put and replace have in common: the topic shows the value, with those
\* whose value it meets.
LEMMA StoreForShows ==
    ASSUME NEW V, NEW s, NEW p, NEW t \in Topic, NEW val \in V,
           NEW order \in OrderFor(s, p, val),
           Sound(s, p, V), s.count < MaxVid, s.vid[t] = 0
    PROVE  /\ Sound(StoreFor(s, p, t, val, order), p, V)
           /\ ShowsGiven(StoreFor(s, p, t, val, order), s, p, t, val)
<1> DEFINE n == VPut(s, p, val, order)
           w == VPutVid(s, p, val)
<1>1. Consistent(n, p, V) /\ Pending(n, w) /\ w \in Vid /\ n.vid[t] = 0
  BY VPutIsPending
<1>2. /\ n.value[w] = Stored(s, p, val)
      /\ p.combines => Shown(n) = United(Shown(s), val, {})
      /\ ~p.combines => Shown(n) = Shown(s)
  BY VPutShows
<1> HIDE DEF n, w
<1>3. Shown(StoreFor(s, p, t, val, order)) = Given(Shown(n), t, n.value[w])
  <2>1. Shown(InsertTopic(n, t, w)) = Given(Shown(n), t, n.value[w])
    BY <1>1, InsertShows
  <2> QED BY <2>1 DEF StoreFor, n, w
<1>4. ASSUME p.combines
      PROVE  ShowsGiven(StoreFor(s, p, t, val, order), s, p, t, val)
  <2>1. Stored(s, p, val) = Together(Shown(s), val)
    BY <1>4, CollectedIsMet DEF Stored
  <2>2. Given(United(Shown(s), val, {}), t, Stored(s, p, val))
           = United(Shown(s), val, {t})
    BY <2>1 DEF United, Given
  <2> QED BY <1>2, <1>3, <1>4, <2>2 DEF ShowsGiven
<1>5. ASSUME ~p.combines
      PROVE  ShowsGiven(StoreFor(s, p, t, val, order), s, p, t, val)
  BY <1>2, <1>3, <1>5 DEF Stored, ShowsGiven
<1> QED BY <1>4, <1>5, StoreForKeepsSound

-----------------------------------------------------------------------------
(* The functions of topicmap.c *)

\* A value that is taken from a topic and combined again leaves no trace.
LEMMA ForgottenUnites ==
    ASSUME NEW s, NEW v, NEW t \in Topic, Shown(s)[t] \subseteq v
    PROVE  United(Given(Shown(s), t, NoValue), v, {t}) = United(Shown(s), v, {t})
<1> DEFINE f == Shown(s)
           g == Given(f, t, NoValue)
<1>1. /\ f = [u \in Topic |-> f[u]] /\ g[t] = NoValue
      /\ \A u \in Topic : u # t => g[u] = f[u]
  BY DEF Shown, Given
<1> HIDE DEF f, g
<1>2. \A u \in Topic : u # t => (u \in Met(g, v) <=> u \in Met(f, v))
  BY <1>1 DEF Met
<1>3. t \notin Met(g, v)
  BY <1>1 DEF Met
<1>4. Met(g, v) \subseteq Topic /\ Met(f, v) \subseteq Topic
  BY DEF Met
<1>5. Together(g, v) = Together(f, v)
  <2>1. \A w \in Met(g, v) : w # t /\ w \in Met(f, v) /\ g[w] = f[w]
    BY <1>1, <1>2, <1>3, <1>4
  <2>2. \A w \in Met(f, v) : f[w] \subseteq v \/ (w \in Met(g, v) /\ g[w] = f[w])
    BY <1>1, <1>2, <1>4 DEF f
  <2> QED BY <2>1, <2>2 DEF Together
<1>6. \A u \in Topic : United(g, v, {t})[u] = United(f, v, {t})[u]
  BY <1>1, <1>2, <1>5 DEF United
<1>7. United(g, v, {t}) = United(f, v, {t})
  BY <1>6 DEF United
<1> QED BY <1>7 DEF f, g

\* Store n shows what s does after a put: a combining property shows the union,
\* any other keeps the first value.
ShowsPut(n, s, p, t, val) ==
    LET f == Shown(s)
    IN Shown(n) = IF p.combines
                  THEN United(f, IF f[t] # NoValue THEN f[t] \cup val ELSE val, {t})
                  ELSE IF f[t] # NoValue THEN f ELSE Given(f, t, val)

\* _pstore_put gives the topic the value, or what it is combined to.
LEMMA PutShows ==
    ASSUME NEW V, NEW s, NEW p, NEW t \in Topic, NEW val \in V,
           NEW order \in PutOrders(s, p, t, val),
           Sound(s, p, V), s.count < MaxVid
    PROVE  ShowsPut(Put(s, p, t, val, order), s, p, t, val)
<1> DEFINE f == Shown(s)
           n == Put(s, p, t, val, order)
<1>1. CASE s.vid[t] = 0
  <2>1. f[t] = NoValue
    BY <1>1, ShownValue
  <2>2. n = StoreFor(s, p, t, val, order)
    BY <1>1 DEF Put, HasValue, PutContradicts, Cleared, Wanted
  <2>3. order \in OrderFor(s, p, val)
    BY <1>1 DEF HasValue, Cleared, Wanted, PutOrders, OrderFor
  <2> HIDE DEF f, n
  <2>4. /\ Sound(StoreFor(s, p, t, val, order), p, V)
        /\ ShowsGiven(StoreFor(s, p, t, val, order), s, p, t, val)
    BY <1>1, <2>3, StoreForShows
  <2> QED BY <2>1, <2>2, <2>4 DEF f, n, ShowsGiven, ShowsPut
<1>2. CASE s.vid[t] # 0 /\ ~p.combines
  <2>1. f[t] # NoValue /\ n = s
    BY <1>2, ShownValue DEF Put, HasValue, PutContradicts
  <2> QED BY <1>2, <2>1 DEF ShowsPut
<1>3. CASE s.vid[t] # 0 /\ p.combines
  <2>1. /\ f[t] = s.value[s.vid[t]] /\ f[t] \in V /\ f[t] # NoValue
        /\ s.vid[t] \in Vid
    BY <1>3, ShownValue
  <2>2. CASE HasValue(s, t, val)
    <3>1. n = s /\ f[t] = val
      BY <2>1, <2>2 DEF Put, HasValue
    <3>2. f[t] \cup val = val
      BY <3>1
    <3>3. \A u \in Met(f, val) : u \in Topic /\ f[u] = val
      <4> SUFFICES ASSUME NEW u \in Met(f, val) PROVE u \in Topic /\ f[u] = val
        OBVIOUS
      <4>1. u \in Topic /\ f[u] # NoValue /\ f[u] \cap val # {}
        BY DEF Met
      <4>2. s.vid[u] # 0
        BY <4>1, ShownValue
      <4> QED BY <1>3, <3>1, <4>1, <4>2, MeetingIsEqual
    <3>4. Together(f, val) = val
      BY <3>3 DEF Together
    <3>5. f = [u \in Topic |-> f[u]]
      BY DEF Shown
    <3> HIDE DEF f, n
    <3>6. United(f, val, {t}) = [u \in Topic |-> f[u]]
      BY <3>1, <3>3, <3>4 DEF United
    <3>7. Shown(n) = United(f, val, {t})
      BY <3>1, <3>5, <3>6 DEF f
    <3> QED BY <1>3, <2>1, <3>2, <3>7 DEF f, n, ShowsPut
  <2>3. CASE ~HasValue(s, t, val)
    <3> DEFINE c == RemoveTopic(s, t)
               w == f[t] \cup val
    <3>1. /\ n = StoreFor(c, p, t, w, order) /\ order \in OrderFor(c, p, w)
      BY <1>3, <2>1, <2>3
         DEF Put, PutContradicts, Cleared, Wanted, PutOrders, OrderFor
    <3>2. Sound(c, p, V) /\ c.vid[t] = 0 /\ c.count < MaxVid
      <4>1. s.vid \in [Topic -> 0..MaxVid]
        BY DEF Sound, Consistent, StoreType
      <4>2. Sound(c, p, V) /\ VidSet(c, s, t, 0) /\ c.count = s.count
        BY <1>3, RemoveKeepsSound
      <4> HIDE DEF c
      <4> QED BY <4>1, <4>2 DEF VidSet
    <3>3. w \in V
      BY <1>3, <2>1, UnionIsValue DEF Sound, Consistent
    <3>4. Shown(c) = Given(f, t, NoValue)
      BY <1>3, RemoveShows
    <3>5. f[t] \subseteq w
      OBVIOUS
    <3>6. United(Given(f, t, NoValue), w, {t}) = United(f, w, {t})
      BY <3>5, ForgottenUnites
    <3> HIDE DEF c, w, f, n
    <3>7. Shown(n) = United(f, w, {t})
      <4>1. /\ Sound(StoreFor(c, p, t, w, order), p, V)
            /\ ShowsGiven(StoreFor(c, p, t, w, order), c, p, t, w)
        BY <3>1, <3>2, <3>3, StoreForShows
      <4> QED BY <1>3, <3>1, <3>4, <3>6, <4>1 DEF ShowsGiven
    <3> QED BY <1>3, <2>1, <3>7 DEF f, n, w, ShowsPut
  <2> QED BY <2>2, <2>3
<1> QED BY <1>1, <1>2, <1>3

\* normalize: of the topics that show one value exactly one goes on to show it.
LEMMA NormalizeShows ==
    ASSUME NEW V, NEW s, NEW p, Sound(s, p, V), ~IsNormalized(p, s)
    PROVE  LET f == Shown(s)
               n == NormalizeStore(p, s)
               keep == {t \in Topic : n.vid[t] # 0}
           IN /\ \A t \in keep : f[t] # NoValue
              /\ \A t \in Topic : f[t] # NoValue => \E u \in keep : f[u] = f[t]
              /\ \A t, u \in keep : f[t] = f[u] => t = u
              /\ Shown(n) = [t \in Topic |-> IF t \in keep THEN f[t] ELSE NoValue]
<1> DEFINE f == Shown(s)
           n == NormalizeStore(p, s)
           keep == {t \in Topic : n.vid[t] # 0}
<1>1. /\ s.vid \in [Topic -> 0..MaxVid] /\ s \in StoreType(V)
      /\ 0 \notin Vid
  BY DEF Sound, Consistent, StoreType, Vid
<1>2. Sound(n, p, V)
  BY NormalizeKeepsSound
<1>3. /\ \A t \in Topic : n.vid[t] = 0 \/ n.vid[t] = s.vid[t]
      /\ n.value = s.value /\ n.normalized = TRUE /\ p.sidp
  BY <1>1 DEF NormalizeStore, IsNormalized, StoreType
<1>4. /\ n.topics \in [Vid -> Seq(Topic)] /\ Matching(n) /\ NoOrphans(n)
      /\ \A v \in Vid : Len(n.topics[v]) <= 1
  BY <1>2, <1>3 DEF Sound, Consistent, StoreType, Unique
<1> HIDE DEF n
<1>5. \A t \in keep : /\ t \in Topic /\ n.vid[t] = s.vid[t] /\ s.vid[t] # 0
                      /\ f[t] # NoValue /\ s.vid[t] \in Vid
  BY <1>3, ShownValue
<1>6. ASSUME NEW t \in Topic, f[t] # NoValue PROVE \E u \in keep : f[u] = f[t]
  <2> DEFINE v == s.vid[t]
  <2>1. v \in Vid /\ v # 0 /\ s.value[v] = f[t]
    BY <1>6, ShownValue
  <2>2. n.topics[v] # <<>> /\ n.topics[v] \in Seq(Topic)
    BY <1>3, <1>4, <1>6, <2>1 DEF NoOrphans
  <2>3. n.topics[v][1] \in Topic /\ n.topics[v][1] \in ToSet(n.topics[v])
    BY <2>2, EmptySeq DEF ToSet
  <2>4. n.vid[n.topics[v][1]] = v
    BY <1>4, <2>1, <2>3 DEF Matching
  <2>5. n.topics[v][1] \in keep
    BY <2>1, <2>3, <2>4
  <2>6. f[n.topics[v][1]] = s.value[v]
    BY <1>5, <2>1, <2>4, <2>5, ShownValue
  <2> QED BY <2>1, <2>5, <2>6
<1>7. ASSUME NEW t \in keep, NEW u \in keep, f[t] = f[u] PROVE t = u
  <2> DEFINE v == s.vid[t]
  <2>1. v \in Vid /\ s.vid[u] = v
    BY <1>5, <1>7, OneVidForValue
  <2>2. t \in ToSet(n.topics[v]) /\ u \in ToSet(n.topics[v])
    BY <1>4, <1>5, <2>1 DEF Matching
  <2>3. n.topics[v] \in Seq(Topic) /\ Len(n.topics[v]) <= 1
    BY <1>4, <2>1
  <2>4. \A i \in DOMAIN n.topics[v] : i = 1
    BY <2>3
  <2> QED BY <2>2, <2>4 DEF ToSet
<1>8. Shown(n) = [t \in Topic |-> IF t \in keep THEN f[t] ELSE NoValue]
  <2>1. \A t \in Topic : Shown(n)[t] = IF t \in keep THEN f[t] ELSE NoValue
    <3> SUFFICES ASSUME NEW t \in Topic
                 PROVE  Shown(n)[t] = IF t \in keep THEN f[t] ELSE NoValue
      OBVIOUS
    <3>1. CASE t \in keep
      BY <1>3, <1>5, <3>1 DEF Shown
    <3>2. CASE t \notin keep
      BY <3>2 DEF Shown
    <3> QED BY <3>1, <3>2
  <2> HIDE DEF f, keep
  <2> QED BY <2>1 DEF Shown
<1> QED BY <1>5, <1>6, <1>7, <1>8 DEF n

\* The same for two topics of which only the first is given the union.
LEMMA TwoForgotten ==
    ASSUME NEW s, NEW v, NEW t \in Topic, NEW d \in Topic, t # d,
           Shown(s)[t] \subseteq v, Shown(s)[d] \subseteq v
    PROVE  United(Given(Given(Shown(s), t, NoValue), d, NoValue), v, {t})
              = Given(United(Shown(s), v, {t}), d, NoValue)
<1> DEFINE f == Shown(s)
           g == Given(Given(f, t, NoValue), d, NoValue)
<1>1. /\ g[t] = NoValue /\ g[d] = NoValue
      /\ \A u \in Topic \ {t, d} : g[u] = f[u]
  BY DEF Shown, Given
<1> HIDE DEF f, g
<1>2. \A u \in Topic \ {t, d} : u \in Met(g, v) <=> u \in Met(f, v)
  BY <1>1 DEF Met
<1>3. t \notin Met(g, v) /\ d \notin Met(g, v)
  BY <1>1 DEF Met
<1>4. Met(g, v) \subseteq Topic /\ Met(f, v) \subseteq Topic
  BY DEF Met
<1>5. Together(g, v) = Together(f, v)
  <2>1. \A w \in Met(g, v) : w \in Met(f, v) /\ g[w] = f[w]
    BY <1>1, <1>2, <1>3, <1>4
  <2>2. \A w \in Met(f, v) : f[w] \subseteq v \/ (w \in Met(g, v) /\ g[w] = f[w])
    BY <1>1, <1>2, <1>4 DEF f
  <2> QED BY <2>1, <2>2 DEF Together
<1>6. \A u \in Topic : United(g, v, {t})[u]
                          = IF u = d THEN NoValue ELSE United(f, v, {t})[u]
  <2> SUFFICES ASSUME NEW u \in Topic
               PROVE  United(g, v, {t})[u]
                        = IF u = d THEN NoValue ELSE United(f, v, {t})[u]
    OBVIOUS
  <2>1. CASE u = d
    BY <1>1, <1>3, <2>1 DEF United
  <2>2. CASE u = t
    BY <1>5, <2>2 DEF United
  <2>3. CASE u # d /\ u # t
    BY <1>1, <1>2, <1>5, <2>3 DEF United
  <2> QED BY <2>1, <2>2, <2>3
<1>7. United(g, v, {t}) = Given(United(f, v, {t}), d, NoValue)
  BY <1>6 DEF United, Given
<1> QED BY <1>7 DEF f, g

\* The assignment g is f after disap has given its value up: to stays, which has
\* none; for nothing; or to be combined with that of stays.
GivesUp(f, g, p, stays, disap) ==
    /\ f[disap] # NoValue
    /\ \/ /\ f[stays] = NoValue
          /\ g = Given(Given(f, stays, f[disap]), disap, NoValue)
       \/ /\ f[stays] # NoValue
          /\ f[stays] = f[disap] \/ p.topical
          /\ g = Given(f, disap, NoValue)
       \/ /\ f[stays] # NoValue
          /\ f[stays] # f[disap] /\ ~p.topical /\ p.combines
          /\ g = Given(United(f, f[stays] \cup f[disap], {stays}), disap, NoValue)

\* _pstore_replace_topics: nothing happens, or the disappearing topic gives its
\* value up in one of three ways.
LEMMA ReplaceShows ==
    ASSUME NEW V, NEW s, NEW p, NEW stays \in Topic, NEW disap \in Topic,
           stays # disap, ~(p.combines /\ p.topical),
           NEW order \in ReplaceOrders(s, p, stays, disap),
           Sound(s, p, V), s.count < MaxVid
    PROVE  LET n == ReplaceTopic(s, p, stays, disap, order)
           IN \/ /\ n = s
                 /\ s.vid[disap] = 0 \/ ReplaceContradicts(s, p, stays, disap)
              \/ GivesUp(Shown(s), Shown(n), p, stays, disap)
<1> DEFINE f == Shown(s)
           n == ReplaceTopic(s, p, stays, disap, order)
<1>0. s.vid \in [Topic -> 0..MaxVid]
  BY DEF Sound, Consistent, StoreType
<1>1. CASE s.vid[disap] = 0 \/ ReplaceContradicts(s, p, stays, disap)
  BY <1>1 DEF ReplaceTopic
<1>2. CASE s.vid[disap] # 0 /\ s.vid[stays] = 0
  <2> DEFINE v == s.vid[disap]
             i == InsertTopic(s, stays, v)
  <2>1. n = RemoveTopic(i, disap)
    BY <1>2 DEF ReplaceTopic, ReplaceContradicts, BothValued
  <2>2. /\ v \in Vid /\ s.value[v] # NoValue /\ f[disap] = s.value[v]
        /\ f[disap] # NoValue /\ f[stays] = NoValue
    BY <1>2, ShownValue
  <2>3. Consistent(s, p, V) /\ Pending(s, v)
    BY <2>2 DEF Sound, NoOrphans, Pending
  <2>4. Sound(i, p, V) /\ VidSet(i, s, stays, v)
    BY <1>2, <2>2, <2>3, InsertKeepsSound
  <2>5. Shown(i) = Given(f, stays, s.value[v])
    BY <1>2, <2>2, <2>3, InsertShows
  <2> HIDE DEF i
  <2>6. i.vid[disap] # 0
    BY <1>0, <1>2, <2>4 DEF VidSet
  <2>7. Shown(RemoveTopic(i, disap)) = Given(Shown(i), disap, NoValue)
    BY <2>4, <2>6, RemoveShows
  <2> HIDE DEF f, n
  <2>8. Shown(n) = Given(Given(f, stays, f[disap]), disap, NoValue)
    BY <2>1, <2>2, <2>5, <2>7
  <2> QED BY <2>2, <2>8 DEF GivesUp, f, n
<1>3. CASE /\ s.vid[disap] # 0 /\ s.vid[stays] # 0
           /\ BothValued(s, stays, disap) /\ p.combines
  <2> DEFINE r == RemoveTopic(s, stays)
             b == BothRemoved(s, stays, disap)
             j == JoinedValue(s, stays, disap)
  <2>1. n = StoreFor(b, p, stays, j, order)
    BY <1>3 DEF ReplaceTopic, ReplaceContradicts
  <2>2. Sound(r, p, V) /\ VidSet(r, s, stays, 0) /\ r.count = s.count
    BY <1>3, RemoveKeepsSound
  <2>3. Shown(r) = Given(f, stays, NoValue)
    BY <1>3, RemoveShows
  <2> HIDE DEF r
  <2>4. r.vid[disap] # 0 /\ b = RemoveTopic(r, disap)
    BY <1>0, <1>3, <2>2 DEF BothRemoved, r, VidSet
  <2>5. /\ Sound(b, p, V) /\ VidSet(b, r, disap, 0)
        /\ b.count = s.count /\ Shown(b) = Given(Shown(r), disap, NoValue)
    <3>1. /\ Sound(RemoveTopic(r, disap), p, V)
          /\ VidSet(RemoveTopic(r, disap), r, disap, 0)
          /\ RemoveTopic(r, disap).count = r.count
      BY <2>2, <2>4, RemoveKeepsSound
    <3>2. Shown(RemoveTopic(r, disap)) = Given(Shown(r), disap, NoValue)
      BY <2>2, <2>4, RemoveShows
    <3> HIDE DEF b
    <3> QED BY <2>2, <2>4, <3>1, <3>2
  <2>6. b.vid[stays] = 0 /\ b.count < MaxVid
    <3> HIDE DEF b
    <3> QED BY <1>0, <2>2, <2>5 DEF VidSet
  <2>7. /\ f[stays] = s.value[s.vid[stays]] /\ f[disap] = s.value[s.vid[disap]]
        /\ f[stays] # NoValue /\ f[disap] # NoValue
    BY <1>3, ShownValue
  <2>8. j \in V /\ j = f[stays] \cup f[disap]
    BY <1>3, <2>7, ValueOfTopic, UnionIsValue DEF JoinedValue, Sound, Consistent
  <2>9. order \in OrderFor(b, p, j)
    BY <1>3 DEF ReplaceOrders, OrderFor
  <2>10. f[stays] # f[disap]
    BY <1>3, OneVidForValue DEF BothValued
  <2>11. United(Given(Given(f, stays, NoValue), disap, NoValue), j, {stays})
            = Given(United(f, j, {stays}), disap, NoValue)
    <3>1. f[stays] \subseteq j /\ f[disap] \subseteq j
      BY <2>8
    <3> HIDE DEF j
    <3> QED BY <3>1, TwoForgotten
  <2> HIDE DEF f, n, b, j
  <2>12. Shown(StoreFor(b, p, stays, j, order)) = United(Shown(b), j, {stays})
    <3>1. Sound(b, p, V) /\ j \in V
      BY <2>5, <2>8
    <3>2. /\ Sound(StoreFor(b, p, stays, j, order), p, V)
          /\ ShowsGiven(StoreFor(b, p, stays, j, order), b, p, stays, j)
      BY <2>6, <2>9, <3>1, StoreForShows
    <3> QED BY <1>3, <3>2 DEF ShowsGiven
  <2>13. Shown(b) = Given(Given(f, stays, NoValue), disap, NoValue)
    BY <2>3, <2>5
  <2>14. Shown(n) = Given(United(f, f[stays] \cup f[disap], {stays}), disap, NoValue)
    BY <2>1, <2>8, <2>11, <2>12, <2>13
  <2> QED BY <1>3, <2>7, <2>10, <2>14 DEF GivesUp, f, n
<1>4. CASE /\ s.vid[disap] # 0 /\ s.vid[stays] # 0
           /\ ~ReplaceContradicts(s, p, stays, disap)
           /\ ~(BothValued(s, stays, disap) /\ p.combines)
  <2>1. n = RemoveTopic(s, disap)
    BY <1>4 DEF ReplaceTopic
  <2>2. /\ f[stays] = s.value[s.vid[stays]] /\ f[disap] = s.value[s.vid[disap]]
        /\ f[stays] # NoValue /\ f[disap] # NoValue
    BY <1>4, ShownValue
  <2>3. f[stays] = f[disap] \/ p.topical
    BY <1>4, <2>2 DEF BothValued, ReplaceContradicts
  <2>4. Shown(RemoveTopic(s, disap)) = Given(f, disap, NoValue)
    BY <1>4, RemoveShows
  <2> QED BY <2>1, <2>2, <2>3, <2>4 DEF GivesUp
<1> QED BY <1>1, <1>2, <1>3, <1>4

\* Store n shows what s does, but val for the value of v.
ShowsRewritten(n, s, v, val) ==
    Shown(n) = [t \in Topic |-> IF Shown(s)[t] = s.value[v] THEN val
                                ELSE Shown(s)[t]]

\* _pstore_replace_topics_in_values: the topics of the value rewritten show what
\* it has become.
LEMMA RewriteShows ==
    ASSUME NEW V, NEW s, NEW p, NEW v \in Vid, NEW val \in V,
           Sound(s, p, V), s.count < MaxVid, ~p.combines,
           s.value[v] # NoValue, s.value[v] # val
    PROVE  ShowsRewritten(ReplaceValue(s, p, v, val), s, v, val)
<1> DEFINE n == VPut(s, p, val, <<>>)
           w == VPutVid(s, p, val)
           m == MoveTopics(n, v, w)
<1>1. Consistent(n, p, V) /\ w \in Vid
  BY VPutIsPending DEF OrderFor
<1>2. n.value[w] = val /\ Shown(n) = Shown(s)
  <2>1. <<>> \in OrderFor(s, p, val)
    BY DEF OrderFor
  <2>2. n.value[w] = Stored(s, p, val) /\ Shown(n) = Shown(s)
    BY <2>1, VPutShows
  <2> QED BY <2>2 DEF Stored
<1>3. w # v /\ n.topics[v] # <<>>
  BY RewrittenIsElsewhere
<1>4. n.vid = s.vid
  <2>1. CASE IsStored(s, p, val)
    BY <2>1 DEF VPut
  <2>2. CASE ~IsStored(s, p, val)
    <3>1. n.vid = [t \in Topic |-> IF t \in ToSet(<<>>) THEN s.count + 1
                                   ELSE s.vid[t]]
      BY <2>2 DEF VPut, CreateValue
    <3>2. s.vid \in [Topic -> 0..MaxVid]
      BY DEF Sound, Consistent, StoreType
    <3> HIDE DEF n
    <3> QED BY <3>1, <3>2, EmptyOrder
  <2> QED BY <2>1, <2>2
<1>5. /\ n.value \in [Vid -> {NoValue} \cup V] /\ n \in StoreType(V)
      /\ n.vid \in [Topic -> 0..MaxVid] /\ 0 \notin Vid
  BY <1>1 DEF Consistent, StoreType, Vid
<1> HIDE DEF n, w
<1>6. /\ m.vid = [t \in Topic |-> IF n.vid[t] = v THEN w ELSE n.vid[t]]
      /\ m.value = [n.value EXCEPT ![v] = NoValue]
  BY <1>3, <1>5 DEF MoveTopics, StoreType
<1> HIDE DEF m
<1>7. ASSUME NEW t \in Topic
      PROVE  Shown(m)[t] = IF Shown(s)[t] = s.value[v] THEN val ELSE Shown(s)[t]
  <2>1. CASE s.vid[t] = v
    <3>1. Shown(s)[t] = s.value[v]
      BY <1>5, <2>1 DEF Shown
    <3>2. m.vid[t] = w /\ m.value[w] = val
      BY <1>1, <1>2, <1>3, <1>4, <1>5, <1>6, <2>1
    <3> QED BY <1>1, <1>5, <3>1, <3>2 DEF Shown
  <2>2. CASE s.vid[t] # v
    <3>1. Shown(s)[t] # s.value[v]
      <4>1. CASE s.vid[t] = 0
        BY <4>1, ShownValue
      <4>2. CASE s.vid[t] # 0
        <5>1. /\ s.vid[t] \in Vid /\ Shown(s)[t] = s.value[s.vid[t]]
              /\ Shown(s)[t] # NoValue
          BY <4>2, ShownValue
        <5> QED BY <2>2, <5>1 DEF Sound, Consistent, Distinct
      <4> QED BY <4>1, <4>2
    <3>2. Shown(m)[t] = Shown(n)[t]
      <4>1. m.vid[t] = n.vid[t] /\ n.vid[t] # v
        BY <1>4, <1>6, <2>2
      <4>2. n.vid[t] # 0 => m.value[n.vid[t]] = n.value[n.vid[t]]
        BY <1>5, <1>6, <4>1 DEF Vid
      <4> QED BY <4>1, <4>2 DEF Shown
    <3> QED BY <1>2, <3>1, <3>2
  <2> QED BY <2>1, <2>2
<1>8. Shown(m) = [t \in Topic |-> IF Shown(s)[t] = s.value[v] THEN val
                                  ELSE Shown(s)[t]]
  <2> DEFINE f == Shown(s)
             g == Shown(m)
  <2>1. g = [t \in Topic |-> g[t]]
    BY DEF Shown
  <2> HIDE DEF f, g
  <2>2. g = [t \in Topic |-> IF f[t] = s.value[v] THEN val ELSE f[t]]
    BY <1>7, <2>1 DEF f, g
  <2> QED BY <2>2 DEF f, g
<1> QED BY <1>8 DEF ReplaceValue, ShowsRewritten, m, n, w

-----------------------------------------------------------------------------
(* Which topics have a value, and which values there are *)

\* A sound store is sound over any other set of values that has its own.
LEMMA SoundOver ==
    ASSUME NEW W, NEW V, NEW s, NEW p, Sound(s, p, W), Fits(V, p),
           \A v \in Vid : s.value[v] # NoValue => s.value[v] \in V
    PROVE  Sound(s, p, V)
<1>1. s \in StoreType(W)
  BY DEF Sound, Consistent
<1>2. s.value \in [Vid -> {NoValue} \cup V]
  BY <1>1 DEF StoreType
<1>3. s \in StoreType(V)
  BY <1>1, <1>2 DEF StoreType
<1> QED BY <1>3 DEF Sound, Consistent

\* The topics that have a value.
Valued(s) == {t \in Topic : s.vid[t] # 0}

\* They are the topics that show one.
LEMMA ValuedIsShown ==
    ASSUME NEW V, NEW s, NEW p, Sound(s, p, V)
    PROVE  Valued(s) = {t \in Topic : Shown(s)[t] # NoValue}
BY ShownValue DEF Valued

\* A put gives a value to the topic alone.
LEMMA PutValues ==
    ASSUME NEW V, NEW s, NEW p, NEW t \in Topic, NEW val \in V,
           NEW order \in PutOrders(s, p, t, val),
           Sound(s, p, V), s.count < MaxVid
    PROVE  Valued(Put(s, p, t, val, order)) \subseteq Valued(s) \cup {t}
<1> DEFINE n == Put(s, p, t, val, order)
<1>1. Sound(n, p, V) /\ ShowsPut(n, s, p, t, val)
  BY PutKeepsSound, PutShows
<1> HIDE DEF n
<1>2. /\ Valued(n) = {u \in Topic : Shown(n)[u] # NoValue}
      /\ Valued(s) = {u \in Topic : Shown(s)[u] # NoValue}
  BY <1>1, ValuedIsShown
<1>3. ASSUME NEW u \in Topic, u # t, Shown(n)[u] # NoValue
      PROVE  Shown(s)[u] # NoValue
  <2> DEFINE f == Shown(s)
  <2>1. f = [w \in Topic |-> f[w]]
    BY DEF Shown
  <2> HIDE DEF f
  <2>2. Shown(n) = IF p.combines
                   THEN United(f, IF f[t] # NoValue THEN f[t] \cup val ELSE val, {t})
                   ELSE IF f[t] # NoValue THEN f ELSE Given(f, t, val)
    BY <1>1 DEF ShowsPut, f
  <2>3. ASSUME NEW v PROVE United(f, v, {t})[u] = f[u] \/ f[u] # NoValue
    BY <1>3 DEF United, Met
  <2>4. CASE p.combines
    BY <1>3, <2>2, <2>3, <2>4 DEF f
  <2>5. CASE ~p.combines
    <3>1. Given(f, t, val)[u] = f[u]
      BY <1>3, <2>1 DEF Given
    <3> QED BY <1>3, <2>2, <2>5, <3>1 DEF f
  <2> QED BY <2>4, <2>5
<1> QED BY <1>2, <1>3 DEF n

\* Normalizing gives no topic a value.
LEMMA NormalizeValues ==
    ASSUME NEW V, NEW s, NEW p, Sound(s, p, V)
    PROVE  Valued(NormalizeStore(p, s)) \subseteq Valued(s)
<1>1. s \in StoreType(V)
  BY DEF Sound, Consistent
<1>2. \A t \in Topic : NormalizeStore(p, s).vid[t] # 0 => s.vid[t] # 0
  BY <1>1 DEF NormalizeStore, StoreType
<1> QED BY <1>2 DEF Valued

\* Replacing a topic gives a value at most to the one that stays.
LEMMA ReplaceValues ==
    ASSUME NEW V, NEW s, NEW p, NEW stays \in Topic, NEW disap \in Topic,
           stays # disap, ~(p.combines /\ p.topical),
           NEW order \in ReplaceOrders(s, p, stays, disap),
           Sound(s, p, V), s.count < MaxVid
    PROVE  Valued(ReplaceTopic(s, p, stays, disap, order))
              \subseteq Valued(s) \cup {stays}
<1> DEFINE n == ReplaceTopic(s, p, stays, disap, order)
           f == Shown(s)
           g == Shown(n)
<1>1. Sound(n, p, V)
  BY ReplaceKeepsSound
<1>2. n = s \/ GivesUp(f, g, p, stays, disap)
  BY ReplaceShows
<1>3. f = [w \in Topic |-> f[w]]
  BY DEF Shown
<1> HIDE DEF n
<1>4. /\ Valued(n) = {u \in Topic : g[u] # NoValue}
      /\ Valued(s) = {u \in Topic : f[u] # NoValue}
  BY <1>1, ValuedIsShown
<1> HIDE DEF f, g
<1>5. ASSUME NEW u \in Topic, u # stays, g[u] # NoValue,
             GivesUp(f, g, p, stays, disap)
      PROVE  f[u] # NoValue
  <2>1. ASSUME NEW h, NEW v, h = [w \in Topic |-> h[w]]
        PROVE  u # disap => Given(h, disap, v)[u] = h[u]
    BY <2>1 DEF Given
  <2>2. ASSUME NEW v PROVE  Given(f, stays, v)[u] = f[u]
    BY <1>3, <1>5 DEF Given
  <2>3. ASSUME NEW v PROVE United(f, v, {stays})[u] = f[u] \/ f[u] # NoValue
    BY <1>5 DEF United, Met
  <2>4. \A v : /\ United(f, v, {stays}) = [w \in Topic |-> United(f, v, {stays})[w]]
               /\ Given(f, stays, v) = [w \in Topic |-> Given(f, stays, v)[w]]
    BY <1>3 DEF United, Given
  <2>5. CASE u = disap
    BY <1>5, <2>5 DEF GivesUp
  <2>6. CASE u # disap
    <3>1. g[u] = f[u] \/ f[u] # NoValue
      <4>1. CASE g = Given(Given(f, stays, f[disap]), disap, NoValue)
        <5>1. Given(Given(f, stays, f[disap]), disap, NoValue)[u]
                 = Given(f, stays, f[disap])[u]
          BY <2>1, <2>4, <2>6
        <5> QED BY <4>1, <5>1, <2>2
      <4>2. CASE g = Given(f, disap, NoValue)
        <5>1. Given(f, disap, NoValue)[u] = f[u]
          BY <1>3, <2>1, <2>6
        <5> QED BY <4>2, <5>1
      <4>3. CASE g = Given(United(f, f[stays] \cup f[disap], {stays}), disap, NoValue)
        <5>1. Given(United(f, f[stays] \cup f[disap], {stays}), disap, NoValue)[u]
                 = United(f, f[stays] \cup f[disap], {stays})[u]
          BY <2>1, <2>4, <2>6
        <5> QED BY <4>3, <5>1, <2>3
      <4> QED BY <1>5, <4>1, <4>2, <4>3 DEF GivesUp
    <3> QED BY <1>5, <3>1
  <2> QED BY <2>5, <2>6
<1>6. n = s \/ \A u \in Topic : u # stays /\ g[u] # NoValue => f[u] # NoValue
  BY <1>2, <1>5
<1> QED BY <1>4, <1>6 DEF n

\* The topic that disappears has no value then, unless the two contradict.
LEMMA ReplaceFrees ==
    ASSUME NEW V, NEW s, NEW p, NEW stays \in Topic, NEW disap \in Topic,
           stays # disap, ~(p.combines /\ p.topical),
           NEW order \in ReplaceOrders(s, p, stays, disap),
           Sound(s, p, V), s.count < MaxVid,
           ~ReplaceContradicts(s, p, stays, disap)
    PROVE  disap \notin Valued(ReplaceTopic(s, p, stays, disap, order))
<1> DEFINE n == ReplaceTopic(s, p, stays, disap, order)
           f == Shown(s)
           g == Shown(n)
<1>1. CASE n = s /\ s.vid[disap] = 0
  BY <1>1 DEF Valued
<1>2. CASE GivesUp(f, g, p, stays, disap)
  <2>1. Sound(n, p, V)
    BY ReplaceKeepsSound
  <2>2. f = [w \in Topic |-> f[w]]
    BY DEF Shown
  <2> HIDE DEF n
  <2>3. Valued(n) = {u \in Topic : g[u] # NoValue}
    BY <2>1, ValuedIsShown
  <2> HIDE DEF f, g
  <2>4. \A h, v : h = [w \in Topic |-> h[w]] => Given(h, disap, v)[disap] = v
    BY DEF Given
  <2>5. \A v : /\ United(f, v, {stays}) = [w \in Topic |-> United(f, v, {stays})[w]]
               /\ Given(f, stays, v) = [w \in Topic |-> Given(f, stays, v)[w]]
    BY <2>2 DEF United, Given
  <2>6. g[disap] = NoValue
    <3>1. CASE g = Given(Given(f, stays, f[disap]), disap, NoValue)
      BY <2>4, <2>5, <3>1
    <3>2. CASE g = Given(f, disap, NoValue)
      BY <2>2, <2>4, <3>2
    <3>3. CASE g = Given(United(f, f[stays] \cup f[disap], {stays}), disap, NoValue)
      BY <2>4, <2>5, <3>3
    <3> QED BY <1>2, <3>1, <3>2, <3>3 DEF GivesUp
  <2> QED BY <2>3, <2>6 DEF n
<1> QED BY <1>1, <1>2, ReplaceShows

\* Rewriting a value gives no topic one.
LEMMA RewriteValues ==
    ASSUME NEW V, NEW s, NEW p, NEW v \in Vid, NEW val \in V,
           Sound(s, p, V), s.count < MaxVid, ~p.combines,
           s.value[v] # NoValue, s.value[v] # val
    PROVE  Valued(ReplaceValue(s, p, v, val)) \subseteq Valued(s)
<1> DEFINE n == ReplaceValue(s, p, v, val)
<1>1. Sound(n, p, V) /\ ShowsRewritten(n, s, v, val)
  BY ReplaceValueKeepsSound, RewriteShows
<1> HIDE DEF n
<1>2. /\ Valued(n) = {u \in Topic : Shown(n)[u] # NoValue}
      /\ Valued(s) = {u \in Topic : Shown(s)[u] # NoValue}
  BY <1>1, ValuedIsShown
<1>3. ASSUME NEW u \in Topic, Shown(n)[u] # NoValue PROVE Shown(s)[u] # NoValue
  BY <1>1, <1>3 DEF ShowsRewritten
<1> QED BY <1>2, <1>3 DEF n

\* Store n holds what s does, but for the vid v, and nothing else but val.
LeavesOthers(n, s, v) ==
    \A u \in Vid \ {v} : s.value[u] # NoValue => n.value[u] = s.value[u]

AddsOnly(n, s, v, val) ==
    \A u \in Vid : n.value[u] # NoValue =>
        n.value[u] = val \/ (u # v /\ n.value[u] = s.value[u])

\* The values of the other vids stay as they are when one is rewritten, and no
\* other value comes.
LEMMA RewriteLeaves ==
    ASSUME NEW V, NEW s, NEW p, NEW v \in Vid, NEW val \in V,
           Sound(s, p, V), s.count < MaxVid, ~p.combines,
           s.value[v] # NoValue, s.value[v] # val
    PROVE  /\ LeavesOthers(ReplaceValue(s, p, v, val), s, v)
           /\ AddsOnly(ReplaceValue(s, p, v, val), s, v, val)
<1> DEFINE n == VPut(s, p, val, <<>>)
           w == VPutVid(s, p, val)
           m == MoveTopics(n, v, w)
<1>1. Consistent(n, p, V)
  BY VPutIsPending DEF OrderFor
<1>2. n.topics[v] # <<>>
  BY RewrittenIsElsewhere
<1>3. ASSUME NEW u \in Vid
      PROVE  /\ s.value[u] # NoValue => n.value[u] = s.value[u]
             /\ n.value[u] \in {s.value[u], val}
  <2>1. CASE IsStored(s, p, val)
    BY <2>1 DEF VPut
  <2>2. CASE ~IsStored(s, p, val)
    <3>1. Hits(s, p, val) = {}
      BY <2>2, HitIsStored
    <3>2. s.count \in Nat /\ s.value[s.count + 1] = NoValue
      <4>1. s.count \in Nat /\ s.count < MaxVid /\ MaxVid \in Nat
        BY StoreAssumption DEF Sound, Consistent, StoreType
      <4>2. s.count + 1 \in Vid /\ s.count + 1 > s.count
        BY <4>1 DEF Vid
      <4> QED BY <4>1, <4>2 DEF Sound, Consistent, NothingBeyond
    <3>3. n.value = [x \in Vid |->
                       IF x = s.count + 1
                       THEN IF p.combines THEN Combined(s, p, val) ELSE val
                       ELSE IF x \in Hits(s, p, val) THEN NoValue ELSE s.value[x]]
      BY <2>2 DEF VPut, CreateValue
    <3> HIDE DEF n
    <3> QED BY <3>1, <3>2, <3>3
  <2> QED BY <2>1, <2>2
<1>4. n \in StoreType(V)
  BY <1>1 DEF Consistent
<1> HIDE DEF n, w
<1>5. m.value = [n.value EXCEPT ![v] = NoValue]
  BY <1>2, <1>4 DEF MoveTopics, StoreType
<1>6. n.value \in [Vid -> {NoValue} \cup V]
  BY <1>4 DEF StoreType
<1> HIDE DEF m
<1>7. \A u \in Vid : m.value[u] = IF u = v THEN NoValue ELSE n.value[u]
  BY <1>5, <1>6
<1>8. LeavesOthers(m, s, v) /\ AddsOnly(m, s, v, val)
  BY <1>3, <1>7 DEF LeavesOthers, AddsOnly
<1> QED BY <1>8 DEF ReplaceValue, m, n, w

=============================================================================
