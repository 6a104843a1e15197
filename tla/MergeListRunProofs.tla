------------------------- MODULE MergeListRunProofs -------------------------
(***************************************************************************)
(* Which topics the merge lists bring together after any series of arrays, *)
(* for any number of topics and stores.                                    *)
(***************************************************************************)
EXTENDS MergeListRun, ListProofs

-----------------------------------------------------------------------------
(* The pieces of the finest partition *)

\* No set of g is cut by S.
Whole(S, g) == \A a \in g : a \cap S = {} \/ a \subseteq S

\* S is a smallest set that cuts none of g.
Piece(S, g) ==
    /\ S # {} /\ Whole(S, g)
    /\ \A T \in SUBSET S : T = {} \/ T = S \/ ~Whole(T, g)

\* A new set A that has topics of the piece M only, or of no piece at all when
\* M is empty, makes one piece with M; the other pieces stay pieces.
LEMMA JoinPieces ==
    ASSUME NEW g, NEW F, NEW A, A # {}, NEW M,
           \A X \in F : Piece(X, g),
           UNION F = UNION g,
           M = {} \/ M \in F,
           \A X \in F : X \cap A # {} <=> X = M
    PROVE  /\ Piece(A \cup M, g \cup {A})
           /\ \A X \in F : X # M => Piece(X, g \cup {A})
<1> DEFINE N == A \cup M
           h == g \cup {A}
<1>1. Whole(N, h)
  <2> SUFFICES ASSUME NEW a \in h, a \cap N # {} PROVE a \subseteq N
    BY DEF Whole
  <2>1. CASE a = A
    BY <2>1
  <2>2. CASE a \in g /\ a \cap M # {}
    <3>1. Whole(M, g)
      BY <2>2 DEF Piece
    <3> QED BY <2>2, <3>1 DEF Whole
  <2>3. CASE a \in g /\ a \cap M = {}
    <3>1. PICK x \in a : x \in A
      BY <2>3
    <3>2. PICK X \in F : x \in X
      BY <2>3, <3>1
    <3> QED BY <2>3, <3>1, <3>2
  <2> QED BY <2>1, <2>2, <2>3
<1>2. ASSUME NEW T \in SUBSET N, T # {}, T # N, Whole(T, h) PROVE FALSE
  <2>1. Whole(T, g) /\ (A \cap T = {} \/ A \subseteq T)
    BY <1>2 DEF Whole
  <2>2. CASE A \cap T = {}
    <3>1. T \subseteq M /\ M # {}
      BY <1>2, <2>2
    <3>2. T = M
      BY <1>2, <2>1, <3>1 DEF Piece
    <3> QED BY <2>2, <3>1, <3>2
  <2>3. CASE A \subseteq T
    <3> DEFINE U == N \ T
    <3>1. U \subseteq M /\ U # {} /\ M # {}
      BY <1>2, <2>3
    <3>2. Whole(U, g)
      <4> SUFFICES ASSUME NEW a \in g, a \cap U # {} PROVE a \subseteq U
        BY DEF Whole
      <4>1. a \subseteq N
        BY <1>1 DEF Whole
      <4>2. a \cap T = {}
        BY <2>1 DEF Whole
      <4> QED BY <4>1, <4>2
    <3>3. U = M
      <4> HIDE DEF U
      <4> QED BY <3>1, <3>2 DEF Piece
    <3>4. M \cap A # {}
      BY <3>1
    <3> QED BY <2>3, <3>3, <3>4
  <2> QED BY <2>1, <2>2, <2>3
<1>3. Piece(N, h)
  BY <1>1, <1>2 DEF Piece
<1>4. ASSUME NEW X \in F, X # M PROVE Piece(X, h)
  <2>1. X \cap A = {} /\ Piece(X, g)
    BY <1>4
  <2>2. Whole(X, h)
    <3>1. Whole(X, g)
      BY <2>1 DEF Piece
    <3> SUFFICES ASSUME NEW a \in h PROVE a \cap X = {} \/ a \subseteq X
      BY DEF Whole
    <3> QED BY <2>1, <3>1 DEF Whole
  <2>3. ASSUME NEW T \in SUBSET X, T # {}, T # X PROVE ~Whole(T, h)
    BY <2>1, <2>3 DEF Whole, Piece
  <2> QED BY <2>1, <2>2, <2>3 DEF Piece
<1> QED BY <1>3, <1>4

\* A family of pieces that together have all topics has all the pieces.
LEMMA AllPieces ==
    ASSUME NEW g, NEW F, \A X \in F : Piece(X, g), UNION F = UNION g
    PROVE  F = {S \in SUBSET UNION g : Piece(S, g)}
<1>1. F \subseteq {S \in SUBSET UNION g : Piece(S, g)}
  OBVIOUS
<1>2. ASSUME NEW S \in SUBSET UNION g, Piece(S, g) PROVE S \in F
  <2>1. PICK x \in S : TRUE
    BY <1>2 DEF Piece
  <2>2. PICK X \in F : x \in X
    OBVIOUS
  <2>3. Whole(S \cap X, g)
    <3>1. Whole(S, g) /\ Whole(X, g)
      BY <1>2 DEF Piece
    <3> SUFFICES ASSUME NEW a \in g, a \cap (S \cap X) # {}
                 PROVE  a \subseteq S \cap X
      BY DEF Whole
    <3>2. a \subseteq S /\ a \subseteq X
      BY <3>1 DEF Whole
    <3> QED BY <3>2
  <2>4. S \cap X # {} /\ S \cap X \in SUBSET S /\ S \cap X \in SUBSET X
    BY <2>2
  <2>5. S \cap X = S
    BY <1>2, <2>3, <2>4 DEF Piece
  <2>6. S \cap X = X
    BY <2>3, <2>4 DEF Piece
  <2> QED BY <2>5, <2>6
<1> QED BY <1>1, <1>2

-----------------------------------------------------------------------------
(* The invariant of a round of normalization *)

SetsOf(q) == {ToSet(q[i]) : i \in DOMAIN q}

\* The lists are the pieces, as long as no array has met two at once.
Pieces ==
    ~freed /\ ~bridged =>
        /\ \A X \in SetsOf(lists) : Piece(X, given)
        /\ UNION SetsOf(lists) = UNION given

ListInv ==
    /\ lists \in Seq(Lists(Topic))
    /\ Disjoint(lists)
    /\ freed \in BOOLEAN
    /\ unused \subseteq Topic
    /\ store \in 1..MaxStores
    /\ given \subseteq SUBSET Topic
    /\ bridged \in BOOLEAN
    /\ Pieces

\* There are no lists at first.
LEMMA InitLists == Init => ListInv
<1> SUFFICES ASSUME Init PROVE ListInv
  OBVIOUS
<1>1. lists = <<>> /\ DOMAIN lists = {} /\ lists \in Seq(Lists(Topic))
  BY DEF Init
<1>2. SetsOf(lists) = {}
  BY <1>1 DEF SetsOf
<1>3. UNION SetsOf(lists) = UNION given
  BY <1>2 DEF Init
<1>4. Pieces
  BY <1>2, <1>3 DEF Pieces
<1>5. store \in 1..MaxStores
  BY StoresAssumption DEF Init
<1> QED BY <1>1, <1>4, <1>5 DEF Init, ListInv, Disjoint

\* An array that does not meet two lists meets one or none.
LEMMA MeetsOneOrNone ==
    ASSUME ListInv, NEW array \in Lists(Topic), ~(Cardinality(Met(array)) > 1)
    PROVE  \E m \in 0..Len(lists) : MeetsOnly(lists, array, m)
<1>1. DOMAIN lists = 1..Len(lists) /\ Len(lists) \in Nat
  BY DEF ListInv
<1>2. IsFiniteSet(1..Len(lists))
  BY <1>1, FS_Interval
<1>3. IsFiniteSet(Met(array)) /\ Met(array) \subseteq 1..Len(lists)
  <2>1. Met(array) \subseteq 1..Len(lists)
    BY <1>1 DEF Met
  <2> QED BY <1>2, <2>1, FS_Subset
<1>4. Cardinality(Met(array)) = 0 \/ Cardinality(Met(array)) = 1
  <2>1. Cardinality(Met(array)) \in Nat
    BY <1>3, FS_CardinalityType
  <2> QED BY <2>1
<1>5. CASE Cardinality(Met(array)) = 0
  <2>1. Met(array) = {}
    BY <1>3, <1>5, FS_EmptySet
  <2>2. MeetsOnly(lists, array, 0)
    BY <1>1, <2>1 DEF MeetsOnly, Met
  <2> QED BY <1>1, <2>2
<1>6. CASE Cardinality(Met(array)) = 1
  <2>1. PICK m : Met(array) = {m}
    BY <1>3, <1>6, FS_Singleton
  <2>2. m \in 1..Len(lists)
    BY <1>3, <2>1
  <2>3. MeetsOnly(lists, array, m)
    BY <1>1, <2>1 DEF MeetsOnly, Met
  <2> QED BY <1>1, <2>2, <2>3
<1> QED BY <1>4, <1>5, <1>6

\* Handing over an array that meets at most one list keeps the pieces.
LEMMA HandOverKeepsPieces ==
    ASSUME ListInv, NEW array \in Lists(Topic), array # <<>>, HandOver(array)
    PROVE  Pieces'
<1> SUFFICES ASSUME ~freed', ~bridged'
             PROVE  /\ \A X \in SetsOf(lists') : Piece(X, given')
                    /\ UNION SetsOf(lists') = UNION given'
  BY DEF Pieces, SetsOf
<1> DEFINE A == ToSet(array)
           F == SetsOf(lists)
<1>1. /\ ~freed /\ ~bridged /\ ~(Cardinality(Met(array)) > 1)
      /\ lists' = AddMergeList(lists, array).lists
      /\ ~AddMergeList(lists, array).freed
      /\ given' = given \cup {A}
  BY DEF HandOver, ListInv
<1>2. PICK m \in 0..Len(lists) : MeetsOnly(lists, array, m)
  BY <1>1, MeetsOneOrNone
<1> DEFINE M == IF m = 0 THEN {} ELSE ToSet(lists[m])
<1>3. lists \in Seq(Lists(Topic)) /\ Disjoint(lists) /\ DOMAIN lists = 1..Len(lists)
      /\ Len(lists) \in Nat
  BY DEF ListInv
<1>4. \A X : X \in SetsOf(lists')
              <=> X = A \cup M \/ \E j \in 1..Len(lists) : j # m /\ X = ToSet(lists[j])
  <2> SUFFICES ASSUME NEW X
               PROVE  X \in SetsOf(lists')
                        <=> \/ X = A \cup M
                            \/ \E j \in 1..Len(lists) : j # m /\ X = ToSet(lists[j])
    OBVIOUS
  <2>1. PICK ls \in Seq(Lists(Topic)) : ls = lists
    BY <1>3
  <2>2. IsSetOf(X, AddMergeList(ls, array).lists)
             <=> \/ X = JoinedWith(ls, array, m)
                 \/ \E j \in 1..Len(ls) : j # m /\ X = ToSet(ls[j])
    <3>1. /\ Disjoint(ls) /\ m \in 0..Len(ls) /\ MeetsOnly(ls, array, m)
          /\ ~AddMergeList(ls, array).freed
      BY <1>1, <1>2, <1>3, <2>1
    <3> QED BY <3>1, AddJoins
  <2>3. X \in SetsOf(lists') <=> IsSetOf(X, AddMergeList(ls, array).lists)
    BY <1>1, <2>1 DEF SetsOf, IsSetOf
  <2> QED BY <2>1, <2>2, <2>3 DEF JoinedWith
<1>5. A # {}
  <2>1. array \in Seq(Topic) /\ 1 \in 1..Len(array)
    BY DEF Lists
  <2> QED BY <2>1, ElementInSet
<1>6. (\A X \in F : Piece(X, given)) /\ UNION F = UNION given
  BY <1>1 DEF ListInv, Pieces
<1>7. \A i \in 1..Len(lists) : ToSet(lists[i]) \in F
  BY <1>3 DEF SetsOf
<1>8. M = {} \/ M \in F
  BY <1>3, <1>7
<1>9. \A i \in 1..Len(lists) : i # m => ToSet(lists[i]) \cap A = {}
                                      /\ ToSet(lists[i]) # M
  <2> SUFFICES ASSUME NEW i \in 1..Len(lists), i # m
               PROVE  ToSet(lists[i]) \cap A = {} /\ ToSet(lists[i]) # M
    OBVIOUS
  <2>1. ToSet(lists[i]) \cap A = {}
    BY <1>2 DEF MeetsOnly
  <2>2. CASE m = 0
    BY <1>6, <1>7, <2>1, <2>2 DEF Piece
  <2>3. CASE m # 0
    <3>1. M \cap A # {}
      BY <1>2, <1>3, <2>3 DEF MeetsOnly
    <3> QED BY <2>1, <3>1
  <2> QED BY <2>1, <2>2, <2>3
<1>10. m # 0 => m \in 1..Len(lists) /\ M = ToSet(lists[m]) /\ M \cap A # {}
  BY <1>2, <1>3 DEF MeetsOnly
<1>11. \A X \in F : \E i \in 1..Len(lists) : X = ToSet(lists[i])
  BY <1>3 DEF SetsOf
<1> HIDE DEF A, F, M
<1>12. \A X \in F : X \cap A # {} <=> X = M
  <2> SUFFICES ASSUME NEW i \in 1..Len(lists)
               PROVE  ToSet(lists[i]) \cap A # {} <=> ToSet(lists[i]) = M
    BY <1>11
  <2>1. CASE i = m
    BY <1>3, <1>10, <2>1
  <2>2. CASE i # m
    BY <1>9, <2>2
  <2> QED BY <2>1, <2>2
<1>13. /\ Piece(A \cup M, given \cup {A})
       /\ \A X \in F : X # M => Piece(X, given \cup {A})
  BY <1>5, <1>6, <1>8, <1>12, JoinPieces
<1>14. \A X \in SetsOf(lists') : X = A \cup M \/ (X \in F /\ X # M)
  BY <1>4, <1>7, <1>9
<1>15. \A X \in F : X = M \/ X \in SetsOf(lists')
  <2> SUFFICES ASSUME NEW i \in 1..Len(lists), ToSet(lists[i]) # M
               PROVE  ToSet(lists[i]) \in SetsOf(lists')
    BY <1>11
  <2>1. i # m
    BY <1>10
  <2> QED BY <1>4, <2>1
<1>16. UNION SetsOf(lists') = UNION given'
  <2>1. UNION SetsOf(lists') = (UNION F) \cup A
    <3>1. A \cup M \in SetsOf(lists')
      BY <1>4
    <3>2. UNION SetsOf(lists') \subseteq (UNION F) \cup A
      BY <1>8, <1>14
    <3>3. A \subseteq UNION SetsOf(lists')
      BY <3>1
    <3>4. UNION F \subseteq UNION SetsOf(lists')
      BY <1>15, <3>1
    <3> QED BY <3>2, <3>3, <3>4
  <2>2. UNION given' = (UNION given) \cup A
    BY <1>1 DEF A
  <2> QED BY <1>6, <2>1, <2>2
<1>17. \A X \in SetsOf(lists') : Piece(X, given')
  BY <1>1, <1>13, <1>14 DEF A
<1> QED BY <1>16, <1>17

\* Every step keeps the invariant.
LEMMA ListsKept == ListInv /\ [Next]_vars => ListInv'
<1> SUFFICES ASSUME ListInv, [Next]_vars PROVE ListInv'
  OBVIOUS
<1>1. ASSUME NEW a \in Arrays, HandOver(a) PROVE ListInv'
  <2>1. a \in Lists(Topic) /\ a # <<>>
    BY ArraysAssumption DEF Lists
  <2>2. PICK array \in Lists(Topic) : array = a
    BY <2>1
  <2>3. PICK ls \in Seq(Lists(Topic)) : ls = lists
    BY DEF ListInv
  <2>4. /\ AddMergeList(ls, array).lists \in Seq(Lists(Topic))
        /\ AddMergeList(ls, array).freed \in BOOLEAN
    BY AddKeepsLists
  <2>5. Disjoint(AddMergeList(ls, array).lists)
    BY <2>3, AddKeepsDisjoint DEF ListInv
  <2>6. HandOver(array)
    BY <1>1, <2>2
  <2>7. Pieces'
    BY <2>1, <2>2, <2>6, HandOverKeepsPieces
  <2>8. ToSet(array) \subseteq Topic
    BY DEF Lists, ToSet
  <2>9. /\ lists' = AddMergeList(ls, array).lists
        /\ freed' = AddMergeList(ls, array).freed
        /\ unused' = unused \ ToSet(array)
        /\ given' = given \cup {ToSet(array)}
        /\ bridged' \in BOOLEAN /\ store' = store
    BY <2>3, <2>6 DEF HandOver
  <2> QED BY <2>4, <2>5, <2>7, <2>8, <2>9 DEF ListInv
<1>2. CASE NextStore
  <2>1. store' \in 1..MaxStores
    BY <1>2, StoresAssumption DEF NextStore, ListInv
  <2>2. Pieces'
    BY <1>2 DEF NextStore, ListInv, Pieces
  <2>3. lists' = lists /\ freed' = freed /\ unused' = Topic /\ given' = given
        /\ bridged' = bridged
    BY <1>2 DEF NextStore
  <2> QED BY <2>1, <2>2, <2>3 DEF ListInv
<1>3. CASE UNCHANGED vars
  BY <1>3 DEF vars, ListInv, Pieces
<1> QED BY <1>1, <1>2, <1>3 DEF Next

\* The invariant holds throughout.
LEMMA ListInvariance == Spec => []ListInv
BY InitLists, ListsKept, PTL DEF Spec

-----------------------------------------------------------------------------
(* The results *)

\* The variables have their types; in particular the stores never outnumber
\* the stores there are (tm_topicmap_normalize).
THEOREM ListsTyped == Spec => []TypeOK
<1>1. ListInv => TypeOK
  <2> SUFFICES ASSUME ListInv PROVE lists \in Seq(Seq(Topic))
    BY DEF ListInv, TypeOK
  <2>1. Lists(Topic) \subseteq Seq(Topic)
    BY DEF Lists
  <2> QED BY <2>1 DEF ListInv
<1> QED BY <1>1, ListInvariance, PTL

\* Whatever arrays the stores hand over and in which order, no topic is ever in
\* two merge lists or twice in one (tm_topicmap_add_mergelist), so that none is
\* disposed of twice.
THEOREM TopicsListedOnce == Spec => []NoTopicTwice
<1>1. ListInv => NoTopicTwice
  BY DEF ListInv, NoTopicTwice, Disjoint, Lists
<1> QED BY <1>1, ListInvariance, PTL

\* As long as no array has met two lists at once, the merge lists are the classes
\* of the finest partition that cuts no array (tm_topicmap_add_mergelist): the
\* topics merged are those that equal values connect, and no others.
THEOREM MergeListsAreClasses == Spec => []ListsAreClasses
<1>1. ListInv => ListsAreClasses
  <2> SUFFICES ASSUME ListInv, ~freed, ~bridged PROVE SetsOf(lists) = Classes
    BY DEF ListsAreClasses, SetsOf
  <2>1. \A S : Closed(S) <=> Whole(S, given)
    BY DEF Closed, Whole
  <2>2. \A S : Piece(S, given) <=> /\ S # {} /\ Closed(S)
                                  /\ \A T \in (SUBSET S) \ {{}, S} : ~Closed(T)
    BY <2>1 DEF Piece
  <2>3. Classes = {S \in SUBSET UNION given : Piece(S, given)}
    BY <2>2 DEF Classes
  <2>4. SetsOf(lists) = {S \in SUBSET UNION given : Piece(S, given)}
    BY AllPieces DEF ListInv, Pieces
  <2> QED BY <2>3, <2>4
<1> QED BY <1>1, ListInvariance, PTL

=============================================================================
