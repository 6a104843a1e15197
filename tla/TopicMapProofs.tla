--------------------------- MODULE TopicMapProofs ---------------------------
(***************************************************************************)
(* The invariants of TopicMap, for any number of topics, properties and    *)
(* calls: the stores of every property stay sound in every round of every  *)
(* loop, nothing refers to a topic that has been disposed of, and topics   *)
(* become one exactly if a chain of shared locators connects them.         *)
(***************************************************************************)
EXTENDS TopicMap, StoreOpsProofs

-----------------------------------------------------------------------------
(* The invariant *)

\* The values that the store of p may hold when T are the topics that live.
ValuesOver(p, T) ==
    IF p \in {ASidp, TSidp}
    THEN IF Forms = {} THEN {}
         ELSE IF p = ASidp THEN AssertionsOver(T) ELSE SUBSET T
    ELSE (SUBSET Things) \ {{}}

\* The store s of p is sound, and only topics of T have a value or are in one.
StoreOver(s, p, T) ==
    Sound(s, Kind[p], ValuesOver(p, T)) /\ Valued(s) \subseteq T

StoresOver(f, T) ==
    /\ f = [p \in Prop |-> f[p]]
    /\ \A p \in Prop : StoreOver(f[p], p, T)

\* Every merge list names two or more topics that live, none of them twice, and
\* no topic is in two lists.
ControlInv ==
    /\ last \in 0..Cardinality(Topic)
    /\ disposed \subseteq Created
    /\ lists \in LongLists(Live) /\ Disjoint(lists)
    /\ phase \in {"idle", "subject", "loop", "normalize", "replace", "values",
                  "rewrite", "dispose"}
    /\ at \in [prop : DOMAIN PropOrder, list : Nat, element : Nat]
    /\ rc \in {"ok", "contradicting"}
    /\ status \in {"ok", "aborted", "undefined"}
    /\ calls \in 0..MaxCalls
    /\ rep \in [Topic -> Topic]

\* The properties still to be added to the topic just created.
AddingInv == last \in Live /\ todo \in Seq(Literals) /\ todo # <<>>

\* The loops over the lists and over the elements behind the first are at an
\* element there is.
ListInv == at.list \in DOMAIN lists
ElementInv == at.element \in 2..Len(lists[at.list])

\* The vids still to be rewritten, each once, have values in which a topic that
\* disappears is left.
RewriteInv ==
    LET p == PropOrder[at.prop]
    IN /\ Kind[p].topical
       /\ todo \in Seq(Including(p, ToSet(Tail(lists[at.list]))))
       /\ IsInjective(todo) /\ todo # <<>>

\* What the loop the current call is in may rely on.
LoopInv ==
    /\ phase = "subject" => AddingInv
    /\ phase \in {"replace", "values", "rewrite"} => ListInv
    /\ phase = "replace" => ElementInv
    /\ phase = "rewrite" => RewriteInv

Inv ==
    /\ StoresOver(stores, Live)
    /\ ControlInv
    /\ status = "ok" => LoopInv

-----------------------------------------------------------------------------
(* Values over the topics that live *)

\* The topics are the numbers up to some bound.
LEMMA TopicNumbers ==
    /\ Cardinality(Topic) \in Nat
    /\ Topic = 1..Cardinality(Topic)
<1>1. Cardinality(Topic) \in Nat
  BY StoreAssumption, FS_CardinalityType
<1> QED BY <1>1, TopicMapAssumption

\* What an assertion over some topics is made of.
LEMMA AssertionParts ==
    ASSUME NEW T, NEW a \in AssertionsOver(T)
    PROVE  /\ a.type \in T
           /\ DOMAIN a.members \subseteq T
           /\ \A r \in DOMAIN a.members : a.members[r] \in T
           /\ a.members \in [DOMAIN a.members -> T]
           /\ a = [type |-> a.type, members |-> a.members]
<1>1. /\ a = [type |-> a.type, members |-> a.members] /\ a.type \in T
      /\ a.members \in UNION {[R -> T] : R \in SUBSET T}
  BY DEF AssertionsOver
<1>2. PICK R \in SUBSET T : a.members \in [R -> T]
  BY <1>1
<1> QED BY <1>1, <1>2

\* Such parts make one.
LEMMA AssertionMade ==
    ASSUME NEW T, NEW ty \in T, NEW R \in SUBSET T, NEW m \in [R -> T]
    PROVE  [type |-> ty, members |-> m] \in AssertionsOver(T)
<1>1. m \in UNION {[Q -> T] : Q \in SUBSET T}
  OBVIOUS
<1> QED BY <1>1 DEF AssertionsOver

\* An assertion over some topics is one over more.
LEMMA AssertionsGrow ==
    ASSUME NEW T, NEW U, T \subseteq U
    PROVE  AssertionsOver(T) \subseteq AssertionsOver(U)
<1> SUFFICES ASSUME NEW a \in AssertionsOver(T) PROVE a \in AssertionsOver(U)
  OBVIOUS
<1> DEFINE m == a.members
           ty == a.type
<1>1. /\ ty \in U /\ DOMAIN m \in SUBSET U /\ m \in [DOMAIN m -> T]
      /\ a = [type |-> ty, members |-> m]
  BY AssertionParts
<1> HIDE DEF m, ty
<1>2. m \in [DOMAIN m -> U]
  BY <1>1
<1>3. [type |-> ty, members |-> m] \in AssertionsOver(U)
  BY <1>1, <1>2, AssertionMade
<1> QED BY <1>1, <1>3

\* Likewise for every property.
LEMMA ValuesGrow ==
    ASSUME NEW p \in Prop, NEW T, NEW U, T \subseteq U
    PROVE  ValuesOver(p, T) \subseteq ValuesOver(p, U)
BY AssertionsGrow DEF ValuesOver

\* A property has values containing topics exactly if it is one of the two of the
\* core model, and these do not combine.
LEMMA TopicalKinds ==
    ASSUME NEW p \in Prop
    PROVE  /\ Kind[p].topical <=> p \in {ASidp, TSidp}
           /\ Kind[p].topical => ~Kind[p].combines
           /\ ~(Kind[p].combines /\ Kind[p].topical)
BY KindAssumption

\* The values of a property fit it.
LEMMA ValuesFit ==
    ASSUME NEW p \in Prop, NEW T \in SUBSET Topic
    PROVE  Fits(ValuesOver(p, T), Kind[p])
<1>1. CASE p \in {ASidp, TSidp}
  <2>1. ~Kind[p].combines
    BY <1>1, TopicalKinds
  <2>2. NoValue \notin ValuesOver(p, T)
    <3>1. CASE Forms = {}
      BY <1>1, <3>1 DEF ValuesOver
    <3>2. CASE Forms # {} /\ p = ASidp
      <4>1. NoValue \notin AssertionsOver(T)
        BY <3>2, NoValueAssumption, AssertionsGrow
      <4> QED BY <3>2, <4>1 DEF ValuesOver
    <3>3. CASE Forms # {} /\ p # ASidp
      <4>1. NoValue \notin SUBSET T
        BY <3>3, NoValueAssumption
      <4> QED BY <1>1, <3>3, <4>1 DEF ValuesOver
    <3> QED BY <3>1, <3>2, <3>3
  <2> QED BY <2>1, <2>2 DEF Fits
<1>2. CASE p \notin {ASidp, TSidp}
  <2>1. ValuesOver(p, T) = (SUBSET Things) \ {{}}
    BY <1>2 DEF ValuesOver
  <2>2. NoValue \notin SUBSET Things
    BY NoValueAssumption
  <2>3. ASSUME NEW S \in SUBSET ((SUBSET Things) \ {{}}), S # {}
        PROVE  UNION S \in (SUBSET Things) \ {{}}
    <3>1. PICK x \in S : x # {} /\ x \subseteq Things
      BY <2>3
    <3>2. UNION S # {} /\ UNION S \subseteq Things
      BY <2>3, <3>1
    <3> QED BY <3>2
  <2> QED BY <2>1, <2>2, <2>3 DEF Fits
<1> QED BY <1>1, <1>2

\* A value that contains none but the topics of U is a value over U.
LEMMA ValueOverFewer ==
    ASSUME NEW p \in Prop, NEW T, NEW U, NEW val \in ValuesOver(p, T),
           Kind[p].topical => TopicsIn(p, val) \subseteq U
    PROVE  val \in ValuesOver(p, U)
<1>1. CASE p \notin {ASidp, TSidp}
  BY <1>1 DEF ValuesOver
<1>2. CASE p = ASidp
  <2>1. Forms # {} /\ val \in AssertionsOver(T) /\ TopicsIn(p, val) \subseteq U
    BY <1>2, TopicalKinds DEF ValuesOver
  <2> DEFINE m == val.members
             ty == val.type
  <2>2. m \in [DOMAIN m -> T] /\ val = [type |-> ty, members |-> m]
    BY <2>1, AssertionParts
  <2>3. ty \in U /\ DOMAIN m \in SUBSET U /\ \A r \in DOMAIN m : m[r] \in U
    BY <1>2, <2>1 DEF TopicsIn
  <2> HIDE DEF m, ty
  <2>4. m \in [DOMAIN m -> U]
    BY <2>2, <2>3
  <2>5. [type |-> ty, members |-> m] \in AssertionsOver(U)
    BY <2>3, <2>4, AssertionMade
  <2> QED BY <1>2, <2>1, <2>2, <2>5 DEF ValuesOver
<1>3. CASE p = TSidp
  <2>1. ASidp # TSidp
    BY DEF ASidp, TSidp
  <2>2. Forms # {} /\ val \subseteq U
    BY <1>3, <2>1, TopicalKinds DEF ValuesOver, TopicsIn
  <2> QED BY <1>3, <2>1, <2>2 DEF ValuesOver
<1> QED BY <1>1, <1>2, <1>3

\* The topics in a value are among those it is a value over.
LEMMA TopicsInValue ==
    ASSUME NEW p \in Prop, Kind[p].topical, NEW T, NEW val \in ValuesOver(p, T)
    PROVE  TopicsIn(p, val) \subseteq T
<1>1. p \in {ASidp, TSidp} /\ ASidp # TSidp
  BY TopicalKinds DEF ASidp, TSidp
<1>2. CASE p = ASidp
  <2>1. val \in AssertionsOver(T)
    BY <1>2 DEF ValuesOver
  <2>2. /\ val.type \in T /\ DOMAIN val.members \subseteq T
        /\ \A r \in DOMAIN val.members : val.members[r] \in T
    BY <2>1, AssertionParts
  <2> QED BY <1>2, <2>2 DEF TopicsIn
<1>3. CASE p = TSidp
  BY <1>1, <1>3 DEF ValuesOver, TopicsIn
<1> QED BY <1>1, <1>2, <1>3

\* Stores over some topics are stores over more.
LEMMA WiderStores ==
    ASSUME NEW f, NEW T \in SUBSET Topic, NEW U \in SUBSET Topic, T \subseteq U,
           StoresOver(f, T)
    PROVE  StoresOver(f, U)
<1> SUFFICES ASSUME NEW p \in Prop PROVE StoreOver(f[p], p, U)
  BY DEF StoresOver
<1>1. Sound(f[p], Kind[p], ValuesOver(p, T)) /\ Valued(f[p]) \subseteq T
  BY DEF StoresOver, StoreOver
<1>2. Fits(ValuesOver(p, U), Kind[p])
  BY ValuesFit
<1>3. \A v \in Vid : f[p].value[v] # NoValue => f[p].value[v] \in ValuesOver(p, U)
  <2>1. f[p].value \in [Vid -> {NoValue} \cup ValuesOver(p, T)]
    BY <1>1 DEF Sound, Consistent, StoreType
  <2> QED BY <2>1, ValuesGrow
<1>4. Sound(f[p], Kind[p], ValuesOver(p, U))
  BY <1>1, <1>2, <1>3, SoundOver
<1> QED BY <1>1, <1>4 DEF StoreOver

\* Stores over some topics are stores over fewer, if no other is in them.
LEMMA NarrowerStores ==
    ASSUME NEW f, NEW T \in SUBSET Topic, NEW U \in SUBSET T, StoresOver(f, T),
           \A p \in Prop : \A t \in T \ U : f[p].vid[t] = 0,
           \A p \in Prop : Kind[p].topical =>
              \A v \in Vid : f[p].value[v] # NoValue =>
                 TopicsIn(p, f[p].value[v]) \cap (T \ U) = {}
    PROVE  StoresOver(f, U)
<1> SUFFICES ASSUME NEW p \in Prop PROVE StoreOver(f[p], p, U)
  BY DEF StoresOver
<1>1. Sound(f[p], Kind[p], ValuesOver(p, T)) /\ Valued(f[p]) \subseteq T
  BY DEF StoresOver, StoreOver
<1>2. Fits(ValuesOver(p, U), Kind[p])
  BY ValuesFit
<1>3. \A v \in Vid : f[p].value[v] # NoValue => f[p].value[v] \in ValuesOver(p, U)
  <2> SUFFICES ASSUME NEW v \in Vid, f[p].value[v] # NoValue
               PROVE  f[p].value[v] \in ValuesOver(p, U)
    OBVIOUS
  <2>1. f[p].value[v] \in ValuesOver(p, T)
    BY <1>1 DEF Sound, Consistent, StoreType
  <2>2. Kind[p].topical => TopicsIn(p, f[p].value[v]) \subseteq U
    BY <2>1, TopicsInValue
  <2> QED BY <2>1, <2>2, ValueOverFewer
<1>4. Sound(f[p], Kind[p], ValuesOver(p, U))
  BY <1>1, <1>2, <1>3, SoundOver
<1>5. Valued(f[p]) \subseteq U
  BY <1>1 DEF Valued
<1> QED BY <1>4, <1>5 DEF StoreOver

\* The store of one property changes.
LEMMA OneStore ==
    ASSUME NEW f, NEW g, NEW T, StoresOver(f, T), NEW p \in Prop, NEW s,
           StoreOver(s, p, T), g = [f EXCEPT ![p] = s]
    PROVE  StoresOver(g, T)
BY DEF StoresOver

-----------------------------------------------------------------------------
(* Adding subjects, properties and assertions *)

\* The topics that live are topics.
LEMMA LiveTopics ==
    ASSUME Inv
    PROVE  /\ last \in 0..Cardinality(Topic) /\ Cardinality(Topic) \in Nat
           /\ Created \in SUBSET Topic /\ Live \in SUBSET Topic
<1>1. last \in 0..Cardinality(Topic)
  BY DEF Inv, ControlInv
<1> QED BY <1>1, TopicNumbers DEF Created, Live

\* Where the loops begin, there is a property.
LEMMA StartTyped ==
    /\ Start \in [prop : DOMAIN PropOrder, list : Nat, element : Nat]
    /\ Start.prop = 1 /\ Start.list = 1 /\ Start.element = 2
<1>1. 1 \in DOMAIN PropOrder
  BY TopicMapAssumption
<1> QED BY <1>1 DEF Start

\* Lists of topics are lists of more topics.
LEMMA ListsGrow ==
    ASSUME NEW T, NEW U, T \subseteq U
    PROVE  LongLists(T) \subseteq LongLists(U)
<1>1. Lists(T) \subseteq Lists(U)
  BY DEF Lists
<1>2. Seq(Lists(T)) \subseteq Seq(Lists(U))
  BY <1>1
<1> QED BY <1>2 DEF LongLists

\* No lists at all are lists of several topics.
LEMMA NoLists ==
    ASSUME NEW S
    PROVE  <<>> \in LongLists(S) /\ Disjoint(<<>>)
BY DEF LongLists, Disjoint

\* Handing out a topic number leaves the stores and the lists, and the new topic
\* lives.
LEMMA NewTopicLives ==
    ASSUME Inv, NewTopic \in Topic, last' = NewTopic, disposed' = disposed
    PROVE  /\ last' \in 0..Cardinality(Topic) /\ disposed' \subseteq Created'
           /\ Live' \in SUBSET Topic /\ Live' = Live \cup {NewTopic}
           /\ Live \subseteq Live' /\ last' \in Live' /\ NewTopic \in Live'
           /\ StoresOver(stores, Live')
           /\ lists \in LongLists(Live')
<1>1. /\ last \in 0..Cardinality(Topic) /\ disposed \subseteq Created
      /\ StoresOver(stores, Live) /\ lists \in LongLists(Live)
  BY DEF Inv, ControlInv
<1>2. /\ NewTopic = last + 1 /\ NewTopic \in 1..Cardinality(Topic)
      /\ Cardinality(Topic) \in Nat
  BY TopicNumbers DEF NewTopic
<1>3. last' \in 0..Cardinality(Topic) /\ last' = last + 1
  BY <1>2
<1>4. Created' = Created \cup {last + 1} /\ last + 1 \notin Created
  BY <1>1, <1>3 DEF Created
<1>5. Live' = Live \cup {last + 1} /\ disposed' \subseteq Created'
  BY <1>1, <1>4 DEF Live
<1>6. Live' \in SUBSET Topic /\ Live \in SUBSET Topic
  BY <1>2, <1>5, LiveTopics
<1>7. PICK U \in SUBSET Topic : U = Live'
  BY <1>6
<1>8. Live \subseteq U
  BY <1>5, <1>7
<1>9. StoresOver(stores, U)
  BY <1>1, <1>6, <1>8, WiderStores
<1>10. lists \in LongLists(U)
  BY <1>1, <1>8, ListsGrow
<1> QED BY <1>2, <1>3, <1>5, <1>6, <1>7, <1>9, <1>10

\* A new topic, perhaps with properties to be added to it.
LEMMA AddSubjectKeepsInv ==
    ASSUME Inv, NEW subject \in Subjects, AddSubject(subject)
    PROVE  Inv'
<1>1. /\ phase = "idle" /\ status = "ok" /\ calls < MaxCalls
      /\ NewTopic \in Topic /\ last' = NewTopic
      /\ phase' = IF subject = <<>> THEN "idle" ELSE "subject"
      /\ todo' = subject /\ calls' = calls + 1 /\ rc' = "ok"
      /\ UNCHANGED <<stores, disposed, lists, at, status, rep>>
  BY DEF AddSubject, Idle, history
<1>2. /\ last' \in 0..Cardinality(Topic) /\ disposed' \subseteq Created'
      /\ last' \in Live' /\ StoresOver(stores, Live')
      /\ lists \in LongLists(Live')
  BY <1>1, NewTopicLives
<1>3. ControlInv'
  <2>1. calls' \in 0..MaxCalls
    BY <1>1, TopicMapAssumption DEF Inv, ControlInv
  <2>2. /\ at \in [prop : DOMAIN PropOrder, list : Nat, element : Nat]
        /\ rep \in [Topic -> Topic] /\ Disjoint(lists)
    BY DEF Inv, ControlInv
  <2> QED BY <1>1, <1>2, <2>1, <2>2 DEF ControlInv
<1>4. LoopInv'
  <2>1. subject \in Seq(Literals)
    BY KindAssumption
  <2>2. phase' = "subject" => AddingInv'
    BY <1>1, <1>2, <2>1 DEF AddingInv
  <2> QED BY <1>1, <2>2 DEF LoopInv
<1> QED BY <1>1, <1>2, <1>3, <1>4 DEF Inv

\* A put into the store of one property.
LEMMA PutIsOver ==
    ASSUME NEW f, NEW T \in SUBSET Topic, StoresOver(f, T), NEW p \in Prop,
           f[p].count < MaxVid, NEW t \in T, NEW val \in ValuesOver(p, T),
           NEW order \in PutOrders(f[p], Kind[p], t, val)
    PROVE  StoreOver(Put(f[p], Kind[p], t, val, order), p, T)
<1>1. Sound(f[p], Kind[p], ValuesOver(p, T)) /\ Valued(f[p]) \subseteq T
  BY DEF StoresOver, StoreOver
<1>2. t \in Topic
  OBVIOUS
<1>3. Sound(Put(f[p], Kind[p], t, val, order), Kind[p], ValuesOver(p, T))
  BY <1>1, <1>2, PutKeepsSound
<1>4. Valued(Put(f[p], Kind[p], t, val, order)) \subseteq Valued(f[p]) \cup {t}
  BY <1>1, <1>2, PutValues
<1> QED BY <1>1, <1>3, <1>4 DEF StoreOver

\* tm_topicmap_add_property_to_topic keeps the stores sound.
LEMMA AddPropertyKeeps ==
    ASSUME Inv, NEW t \in Live, NEW l \in Literals, AddProperty(t, l[1], l[2])
    PROVE  /\ StoresOver(stores', Live)
           /\ status' \in {"ok", "aborted"}
           /\ rc' \in {"ok", "contradicting"}
<1> DEFINE p == l[1]
           val == l[2]
<1>1. p \in Prop /\ ~Kind[p].topical /\ val # {} /\ val \subseteq Things
  BY KindAssumption DEF Things
<1>2. StoresOver(stores, Live) /\ Live \in SUBSET Topic
  BY LiveTopics DEF Inv
<1>3. val \in ValuesOver(p, Live)
  BY <1>1, TopicalKinds DEF ValuesOver
<1>4. /\ stores[p].count < MaxVid
      /\ status' \in {"ok", "aborted"} /\ rc' \in {"ok", "contradicting"}
  BY DEF AddProperty, MayStore
<1>5. PICK order \in PutOrders(stores[p], Kind[p], t, val) :
         stores' = [stores EXCEPT ![p] = Put(@, Kind[p], t, val, order)]
  BY DEF AddProperty
<1> HIDE DEF p, val
<1>6. StoreOver(Put(stores[p], Kind[p], t, val, order), p, Live)
  BY <1>1, <1>2, <1>3, <1>4, PutIsOver
<1>7. StoresOver(stores', Live)
  BY <1>1, <1>2, <1>5, <1>6, OneStore
<1> QED BY <1>4, <1>7

\* The next property of a subject.
LEMMA AddSubjectPropertyKeepsInv ==
    ASSUME Inv, AddSubjectProperty
    PROVE  Inv'
<1>1. /\ phase = "subject" /\ status = "ok"
      /\ AddProperty(last, Head(todo)[1], Head(todo)[2])
      /\ todo' = IF rc' = "ok" THEN Tail(todo) ELSE <<>>
      /\ phase' = IF todo' = <<>> THEN "idle" ELSE "subject"
      /\ UNCHANGED <<last, disposed, lists, at, calls, rep>>
  BY DEF AddSubjectProperty, Running
<1>2. last \in Live /\ todo \in Seq(Literals) /\ todo # <<>>
  BY <1>1 DEF Inv, LoopInv, AddingInv
<1>3. Head(todo) \in Literals /\ Tail(todo) \in Seq(Literals)
  BY <1>2
<1>4. /\ StoresOver(stores', Live) /\ status' \in {"ok", "aborted"}
      /\ rc' \in {"ok", "contradicting"}
  BY <1>1, <1>2, <1>3, AddPropertyKeeps
<1>5. Live' = Live /\ Created' = Created
  BY <1>1 DEF Live, Created
<1>6. ControlInv'
  BY <1>1, <1>4, <1>5 DEF Inv, ControlInv
<1>7. LoopInv'
  <2>1. todo' \in Seq(Literals)
    BY <1>1, <1>3
  <2>2. phase' = "subject" => AddingInv'
    BY <1>1, <1>2, <1>5, <2>1 DEF AddingInv
  <2> QED BY <1>1, <2>2 DEF LoopInv
<1> QED BY <1>4, <1>5, <1>6, <1>7 DEF Inv

\* A property added from outside.
LEMMA AddPropertyToTopicKeepsInv ==
    ASSUME Inv, NEW t \in Topic, NEW l \in Literals,
           AddPropertyToTopic(t, l[1], l[2])
    PROVE  Inv'
<1>1. /\ phase = "idle" /\ status = "ok" /\ calls < MaxCalls /\ t \in Live
      /\ AddProperty(t, l[1], l[2]) /\ calls' = calls + 1
      /\ UNCHANGED <<last, disposed, lists, phase, at, todo, rep>>
  BY DEF AddPropertyToTopic, Idle
<1>2. /\ StoresOver(stores', Live) /\ status' \in {"ok", "aborted"}
      /\ rc' \in {"ok", "contradicting"}
  BY <1>1, AddPropertyKeeps
<1>3. Live' = Live /\ Created' = Created
  BY <1>1 DEF Live, Created
<1>4. ControlInv'
  <2>1. calls' \in 0..MaxCalls
    BY <1>1, TopicMapAssumption DEF Inv, ControlInv
  <2> QED BY <1>1, <1>2, <1>3, <2>1 DEF Inv, ControlInv
<1>5. LoopInv'
  BY <1>1 DEF LoopInv
<1> QED BY <1>2, <1>3, <1>4, <1>5 DEF Inv

\* tm_topicmap_add_topic_assertion puts into two stores.
LEMMA TwoPuts ==
    ASSUME NEW f, NEW T \in SUBSET Topic, StoresOver(f, T),
           {ASidp, TSidp} \subseteq Prop, Forms # {},
           f[ASidp].count < MaxVid, f[TSidp].count < MaxVid,
           NEW a \in T, NEW asidp \in AssertionsOver(T), NEW g,
           g = [f EXCEPT
                  ![ASidp] = Put(@, Kind[ASidp], a, asidp, <<>>),
                  ![TSidp] = Put(@, Kind[TSidp], asidp.type, DOMAIN asidp.members,
                                 <<>>)]
    PROVE  StoresOver(g, T)
<1> DEFINE x == Put(f[ASidp], Kind[ASidp], a, asidp, <<>>)
           y == Put(f[TSidp], Kind[TSidp], asidp.type, DOMAIN asidp.members, <<>>)
           h == [f EXCEPT ![ASidp] = x]
<1>1. ASidp # TSidp /\ ASidp \in Prop /\ TSidp \in Prop
  BY DEF ASidp, TSidp
<1>2. /\ asidp \in ValuesOver(ASidp, T)
      /\ DOMAIN asidp.members \in ValuesOver(TSidp, T) /\ asidp.type \in T
  BY <1>1, AssertionParts DEF ValuesOver
<1>3. \A p \in {ASidp, TSidp} : \A s, t, val : <<>> \in PutOrders(s, Kind[p], t, val)
  BY <1>1, TopicalKinds DEF PutOrders
<1>4. StoreOver(x, ASidp, T)
  BY <1>1, <1>2, <1>3, PutIsOver
<1>5. StoreOver(y, TSidp, T)
  <2>1. PICK val \in ValuesOver(TSidp, T) : val = DOMAIN asidp.members
    BY <1>2
  <2>2. PICK t \in T : t = asidp.type
    BY <1>2
  <2>3. <<>> \in PutOrders(f[TSidp], Kind[TSidp], t, val)
    BY <1>3
  <2>4. StoreOver(Put(f[TSidp], Kind[TSidp], t, val, <<>>), TSidp, T)
    BY <1>1, <2>3, PutIsOver
  <2> QED BY <2>1, <2>2, <2>4
<1>6. g = [h EXCEPT ![TSidp] = y]
  BY <1>1 DEF StoresOver
<1> HIDE DEF x, y
<1>7. StoresOver(h, T)
  BY <1>1, <1>4, OneStore
<1> HIDE DEF h
<1> QED BY <1>1, <1>5, <1>6, <1>7, OneStore

\* An assertion, on a topic there is or on a new one.
LEMMA AddAssertionKeepsInv ==
    ASSUME Inv, NEW a \in Topic, NEW asidp \in Forms, AddAssertion(a, asidp)
    PROVE  Inv'
<1>1. /\ phase = "idle" /\ status = "ok" /\ calls < MaxCalls
      /\ asidp.type \in Live /\ a \in Live \cup {NewTopic}
      /\ \A r \in DOMAIN asidp.members : r \in Live /\ asidp.members[r] \in Live
      /\ last' = IF a = NewTopic THEN NewTopic ELSE last
      /\ stores[ASidp].count < MaxVid /\ stores[TSidp].count < MaxVid
      /\ calls' = calls + 1
      /\ UNCHANGED <<disposed, lists, phase, at, todo, rep>>
  BY DEF AddAssertion, Idle, MayStore
<1>2. /\ Forms # {} /\ {ASidp, TSidp} \subseteq Prop
      /\ asidp \in AssertionsOver(Topic)
  BY FormsAssumption
<1>3. /\ Live' \in SUBSET Topic /\ Live \subseteq Live' /\ a \in Live'
      /\ StoresOver(stores, Live') /\ lists \in LongLists(Live')
      /\ last' \in 0..Cardinality(Topic) /\ disposed' \subseteq Created'
  <2>1. CASE a = NewTopic
    <3>1. last' = NewTopic /\ disposed' = disposed /\ NewTopic \in Topic
      BY <1>1, <2>1
    <3> QED BY <2>1, <3>1, NewTopicLives
  <2>2. CASE a # NewTopic
    <3>1. last' = last /\ disposed' = disposed /\ a \in Live
      BY <1>1, <2>2
    <3>2. Live' = Live /\ Created' = Created
      BY <3>1 DEF Live, Created
    <3> QED BY <3>1, <3>2, LiveTopics DEF Inv, ControlInv
  <2> QED BY <2>1, <2>2
<1>4. asidp \in AssertionsOver(Live')
  <2> DEFINE m == asidp.members
             ty == asidp.type
  <2>1. m \in [DOMAIN m -> Topic] /\ asidp = [type |-> ty, members |-> m]
    BY <1>2, AssertionParts
  <2>2. PICK T \in SUBSET Topic : T = Live'
    BY <1>3
  <2>3. ty \in T /\ DOMAIN m \in SUBSET T /\ \A r \in DOMAIN m : m[r] \in T
    BY <1>1, <1>3, <2>2
  <2> HIDE DEF m, ty
  <2>4. m \in [DOMAIN m -> T]
    BY <2>1, <2>3
  <2>5. [type |-> ty, members |-> m] \in AssertionsOver(T)
    BY <2>3, <2>4, AssertionMade
  <2> QED BY <2>1, <2>2, <2>5
<1>5. /\ StoresOver(stores', Live')
      /\ status' \in {"ok", "aborted"} /\ rc' \in {"ok", "contradicting"}
  <2>1. CASE stores[ASidp].vid[a] # 0
    <3>1. status' = "aborted" /\ UNCHANGED <<stores, rc>>
      BY <2>1 DEF AddAssertion
    <3> QED BY <1>3, <3>1 DEF Inv, ControlInv
  <2>2. CASE ~(stores[ASidp].vid[a] # 0)
    <3>1. /\ stores' = [stores EXCEPT
                ![ASidp] = Put(@, Kind[ASidp], a, asidp, <<>>),
                ![TSidp] = Put(@, Kind[TSidp], asidp.type, DOMAIN asidp.members,
                               <<>>)]
          /\ rc' \in {"ok", "contradicting"} /\ status' \in {"ok", "aborted"}
      BY <2>2 DEF AddAssertion
    <3>2. PICK T \in SUBSET Topic : T = Live'
      BY <1>3
    <3>3. StoresOver(stores', T)
      BY <1>1, <1>2, <1>3, <1>4, <3>1, <3>2, TwoPuts
    <3> QED BY <3>1, <3>2, <3>3
  <2> QED BY <2>1, <2>2
<1>6. ControlInv'
  <2>1. calls' \in 0..MaxCalls
    BY <1>1, TopicMapAssumption DEF Inv, ControlInv
  <2>2. /\ at \in [prop : DOMAIN PropOrder, list : Nat, element : Nat]
        /\ rep \in [Topic -> Topic] /\ Disjoint(lists)
    BY DEF Inv, ControlInv
  <2> QED BY <1>1, <1>3, <1>5, <2>1, <2>2 DEF ControlInv
<1>7. LoopInv'
  BY <1>1 DEF LoopInv
<1> QED BY <1>5, <1>6, <1>7 DEF Inv

-----------------------------------------------------------------------------
(* The loops of tm_topicmap_fully_merge *)

\* fully_merge is called.
LEMMA FullyMergeKeepsInv ==
    ASSUME Inv, FullyMerge
    PROVE  Inv'
<1>1. /\ phase = "idle" /\ status = "ok" /\ calls < MaxCalls
      /\ phase' = "loop" /\ calls' = calls + 1
      /\ UNCHANGED <<stores, last, disposed, lists, at, todo, rc, status, rep>>
  BY DEF FullyMerge, Idle, core, history
<1>2. Live' = Live /\ Created' = Created
  BY <1>1 DEF Live, Created
<1>3. calls' \in 0..MaxCalls
  BY <1>1, TopicMapAssumption DEF Inv, ControlInv
<1>4. ControlInv'
  BY <1>1, <1>2, <1>3 DEF Inv, ControlInv
<1>5. LoopInv'
  BY <1>1 DEF LoopInv
<1> QED BY <1>1, <1>2, <1>4, <1>5 DEF Inv

\* The head of its loop.
LEMMA WhileKeepsInv ==
    ASSUME Inv, WhileNotNormalized
    PROVE  Inv'
<1>1. /\ phase = "loop" /\ status = "ok" /\ at' = Start
      /\ phase' \in {"idle", "loop", "normalize"}
      /\ rc' \in {rc, "ok"} /\ status' \in {"ok", "aborted"}
      /\ UNCHANGED <<stores, last, disposed, lists, todo, calls, rep>>
  BY DEF WhileNotNormalized, Running, Return, core, history
<1>2. Live' = Live /\ Created' = Created
  BY <1>1 DEF Live, Created
<1>3. ControlInv'
  BY <1>1, <1>2, StartTyped DEF Inv, ControlInv
<1>4. LoopInv'
  BY <1>1 DEF LoopInv
<1> QED BY <1>1, <1>2, <1>3, <1>4 DEF Inv

\* The properties have stores, in either order of the loops.
LEMMA PropsInOrder ==
    ASSUME NEW i \in DOMAIN PropOrder
    PROVE  PropOrder[i] \in Prop /\ NormalizeOrder[i] \in Prop
<1>1. /\ PropOrder \in Seq(Prop) /\ DOMAIN PropOrder = 1..Len(PropOrder)
      /\ Len(PropOrder) \in Nat
  BY TopicMapAssumption
<1>2. NormalizeOrder = [k \in 1..Len(PropOrder) |-> PropOrder[Len(PropOrder) - k + 1]]
  BY DEF NormalizeOrder, Reverse
<1>3. Len(PropOrder) - i + 1 \in 1..Len(PropOrder)
  BY <1>1
<1>4. NormalizeOrder[i] = PropOrder[Len(PropOrder) - i + 1]
  BY <1>1, <1>2
<1> QED BY <1>1, <1>3, <1>4

\* What the loop of _mempropertystore_normalize carries along.
Handed(S) ==
    {h \in [lists : LongLists(S), freed : BOOLEAN] : Disjoint(h.lists)}

\* A topic array keeps the lists long and apart.
LEMMA HandOverKeeps ==
    ASSUME NEW S, NEW acc \in Handed(S), NEW array \in Lists(S)
    PROVE  HandOver(acc, array) \in Handed(S)
<1>1. CASE acc.freed \/ Len(array) <= 1
  BY <1>1 DEF HandOver
<1>2. CASE ~(acc.freed \/ Len(array) <= 1)
  <2> DEFINE new == AddMergeList(acc.lists, array)
  <2>1. acc.lists \in LongLists(S) /\ Disjoint(acc.lists)
    BY DEF Handed
  <2>2. PICK ls \in LongLists(S) : ls = acc.lists
    BY <2>1
  <2>3. Len(array) > 1
    BY <1>2 DEF Lists
  <2>4. new.lists \in LongLists(S) /\ new.freed \in BOOLEAN
    BY <2>2, <2>3, AddKeepsLong
  <2>7. Disjoint(new.lists)
    BY <2>1, <2>2, AddKeepsDisjoint DEF LongLists
  <2>5. new = [lists |-> new.lists, freed |-> new.freed]
    BY DEF AddMergeList, FoldLeftDomain, FoldLeft, MapThenFoldSet
  <2> HIDE DEF new
  <2>6. new \in Handed(S)
    BY <2>4, <2>5, <2>7 DEF Handed
  <2> QED BY <1>2, <2>6 DEF HandOver, new
<1> QED BY <1>1, <1>2

\* r[k] is what the loop over the arrays of p carries after k of them.
ArrayRounds(r, p, S) ==
    /\ r[0] = [lists |-> lists, freed |-> FALSE]
    /\ \A k \in 1..MaxVid : r[k] = HandOver(r[k - 1], stores[p].topics[k])
    /\ \A k \in 0..MaxVid : r[k] \in Handed(S)
    /\ r[MaxVid] = HandedOver(p)

\* It takes one array after the other.
LEMMA HandOverRuns ==
    ASSUME NEW S, NEW p, lists \in LongLists(S), Disjoint(lists),
           stores[p].topics \in [Vid -> Lists(S)]
    PROVE  \E r : ArrayRounds(r, p, S)
<1> DEFINE q == stores[p].topics
           base == [lists |-> lists, freed |-> FALSE]
           Rule(f) == f = [s \in SUBSET DOMAIN q |->
                              IF s = {} THEN base
                              ELSE HandOver(f[s \ {Max(s)}], q[Max(s)])]
           F == CHOOSE f : Rule(f)
<1>1. /\ MaxVid \in Nat /\ DOMAIN q = 1..MaxVid /\ base \in Handed(S)
      /\ \A k \in 1..MaxVid : q[k] \in Lists(S)
  BY StoreAssumption DEF Handed, Vid
<1>2. HandedOver(p) = F[DOMAIN q]
  BY DEF HandedOver, FoldLeft, MapThenFoldSet
<1>3. Rule(F)
  <2> DEFINE g == [x \in (1..MaxVid) \X Handed(S) |-> HandOver(x[2], q[x[1]])]
  <2> HIDE DEF q, base
  <2>1. g \in [(1..MaxVid) \X Handed(S) -> Handed(S)]
    BY <1>1, HandOverKeeps
  <2>2. PICK f \in [SUBSET (1..MaxVid) -> Handed(S)] : IsFoldOn(f, base, g, MaxVid)
    BY <1>1, <2>1, FoldExists
  <2>3. ASSUME NEW s \in SUBSET (1..MaxVid), s # {}
        PROVE  g[<<Max(s), f[s \ {Max(s)}]>>]
                  = HandOver(f[s \ {Max(s)}], q[Max(s)])
    <3>1. Max(s) \in 1..MaxVid
      BY <1>1, <2>3, MaxOfSome
    <3>2. f[s \ {Max(s)}] \in Handed(S)
      OBVIOUS
    <3> QED BY <3>1, <3>2
  <2> HIDE DEF g
  <2>4. Rule(f)
    BY <1>1, <2>2, <2>3 DEF IsFoldOn
  <2> HIDE DEF Rule
  <2> QED BY <2>4
<1> DEFINE r == [k \in 0..MaxVid |-> F[1..k]]
<1> HIDE DEF F, q, base
<1>4. r[0] = base
  BY <1>1, <1>3
<1>5. ASSUME NEW k \in 1..MaxVid PROVE r[k] = HandOver(r[k - 1], q[k])
  <2>1. 1..k # {} /\ Max(1..k) = k /\ (1..k) \ {k} = 1..(k - 1)
    BY LastRound
  <2>2. 1..k \in SUBSET DOMAIN q
    BY <1>1
  <2>3. F[1..k] = HandOver(F[1..(k - 1)], q[k])
    BY <1>3, <2>1, <2>2
  <2> QED BY <1>1, <2>3
<1>6. r[MaxVid] = HandedOver(p)
  BY <1>1, <1>2
<1> HIDE DEF r
<1> DEFINE Good == {k \in 0..MaxVid : r[k] \in Handed(S)}
<1>7. 0 \in Good
  BY <1>1, <1>4
<1>8. ASSUME NEW k \in 1..MaxVid, k - 1 \in Good PROVE k \in Good
  <2>1. r[k] = HandOver(r[k - 1], q[k]) /\ r[k - 1] \in Handed(S)
    BY <1>5, <1>8
  <2>2. r[k] \in Handed(S)
    BY <1>1, <2>1, HandOverKeeps
  <2>3. k \in 0..MaxVid
    BY <1>1
  <2> QED BY <2>2, <2>3
<1> HIDE DEF Good
<1>9. 0..MaxVid \subseteq Good
  BY <1>1, <1>7, <1>8, LoopInvariant
<1>10. \A k \in 0..MaxVid : r[k] \in Handed(S)
  BY <1>9 DEF Good
<1>11. ArrayRounds(r, p, S)
  BY <1>4, <1>5, <1>6, <1>10 DEF ArrayRounds, q, base
<1> QED BY <1>11

\* All arrays of a store keep the lists long and apart.
LEMMA HandedOverKeeps ==
    ASSUME NEW S, NEW p, lists \in LongLists(S), Disjoint(lists),
           stores[p].topics \in [Vid -> Lists(S)]
    PROVE  HandedOver(p) \in Handed(S)
<1>1. PICK r : ArrayRounds(r, p, S)
  BY HandOverRuns
<1>2. MaxVid \in 0..MaxVid
  BY StoreAssumption
<1> QED BY <1>1, <1>2 DEF ArrayRounds

\* The arrays of a sound store name none but topics that live.
LEMMA ArraysLive ==
    ASSUME NEW s, NEW p, NEW T \in SUBSET Topic, StoreOver(s, p, T)
    PROVE  s.topics \in [Vid -> Lists(T)]
<1>1. /\ s.topics \in [Vid -> Seq(Topic)] /\ Matching(s)
      /\ Valued(s) \subseteq T /\ 0 \notin Vid
  BY DEF StoreOver, Sound, Consistent, StoreType, Vid
<1>2. ASSUME NEW v \in Vid PROVE s.topics[v] \in Lists(T)
  <2>1. s.topics[v] \in Seq(Topic) /\ IsInjective(s.topics[v])
    BY <1>1 DEF Matching
  <2>2. ASSUME NEW i \in 1..Len(s.topics[v]) PROVE s.topics[v][i] \in T
    <3>1. s.topics[v][i] \in Topic /\ s.topics[v][i] \in ToSet(s.topics[v])
      BY <2>1, ElementInSet
    <3>2. s.vid[s.topics[v][i]] = v
      BY <1>1, <3>1 DEF Matching
    <3> QED BY <1>1, <3>1, <3>2 DEF Valued
  <2>3. s.topics[v] \in Seq(T)
    BY <2>1, <2>2
  <2> QED BY <2>1, <2>3 DEF Lists
<1> QED BY <1>1, <1>2

\* Normalizing one store.
LEMMA NormalizeKeepsInv ==
    ASSUME Inv, NormalizeNext
    PROVE  Inv'
<1> DEFINE p == NormalizeOrder[at.prop]
           acc == IF IsNormalized(Kind[p], stores[p])
                  THEN [lists |-> lists, freed |-> FALSE] ELSE HandedOver(p)
<1>1. /\ phase = "normalize" /\ status = "ok"
      /\ stores' = [stores EXCEPT ![p] = NormalizeStore(Kind[p], @)]
      /\ lists' = acc.lists
      /\ status' = IF acc.freed THEN "undefined" ELSE "ok"
      /\ IF at.prop < Len(PropOrder)
         THEN at' = [at EXCEPT !.prop = @ + 1] /\ UNCHANGED phase
         ELSE /\ at' = Start
              /\ phase' = IF lists' = <<>> THEN "loop" ELSE "replace"
      /\ UNCHANGED <<last, disposed, todo, rc, calls, rep>>
  BY DEF NormalizeNext, Running, history
<1>2. /\ at \in [prop : DOMAIN PropOrder, list : Nat, element : Nat]
      /\ lists \in LongLists(Live) /\ Disjoint(lists)
      /\ StoresOver(stores, Live) /\ Live \in SUBSET Topic
  BY LiveTopics DEF Inv, ControlInv
<1>3. Live' = Live /\ Created' = Created
  BY <1>1 DEF Live, Created
<1>4. p \in Prop
  <2>1. at.prop \in DOMAIN PropOrder
    BY <1>2
  <2> QED BY <2>1, PropsInOrder
<1>5. StoreOver(stores[p], p, Live)
  BY <1>2, <1>4 DEF StoresOver
<1>6. acc \in Handed(Live)
  <2>1. stores[p].topics \in [Vid -> Lists(Live)]
    BY <1>2, <1>5, ArraysLive
  <2>2. HandedOver(p) \in Handed(Live)
    BY <1>2, <2>1, HandedOverKeeps
  <2> QED BY <1>2, <2>2 DEF Handed
<1>7. StoresOver(stores', Live)
  <2>1. Sound(stores[p], Kind[p], ValuesOver(p, Live)) /\ Valued(stores[p]) \subseteq Live
    BY <1>5 DEF StoreOver
  <2>2. Sound(NormalizeStore(Kind[p], stores[p]), Kind[p], ValuesOver(p, Live))
    BY <2>1, NormalizeKeepsSound
  <2>3. Valued(NormalizeStore(Kind[p], stores[p])) \subseteq Valued(stores[p])
    BY <2>1, NormalizeValues
  <2>4. StoreOver(NormalizeStore(Kind[p], stores[p]), p, Live)
    BY <2>1, <2>2, <2>3 DEF StoreOver
  <2> HIDE DEF p
  <2> QED BY <1>1, <1>2, <1>4, <2>4, OneStore
<1>8. lists' \in LongLists(Live) /\ Disjoint(lists') /\ status' \in {"ok", "undefined"}
  BY <1>1, <1>6 DEF Handed
<1> HIDE DEF p, acc
<1>9. at' \in [prop : DOMAIN PropOrder, list : Nat, element : Nat]
  <2>1. CASE at.prop < Len(PropOrder)
    <3>1. at' = [at EXCEPT !.prop = @ + 1] /\ at.prop + 1 \in DOMAIN PropOrder
      BY <1>1, <1>2, <2>1, TopicMapAssumption
    <3> QED BY <1>2, <3>1
  <2>2. CASE ~(at.prop < Len(PropOrder))
    BY <1>1, <2>2, StartTyped
  <2> QED BY <2>1, <2>2
<1>10. ControlInv'
  BY <1>1, <1>3, <1>8, <1>9 DEF Inv, ControlInv
<1>11. LoopInv'
  <2>1. CASE phase' # "replace"
    BY <1>1, <2>1 DEF LoopInv
  <2>2. CASE phase' = "replace"
    <3>1. at' = Start /\ lists' # <<>>
      BY <1>1, <2>2
    <3>2. 1 \in DOMAIN lists' /\ Len(lists'[1]) > 1 /\ Len(lists'[1]) \in Nat
      <4>1. lists' \in Seq(Lists(Live)) /\ \A i \in DOMAIN lists' : Len(lists'[i]) > 1
        BY <1>8 DEF LongLists
      <4>2. 1 \in DOMAIN lists' /\ lists'[1] \in Lists(Live)
        BY <3>1, <4>1
      <4> QED BY <4>1, <4>2 DEF Lists
    <3>3. at'.list = 1 /\ at'.element = 2 /\ 2 \in 2..Len(lists'[1])
      BY <3>1, <3>2, StartTyped
    <3>4. ListInv' /\ ElementInv'
      BY <3>2, <3>3 DEF ListInv, ElementInv
    <3> QED BY <2>2, <3>4 DEF LoopInv
  <2> QED BY <2>1, <2>2
<1> QED BY <1>3, <1>7, <1>10, <1>11 DEF Inv

\* The merge lists and their elements, the first and the others.
LEMMA ListElements ==
    ASSUME Inv, NEW i \in DOMAIN lists
    PROVE  /\ DOMAIN lists = 1..Len(lists) /\ Len(lists) \in Nat /\ 1 \in DOMAIN lists
           /\ lists[i] \in Lists(Live) /\ Len(lists[i]) > 1 /\ Len(lists[i]) \in Nat
           /\ \A k \in 1..Len(lists[i]) : lists[i][k] \in Live
           /\ \A k \in 2..Len(lists[i]) : lists[i][k] # lists[i][1]
           /\ Head(lists[i]) \in Live
           /\ Head(lists[i]) \notin ToSet(Tail(lists[i]))
           /\ ToSet(Tail(lists[i])) \subseteq Live
<1>1. lists \in Seq(Lists(Live)) /\ \A k \in DOMAIN lists : Len(lists[k]) > 1
  BY DEF Inv, ControlInv, LongLists
<1>2. DOMAIN lists = 1..Len(lists) /\ Len(lists) \in Nat /\ 1 \in DOMAIN lists
  BY <1>1
<1>3. PICK q \in Lists(Live) : q = lists[i] /\ Len(q) > 1
  BY <1>1
<1>4. /\ q \in Seq(Live) /\ DOMAIN q = 1..Len(q) /\ Len(q) \in Nat
      /\ \A k, m \in 1..Len(q) : q[k] = q[m] => k = m
  BY DEF Lists, IsInjective
<1>5. /\ \A k \in 1..Len(q) : q[k] \in Live
      /\ \A k \in 2..Len(q) : q[k] # q[1]
  BY <1>3, <1>4
<1>6. ToSet(Tail(q)) = {q[k] : k \in 2..Len(q)}
  <2>1. /\ Tail(q) \in Seq(Live) /\ Len(Tail(q)) = Len(q) - 1
        /\ \A k \in 1..(Len(q) - 1) : Tail(q)[k] = q[k + 1]
    BY <1>3, <1>4
  <2>2. DOMAIN Tail(q) = 1..(Len(q) - 1)
    BY <2>1
  <2>3. ToSet(Tail(q)) = {Tail(q)[k] : k \in 1..(Len(q) - 1)}
    BY <2>2 DEF ToSet
  <2>4. \A k \in 2..Len(q) : k - 1 \in 1..(Len(q) - 1) /\ Tail(q)[k - 1] = q[k]
    BY <1>4, <2>1
  <2>5. \A k \in 1..(Len(q) - 1) : k + 1 \in 2..Len(q) /\ Tail(q)[k] = q[k + 1]
    BY <1>4, <2>1
  <2> QED BY <2>3, <2>4, <2>5
<1>7. Head(q) = q[1] /\ 1 \in 1..Len(q) /\ 2..Len(q) \subseteq 1..Len(q)
  BY <1>3, <1>4
<1> QED BY <1>1, <1>2, <1>3, <1>4, <1>5, <1>6, <1>7

\* The next list, or the first of the next property.
LEMMA NextListTyped ==
    ASSUME Inv, ListInv, MoreLists \/ MoreProps
    PROVE  /\ NextList \in [prop : DOMAIN PropOrder, list : Nat, element : Nat]
           /\ NextList.list \in DOMAIN lists /\ NextList.element = 2
<1>1. /\ at \in [prop : DOMAIN PropOrder, list : Nat, element : Nat]
      /\ at.list \in DOMAIN lists
  BY DEF Inv, ControlInv, ListInv
<1>2. DOMAIN lists = 1..Len(lists) /\ Len(lists) \in Nat /\ 1 \in DOMAIN lists
  BY <1>1, ListElements
<1>3. CASE MoreLists
  <2>1. at.list + 1 \in DOMAIN lists /\ at.list + 1 \in Nat
    BY <1>1, <1>2, <1>3 DEF MoreLists
  <2>2. NextList = [at EXCEPT !.list = @ + 1, !.element = 2]
    BY <1>3 DEF NextList
  <2> HIDE DEF NextList
  <2> QED BY <1>1, <2>1, <2>2
<1>4. CASE ~MoreLists /\ MoreProps
  <2>1. at.prop + 1 \in DOMAIN PropOrder
    BY <1>1, <1>4, TopicMapAssumption DEF MoreProps
  <2>2. NextList = [prop |-> at.prop + 1, list |-> 1, element |-> 2]
    BY <1>4 DEF NextList
  <2> HIDE DEF NextList
  <2> QED BY <1>2, <2>1, <2>2
<1> QED BY <1>3, <1>4

\* One topic that disappears is replaced in one store.
LEMMA ReplaceKeepsInv ==
    ASSUME Inv, ReplaceNext
    PROVE  Inv'
<1> DEFINE p == PropOrder[at.prop]
           list == lists[at.list]
           stays == list[1]
           disap == list[at.element]
           contradicts == ReplaceContradicts(stores[p], Kind[p], stays, disap)
<1>1. /\ phase = "replace" /\ status = "ok"
      /\ UNCHANGED <<last, disposed, lists, todo, calls, rep>>
  BY DEF ReplaceNext, Running, history
<1>2. contradicts =>
        /\ phase' = "idle" /\ rc' = "contradicting" /\ at' = Start
        /\ UNCHANGED <<stores, status>>
  BY DEF ReplaceNext, Return
<1>3. ~contradicts =>
        /\ stores[p].count < MaxVid
        /\ \E order \in ReplaceOrders(stores[p], Kind[p], stays, disap) :
              stores' = [stores EXCEPT ![p] =
                            ReplaceTopic(@, Kind[p], stays, disap, order)]
        /\ status' \in {"ok", "aborted"}
        /\ IF MoreElements
           THEN at' = [at EXCEPT !.element = @ + 1] /\ UNCHANGED phase
           ELSE IF MoreLists \/ MoreProps
           THEN at' = NextList /\ UNCHANGED phase
           ELSE at' = Start /\ phase' = "values"
        /\ UNCHANGED rc
  BY DEF ReplaceNext, MayStore
<1>4. ListInv /\ ElementInv
  BY <1>1 DEF Inv, LoopInv
<1>5. /\ at \in [prop : DOMAIN PropOrder, list : Nat, element : Nat]
      /\ StoresOver(stores, Live) /\ Live \in SUBSET Topic
      /\ rc \in {"ok", "contradicting"}
  BY LiveTopics DEF Inv, ControlInv
<1>6. /\ p \in Prop /\ at.list \in DOMAIN lists /\ at.element \in 2..Len(list)
  <2>1. at.prop \in DOMAIN PropOrder
    BY <1>5
  <2> QED BY <1>4, <2>1, PropsInOrder DEF ListInv, ElementInv
<1>7. /\ 1 \in DOMAIN lists /\ Len(list) > 1 /\ Len(list) \in Nat
      /\ stays \in Live /\ disap \in Live /\ stays # disap
      /\ \A i \in DOMAIN lists : Len(lists[i]) > 1 /\ Len(lists[i]) \in Nat
  <2>1. /\ Len(list) > 1 /\ Len(list) \in Nat /\ 1 \in DOMAIN lists
        /\ \A k \in 1..Len(list) : list[k] \in Live
        /\ \A k \in 2..Len(list) : list[k] # list[1]
    BY <1>6, ListElements
  <2>2. 1 \in 1..Len(list) /\ at.element \in 1..Len(list)
    BY <1>6, <2>1
  <2>3. \A i \in DOMAIN lists : Len(lists[i]) > 1 /\ Len(lists[i]) \in Nat
    BY ListElements
  <2> QED BY <1>6, <2>1, <2>2, <2>3
<1> HIDE DEF p, list, stays, disap, contradicts
<1>8. Live' = Live /\ Created' = Created
  BY <1>1 DEF Live, Created
<1>9. StoresOver(stores', Live)
  <2>1. CASE contradicts
    BY <1>2, <1>5, <2>1
  <2>2. CASE ~contradicts
    <3>1. PICK order \in ReplaceOrders(stores[p], Kind[p], stays, disap) :
             stores' = [stores EXCEPT ![p] =
                           ReplaceTopic(@, Kind[p], stays, disap, order)]
      BY <1>3, <2>2
    <3>2. /\ Sound(stores[p], Kind[p], ValuesOver(p, Live))
          /\ Valued(stores[p]) \subseteq Live
      BY <1>5, <1>6 DEF StoresOver, StoreOver
    <3>3. /\ stays \in Topic /\ disap \in Topic /\ stores[p].count < MaxVid
          /\ ~(Kind[p].combines /\ Kind[p].topical)
      BY <1>3, <1>5, <1>6, <1>7, <2>2, TopicalKinds
    <3>4. Sound(ReplaceTopic(stores[p], Kind[p], stays, disap, order), Kind[p],
                ValuesOver(p, Live))
      BY <1>7, <3>2, <3>3, ReplaceKeepsSound
    <3>5. Valued(ReplaceTopic(stores[p], Kind[p], stays, disap, order))
             \subseteq Valued(stores[p]) \cup {stays}
      BY <1>7, <3>2, <3>3, ReplaceValues
    <3>6. StoreOver(ReplaceTopic(stores[p], Kind[p], stays, disap, order), p, Live)
      BY <1>7, <3>2, <3>4, <3>5 DEF StoreOver
    <3> QED BY <1>5, <1>6, <3>1, <3>6, OneStore
  <2> QED BY <2>1, <2>2
<1>10. /\ at' \in [prop : DOMAIN PropOrder, list : Nat, element : Nat]
       /\ phase' \in {"idle", "replace", "values"}
       /\ phase' \in {"replace", "values"} => at'.list \in DOMAIN lists
       /\ phase' = "replace" => at'.element \in 2..Len(lists[at'.list])
  <2>1. CASE contradicts
    BY <1>2, <2>1, StartTyped
  <2>2. CASE ~contradicts /\ MoreElements
    <3>1. at' = [at EXCEPT !.element = @ + 1] /\ phase' = "replace"
      BY <1>1, <1>3, <2>2
    <3>2. at.element + 1 \in 2..Len(list) /\ at.element + 1 \in Nat
      BY <1>6, <1>7, <2>2 DEF MoreElements, list
    <3>3. at'.list = at.list /\ at'.element = at.element + 1
      BY <1>5, <3>1
    <3> QED BY <1>5, <1>6, <3>1, <3>2, <3>3 DEF list
  <2>3. CASE ~contradicts /\ ~MoreElements /\ (MoreLists \/ MoreProps)
    <3>1. at' = NextList /\ phase' = "replace"
      BY <1>1, <1>3, <2>3
    <3>2. /\ NextList \in [prop : DOMAIN PropOrder, list : Nat, element : Nat]
          /\ NextList.list \in DOMAIN lists /\ NextList.element = 2
      BY <1>4, <2>3, NextListTyped
    <3>3. 2 \in 2..Len(lists[NextList.list])
      BY <1>7, <3>2
    <3> QED BY <3>1, <3>2, <3>3
  <2>4. CASE ~contradicts /\ ~MoreElements /\ ~(MoreLists \/ MoreProps)
    BY <1>3, <1>7, <2>4, StartTyped
  <2> QED BY <2>1, <2>2, <2>3, <2>4
<1>11. rc' \in {"ok", "contradicting"} /\ status' \in {"ok", "aborted"}
  BY <1>1, <1>2, <1>3, <1>5
<1>12. ControlInv'
  BY <1>1, <1>8, <1>10, <1>11 DEF Inv, ControlInv
<1>13. LoopInv'
  BY <1>1, <1>10 DEF LoopInv, ListInv, ElementInv
<1> QED BY <1>8, <1>9, <1>12, <1>13 DEF Inv

\* After a list comes another, or the disposal.
LEMMA AfterListTyped ==
    ASSUME Inv, ListInv, AfterList, UNCHANGED lists
    PROVE  /\ at' \in [prop : DOMAIN PropOrder, list : Nat, element : Nat]
           /\ phase' \in {"values", "dispose"}
           /\ LoopInv'
<1>1. CASE MoreLists \/ MoreProps
  <2>1. at' = NextList /\ phase' = "values"
    BY <1>1 DEF AfterList
  <2>2. /\ NextList \in [prop : DOMAIN PropOrder, list : Nat, element : Nat]
        /\ NextList.list \in DOMAIN lists
    BY <1>1, NextListTyped
  <2>3. ListInv'
    BY <2>1, <2>2 DEF ListInv
  <2> QED BY <2>1, <2>2, <2>3 DEF LoopInv
<1>2. CASE ~(MoreLists \/ MoreProps)
  <2>1. at' = Start /\ phase' = "dispose"
    BY <1>2 DEF AfterList
  <2> QED BY <2>1, StartTyped DEF LoopInv
<1> QED BY <1>1, <1>2

\* An order of some vids lists each of them once.
LEMMA OrderOfVids ==
    ASSUME NEW S \in SUBSET Vid, NEW q \in Orders(S)
    PROVE  q \in Seq(S) /\ IsInjective(q) /\ (S # {} => q # <<>>)
<1>1. IsFiniteSet(Vid)
  BY StoreAssumption, FS_Interval DEF Vid
<1>2. Cardinality(S) \in Nat
  BY <1>1, FS_Subset, FS_CardinalityType
<1>3. q \in [1..Cardinality(S) -> S] /\ ToSet(q) = S /\ IsInjective(q)
  BY DEF Orders
<1>4. q \in Seq(S)
  BY <1>2, <1>3
<1>5. q = <<>> => S = {}
  BY <1>3, EmptyOrder
<1> QED BY <1>3, <1>4, <1>5

\* The vids that a list concerns are collected.
LEMMA CollectKeepsInv ==
    ASSUME Inv, CollectVids
    PROVE  Inv'
<1> DEFINE p == PropOrder[at.prop]
           tail == ToSet(Tail(lists[at.list]))
           vids == IF Kind[p].topical THEN Including(p, tail) ELSE {}
<1>1. /\ phase = "values" /\ status = "ok"
      /\ IF vids = {} THEN AfterList /\ UNCHANGED todo
         ELSE todo' \in Orders(vids) /\ phase' = "rewrite" /\ UNCHANGED at
      /\ UNCHANGED <<stores, last, disposed, lists, rc, status, calls, rep>>
  BY DEF CollectVids, Running, core, history
<1>2. ListInv
  BY <1>1 DEF Inv, LoopInv
<1>3. Live' = Live /\ Created' = Created
  BY <1>1 DEF Live, Created
<1>4. /\ at' \in [prop : DOMAIN PropOrder, list : Nat, element : Nat]
      /\ phase' \in {"values", "dispose", "rewrite"}
      /\ LoopInv'
  <2>1. CASE vids = {}
    BY <1>1, <1>2, <2>1, AfterListTyped
  <2>2. CASE vids # {}
    <3>1. /\ todo' \in Orders(vids) /\ phase' = "rewrite" /\ at' = at
          /\ Kind[p].topical /\ vids = Including(p, tail)
      BY <1>1, <2>2
    <3>2. vids \in SUBSET Vid
      BY DEF Including
    <3> HIDE DEF vids
    <3>3. todo' \in Seq(vids) /\ IsInjective(todo') /\ todo' # <<>>
      BY <2>2, <3>1, <3>2, OrderOfVids
    <3>4. Including(p, tail)' = Including(p, tail)
      BY <1>1, <3>1 DEF Including
    <3>5. p' = p /\ tail' = tail
      BY <1>1, <3>1
    <3>6. RewriteInv'
      BY <1>1, <3>1, <3>3, <3>4, <3>5 DEF RewriteInv
    <3>7. ListInv'
      BY <1>1, <1>2, <3>1 DEF ListInv
    <3> QED BY <3>1, <3>6, <3>7 DEF LoopInv, Inv, ControlInv
  <2> QED BY <2>1, <2>2
<1> HIDE DEF vids
<1>5. ControlInv'
  BY <1>1, <1>3, <1>4 DEF Inv, ControlInv
<1> QED BY <1>1, <1>3, <1>4, <1>5 DEF Inv

\* Substitution turns a value with a topic of the tail of a list into another
\* value, of topics that live.
LEMMA SubstitutedIsOther ==
    ASSUME NEW p \in Prop, Kind[p].topical, NEW T \in SUBSET Topic, NEW set,
           Head(set) \in T, Head(set) \notin ToSet(Tail(set)),
           NEW val \in ValuesOver(p, T),
           TopicsIn(p, val) \cap ToSet(Tail(set)) # {}
    PROVE  /\ Substituted(p, set, val) \in ValuesOver(p, T)
           /\ Substituted(p, set, val) # val
<1> DEFINE tail == ToSet(Tail(set))
           new == Substituted(p, set, val)
<1>1. \A t : Subst(set, t) \notin tail
  BY DEF Subst
<1>2. \A t \in T : Subst(set, t) \in T
  BY DEF Subst
<1>3. p \in {ASidp, TSidp} /\ ASidp # TSidp
  BY TopicalKinds DEF ASidp, TSidp
<1>4. new \in ValuesOver(p, T) /\ TopicsIn(p, new) \cap tail = {}
  <2>1. CASE p = ASidp
    <3> DEFINE m == val.members
               R == {Subst(set, q) : q \in DOMAIN m}
               at_(r) == CHOOSE q \in DOMAIN m : Subst(set, q) = r
               n == [r \in R |-> Subst(set, m[at_(r)])]
    <3>1. Forms # {} /\ val \in AssertionsOver(T)
      BY <2>1 DEF ValuesOver
    <3>2. /\ val.type \in T /\ DOMAIN m \subseteq T
          /\ \A r \in DOMAIN m : m[r] \in T
      BY <3>1, AssertionParts
    <3>3. new = [type |-> Subst(set, val.type), members |-> n]
      BY <2>1 DEF Substituted
    <3>4. \A r \in R : at_(r) \in DOMAIN m
      OBVIOUS
    <3> HIDE DEF m, at_
    <3>5. R \in SUBSET T /\ R \cap tail = {}
      BY <1>1, <1>2, <3>2
    <3> HIDE DEF R
    <3>6. /\ n \in [R -> T] /\ DOMAIN n = R
          /\ \A r \in R : n[r] = Subst(set, m[at_(r)])
      BY <1>2, <3>2, <3>4
    <3>7. \A r \in R : n[r] \notin tail
      BY <1>1, <3>6
    <3>8. Subst(set, val.type) \in T /\ Subst(set, val.type) \notin tail
      BY <1>1, <1>2, <3>2
    <3> HIDE DEF n, new, tail
    <3>9. new \in AssertionsOver(T)
      BY <3>3, <3>5, <3>6, <3>8, AssertionMade
    <3>10. new.type = Subst(set, val.type) /\ new.members = n
      BY <3>3
    <3>11. TopicsIn(p, new) \cap tail = {}
      BY <2>1, <3>5, <3>6, <3>7, <3>8, <3>10 DEF TopicsIn
    <3> QED BY <2>1, <3>1, <3>9, <3>11 DEF ValuesOver
  <2>2. CASE p = TSidp
    <3>1. Forms # {} /\ val \subseteq T
      BY <1>3, <2>2 DEF ValuesOver
    <3>2. new = {Subst(set, t) : t \in val}
      BY <1>3, <2>2 DEF Substituted
    <3>3. new \subseteq T /\ new \cap tail = {}
      BY <1>1, <1>2, <3>1, <3>2
    <3> HIDE DEF new, tail
    <3> QED BY <1>3, <2>2, <3>1, <3>3 DEF ValuesOver, TopicsIn
  <2> QED BY <1>3, <2>1, <2>2
<1> HIDE DEF new
<1> QED BY <1>4 DEF new

\* What rewriting one value does to the store.
LEMMA RewriteChanges ==
    ASSUME Inv, RewriteValue
    PROVE  LET p   == PropOrder[at.prop]
               set == lists[at.list]
               v   == Head(todo)
               val == stores[p].value[v]
               new == Substituted(p, set, val)
               n   == ReplaceValue(stores[p], Kind[p], v, new)
           IN /\ p \in Prop /\ v \in Vid /\ val # NoValue
              /\ val \in ValuesOver(p, Live)
              /\ ~CannotSubstitute(p, set, val) =>
                    /\ stores' = [stores EXCEPT ![p] = n]
                    /\ StoreOver(n, p, Live)
                    /\ Valued(n) \subseteq Valued(stores[p])
                    /\ LeavesOthers(n, stores[p], v)
                    /\ AddsOnly(n, stores[p], v, new)
<1> DEFINE p == PropOrder[at.prop]
           set == lists[at.list]
           tail == ToSet(Tail(set))
           v == Head(todo)
           val == stores[p].value[v]
           new == Substituted(p, set, val)
           n == ReplaceValue(stores[p], Kind[p], v, new)
           cannot == CannotSubstitute(p, set, val)
<1>1. phase = "rewrite" /\ status = "ok"
  BY DEF RewriteValue, Running
<1>2. ~cannot => /\ stores[p].count < MaxVid
                 /\ stores' = [stores EXCEPT ![p] = ReplaceValue(@, Kind[p], v, new)]
  BY DEF RewriteValue, MayStore
<1>3. /\ ListInv /\ Kind[p].topical /\ todo \in Seq(Including(p, tail))
      /\ todo # <<>>
  BY <1>1 DEF Inv, LoopInv, RewriteInv
<1>4. /\ at \in [prop : DOMAIN PropOrder, list : Nat, element : Nat]
      /\ StoresOver(stores, Live) /\ Live \in SUBSET Topic
  BY LiveTopics DEF Inv, ControlInv
<1>5. p \in Prop
  <2>1. at.prop \in DOMAIN PropOrder
    BY <1>4
  <2> QED BY <2>1, PropsInOrder
<1>6. Head(set) \in Live /\ Head(set) \notin tail
  BY <1>3, ListElements DEF ListInv
<1>7. v \in Including(p, tail)
  BY <1>3
<1>8. v \in Vid /\ val # NoValue /\ TopicsIn(p, val) \cap tail # {}
  BY <1>7 DEF Including
<1>9. /\ Sound(stores[p], Kind[p], ValuesOver(p, Live))
      /\ Valued(stores[p]) \subseteq Live
  BY <1>4, <1>5 DEF StoresOver, StoreOver
<1>10. val \in ValuesOver(p, Live)
  BY <1>8, <1>9 DEF Sound, Consistent, StoreType
<1>11. new \in ValuesOver(p, Live) /\ new # val
  BY <1>3, <1>4, <1>5, <1>6, <1>8, <1>10, SubstitutedIsOther
<1>12. ~Kind[p].combines
  BY <1>3, <1>5, TopicalKinds
<1>13. ASSUME ~cannot
       PROVE  /\ stores' = [stores EXCEPT ![p] = n]
              /\ StoreOver(n, p, Live)
              /\ Valued(n) \subseteq Valued(stores[p])
              /\ LeavesOthers(n, stores[p], v)
              /\ AddsOnly(n, stores[p], v, new)
  <2>1. stores[p].count < MaxVid
    BY <1>2, <1>13
  <2>2. stores' = [stores EXCEPT ![p] = n]
    BY <1>2, <1>13
  <2> HIDE DEF new, v, p, cannot
  <2>3. stores[p].value[v] # NoValue /\ stores[p].value[v] # new
    BY <1>8, <1>11 DEF val
  <2>4. Sound(n, Kind[p], ValuesOver(p, Live))
    BY <1>8, <1>9, <1>11, <1>12, <2>1, <2>3, ReplaceValueKeepsSound
  <2>5. Valued(n) \subseteq Valued(stores[p])
    BY <1>8, <1>9, <1>11, <1>12, <2>1, <2>3, RewriteValues
  <2>6. LeavesOthers(n, stores[p], v) /\ AddsOnly(n, stores[p], v, new)
    BY <1>8, <1>9, <1>11, <1>12, <2>1, <2>3, RewriteLeaves
  <2> QED BY <1>9, <2>2, <2>4, <2>5, <2>6 DEF StoreOver
<1> QED BY <1>5, <1>8, <1>10, <1>13

\* One value is rewritten.
LEMMA RewriteKeepsInv ==
    ASSUME Inv, RewriteValue
    PROVE  Inv'
<1> DEFINE p == PropOrder[at.prop]
           set == lists[at.list]
           tail == ToSet(Tail(set))
           v == Head(todo)
           val == stores[p].value[v]
           new == Substituted(p, set, val)
           cannot == CannotSubstitute(p, set, val)
<1>1. /\ phase = "rewrite" /\ status = "ok"
      /\ todo' = Tail(todo)
      /\ IF todo' = <<>> THEN AfterList ELSE UNCHANGED <<at, phase>>
      /\ UNCHANGED <<last, disposed, lists, rc, calls, rep>>
  BY DEF RewriteValue, Running, history
<1>2. /\ cannot => status' = "aborted" /\ UNCHANGED stores
      /\ ~cannot => status' \in {"ok", "aborted"}
  BY DEF RewriteValue
<1>3. /\ ListInv /\ Kind[p].topical /\ todo \in Seq(Including(p, tail))
      /\ IsInjective(todo) /\ todo # <<>>
  BY <1>1 DEF Inv, LoopInv, RewriteInv
<1>4. /\ at \in [prop : DOMAIN PropOrder, list : Nat, element : Nat]
      /\ StoresOver(stores, Live)
  BY DEF Inv, ControlInv
<1>5. p \in Prop
  BY RewriteChanges
<1>6. v \in Including(p, tail) /\ Tail(todo) \in Seq(Including(p, tail))
  BY <1>3
<1>7. Live' = Live /\ Created' = Created
  BY <1>1 DEF Live, Created
<1>8. ~cannot =>
         /\ stores' = [stores EXCEPT ![p] = ReplaceValue(stores[p], Kind[p], v, new)]
         /\ StoreOver(ReplaceValue(stores[p], Kind[p], v, new), p, Live)
         /\ LeavesOthers(ReplaceValue(stores[p], Kind[p], v, new), stores[p], v)
  BY RewriteChanges
<1> HIDE DEF cannot, new
<1>9. StoresOver(stores', Live)
  <2>1. CASE cannot
    BY <1>2, <1>4, <2>1 DEF cannot
  <2>2. CASE ~cannot
    <3> HIDE DEF p, v
    <3> QED BY <1>4, <1>5, <1>8, <2>2, OneStore
  <2> QED BY <2>1, <2>2
<1>10. status' \in {"ok", "aborted"} /\ (status' = "ok" => ~cannot)
  BY <1>2 DEF cannot
<1>11. /\ at' \in [prop : DOMAIN PropOrder, list : Nat, element : Nat]
       /\ phase' \in {"values", "dispose", "rewrite"}
  BY <1>1, <1>3, <1>4, AfterListTyped
<1>12. ControlInv'
  BY <1>1, <1>7, <1>10, <1>11 DEF Inv, ControlInv
<1>13. status' = "ok" => LoopInv'
  <2>1. CASE todo' = <<>>
    BY <1>1, <1>3, <2>1, AfterListTyped
  <2>2. CASE todo' # <<>> /\ status' = "ok"
    <3>1. /\ phase' = "rewrite" /\ at' = at /\ lists' = lists
          /\ ~cannot
      BY <1>1, <1>10, <2>2
    <3>2. /\ Tail(todo) \in Seq(Vid) /\ IsInjective(Tail(todo))
          /\ \A i \in 1..Len(Tail(todo)) : /\ Tail(todo)[i] \in Including(p, tail)
                                           /\ Tail(todo)[i] # v
      <4> DEFINE I == Including(p, tail)
      <4>1. I \subseteq Vid
        BY DEF Including
      <4> HIDE DEF I
      <4>2. /\ todo \in Seq(I) /\ todo # <<>> /\ Tail(todo) \in Seq(I)
            /\ \A i, j \in 1..Len(todo) : todo[i] = todo[j] => i = j
            /\ Len(todo) \in Nat /\ Len(Tail(todo)) = Len(todo) - 1
            /\ \A i \in 1..(Len(todo) - 1) : Tail(todo)[i] = todo[i + 1]
            /\ Head(todo) = todo[1]
        BY <1>3, <1>6 DEF IsInjective, I
      <4>3. DOMAIN Tail(todo) = 1..(Len(todo) - 1)
        BY <4>2
      <4>4. IsInjective(Tail(todo))
        BY <4>2, <4>3 DEF IsInjective
      <4>5. \A i \in 1..Len(Tail(todo)) : Tail(todo)[i] \in I /\ Tail(todo)[i] # v
        BY <4>2
      <4> QED BY <4>1, <4>2, <4>4, <4>5 DEF I
    <3>3. \A u \in Including(p, tail) : u # v => u \in Including(p, tail)'
      <4> SUFFICES ASSUME NEW u \in Including(p, tail), u # v
                   PROVE  u \in Including(p, tail)'
        OBVIOUS
      <4>1. /\ u \in Vid /\ stores[p].value[u] # NoValue
            /\ TopicsIn(p, stores[p].value[u]) \cap tail # {}
        BY DEF Including
      <4>2. stores'[p].value[u] = stores[p].value[u]
        <5>1. stores'[p] = ReplaceValue(stores[p], Kind[p], v, new)
          BY <1>4, <1>5, <1>8, <3>1 DEF StoresOver
        <5> QED BY <1>8, <3>1, <4>1, <5>1 DEF LeavesOthers
      <4>3. p' = p /\ tail' = tail
        BY <3>1
      <4> HIDE DEF p, tail
      <4> QED BY <4>1, <4>2, <4>3 DEF Including
    <3>4. Tail(todo) \in Seq(Including(p, tail)')
      <4> DEFINE J == Including(p, tail)'
      <4> HIDE DEF J
      <4>1. \A i \in 1..Len(Tail(todo)) : Tail(todo)[i] \in J
        BY <3>2, <3>3 DEF J
      <4>2. Tail(todo) \in Seq(J)
        <5> DEFINE q == Tail(todo)
        <5>1. q \in Seq(Vid)
          BY <3>2
        <5>4. \A i \in 1..Len(q) : q[i] \in J
          BY <4>1
        <5> HIDE DEF q
        <5>2. /\ Len(q) \in Nat /\ q = [i \in 1..Len(q) |-> q[i]]
              /\ \A i \in 1..Len(q) : q[i] \in J
          BY <5>1, <5>4
        <5>3. q \in Seq(J)
          BY <5>1, <5>2
        <5> QED BY <5>3 DEF q
      <4> QED BY <4>2 DEF J
    <3>5. RewriteInv'
      BY <1>1, <1>3, <2>2, <3>1, <3>2, <3>4 DEF RewriteInv
    <3>6. ListInv'
      BY <1>3, <3>1 DEF ListInv
    <3> QED BY <3>1, <3>5, <3>6 DEF LoopInv
  <2> QED BY <2>1, <2>2
<1> QED BY <1>7, <1>9, <1>12, <1>13 DEF Inv

\* The topics that disappear live, and are topics.
LEMMA DisappearingLive ==
    ASSUME Inv
    PROVE  Disappearing \subseteq Live
<1> SUFFICES ASSUME NEW i \in DOMAIN lists PROVE ToSet(Tail(lists[i])) \subseteq Live
  BY DEF Disappearing
<1> QED BY ListElements

\* Stores that pass the checks on the topics that disappear hold only topics that
\* stay.
LEMMA DisposeNarrows ==
    ASSUME Inv, \A t \in Disappearing : MayDispose(t)
    PROVE  StoresOver(stores, Live \ Disappearing)
<1> DEFINE D == Disappearing
<1>1. /\ StoresOver(stores, Live) /\ Live \in SUBSET Topic /\ D \subseteq Live
  BY DisappearingLive, LiveTopics DEF Inv
<1>2. \A t \in D : \A p \in Prop :
         /\ stores[p].vid[t] = 0
         /\ Kind[p].topical => Including(p, {t}) = {}
  BY DEF MayDispose
<1> HIDE DEF D
<1>3. PICK T \in SUBSET Topic : T = Live
  BY <1>1
<1>4. T \ (T \ D) = D /\ T \ D \in SUBSET T
  BY <1>1, <1>3
<1>5. \A p \in Prop : \A t \in T \ (T \ D) : stores[p].vid[t] = 0
  BY <1>2, <1>4
<1>6. ASSUME NEW p \in Prop, Kind[p].topical, NEW v \in Vid,
             stores[p].value[v] # NoValue
      PROVE  TopicsIn(p, stores[p].value[v]) \cap (T \ (T \ D)) = {}
  <2>1. \A t \in D : v \notin Including(p, {t})
    BY <1>2, <1>6
  <2>2. \A t \in D : TopicsIn(p, stores[p].value[v]) \cap {t} = {}
    BY <1>6, <2>1 DEF Including
  <2> QED BY <1>4, <2>2
<1>7. StoresOver(stores, T)
  BY <1>1, <1>3
<1>8. StoresOver(stores, T \ D)
  BY <1>4, <1>5, <1>6, <1>7, NarrowerStores
<1> QED BY <1>3, <1>8 DEF D

\* The topics that disappear are disposed of.
LEMMA DisposeKeepsInv ==
    ASSUME Inv, Dispose
    PROVE  Inv'
<1> DEFINE may == NamedOnce /\ \A t \in Disappearing : MayDispose(t)
<1>1. /\ phase = "dispose" /\ status = "ok"
      /\ stores' = stores /\ last' = last /\ at' = at /\ rc' = rc /\ calls' = calls
  BY DEF Dispose, Running
<1>2. /\ may => /\ disposed' = disposed \cup Disappearing
                /\ lists' = <<>> /\ phase' = "loop" /\ status' = status
                /\ rep' = [t \in Topic |->
                      IF \E i \in DOMAIN lists : rep[t] \in ToSet(lists[i])
                      THEN Head(lists[CHOOSE i \in DOMAIN lists :
                                         rep[t] \in ToSet(lists[i])])
                      ELSE rep[t]]
      /\ ~may => /\ status' = "aborted" /\ disposed' = disposed
                 /\ lists' = lists /\ phase' = phase /\ rep' = rep
  BY DEF Dispose, CleanedLists
<1>3. Inv /\ ControlInv /\ StoresOver(stores, Live) /\ Live \in SUBSET Topic
  BY LiveTopics DEF Inv
<1>4. CASE ~may
  <2>1. Live' = Live /\ Created' = Created
    BY <1>1, <1>2, <1>4 DEF Live, Created
  <2>2. ControlInv'
    BY <1>1, <1>2, <1>3, <1>4, <2>1 DEF ControlInv
  <2>3. StoresOver(stores', Live')
    BY <1>1, <1>3, <2>1
  <2> QED BY <1>2, <1>4, <2>2, <2>3 DEF Inv
<1>5. CASE may
  <2>1. Created' = Created /\ Live' = Live \ Disappearing
    BY <1>1, <1>2, <1>5 DEF Live, Created
  <2>2. StoresOver(stores', Live')
    BY <1>1, <1>3, <1>5, <2>1, DisposeNarrows
  <2>3. disposed' \subseteq Created'
    <3>1. disposed \subseteq Created /\ Disappearing \subseteq Created
      BY <1>3, DisappearingLive DEF ControlInv, Live
    <3> QED BY <1>2, <1>5, <2>1, <3>1
  <2>4. rep' \in [Topic -> Topic]
    <3> SUFFICES ASSUME NEW t \in Topic,
                        NEW r, r = IF \E i \in DOMAIN lists : rep[t] \in ToSet(lists[i])
                                   THEN Head(lists[CHOOSE i \in DOMAIN lists :
                                                      rep[t] \in ToSet(lists[i])])
                                   ELSE rep[t]
                 PROVE  r \in Topic
      BY <1>2, <1>5
    <3>1. CASE \E i \in DOMAIN lists : rep[t] \in ToSet(lists[i])
      <4> DEFINE i == CHOOSE k \in DOMAIN lists : rep[t] \in ToSet(lists[k])
      <4>1. i \in DOMAIN lists
        BY <3>1
      <4>2. r = Head(lists[i])
        BY <3>1
      <4> HIDE DEF i
      <4>3. Head(lists[i]) \in Live
        BY <1>3, <4>1, ListElements
      <4> QED BY <1>3, <4>2, <4>3
    <3>2. CASE ~\E i \in DOMAIN lists : rep[t] \in ToSet(lists[i])
      <4>1. rep[t] \in Topic
        BY <1>3 DEF ControlInv
      <4> QED BY <3>2, <4>1
    <3> QED BY <3>1, <3>2
  <2>5. lists' \in LongLists(Live') /\ Disjoint(lists')
    BY <1>2, <1>5, NoLists
  <2>6. /\ at' \in [prop : DOMAIN PropOrder, list : Nat, element : Nat]
        /\ last' \in 0..Cardinality(Topic) /\ rc' \in {"ok", "contradicting"}
        /\ calls' \in 0..MaxCalls
    BY <1>1, <1>3 DEF ControlInv
  <2>7. phase' = "loop" /\ status' = "ok"
    BY <1>1, <1>2, <1>5
  <2>8. ControlInv'
    BY <2>3, <2>4, <2>5, <2>6, <2>7 DEF ControlInv
  <2>9. LoopInv'
    BY <2>7 DEF LoopInv
  <2> QED BY <2>2, <2>8, <2>9 DEF Inv
<1> QED BY <1>4, <1>5

-----------------------------------------------------------------------------
(* The theorems *)

\* A map begins with no topics, no values and no lists.
LEMMA InitInv ==
    ASSUME Init
    PROVE  Inv
<1>1. Created = {} /\ Live = {}
  <2>1. 1..0 = {}
    OBVIOUS
  <2> QED BY <2>1 DEF Init, Created, Live
<1>2. StoresOver(stores, {})
  <2>1. stores = [p \in Prop |-> EmptyStore]
    BY DEF Init
  <2> SUFFICES ASSUME NEW p \in Prop PROVE StoreOver(EmptyStore, p, {})
    BY <2>1 DEF StoresOver
  <2>2. PICK T \in SUBSET Topic : T = {}
    OBVIOUS
  <2>3. Sound(EmptyStore, Kind[p], ValuesOver(p, T))
    BY ValuesFit, EmptyIsSound
  <2>4. Valued(EmptyStore) = {}
    BY DEF Valued, EmptyStore
  <2> QED BY <2>2, <2>3, <2>4 DEF StoreOver
<1>3. ControlInv
  <2>1. lists \in LongLists(Live) /\ Disjoint(lists)
    BY NoLists DEF Init
  <2>2. at \in [prop : DOMAIN PropOrder, list : Nat, element : Nat]
    BY StartTyped DEF Init
  <2>3. /\ last \in 0..Cardinality(Topic) /\ calls \in 0..MaxCalls
        /\ rep \in [Topic -> Topic]
    BY TopicNumbers, TopicMapAssumption DEF Init
  <2> QED BY <1>1, <2>1, <2>2, <2>3 DEF Init, ControlInv
<1>4. LoopInv
  BY DEF Init, LoopInv
<1> QED BY <1>1, <1>2, <1>3, <1>4 DEF Inv

\* Every step of every call keeps the invariant.
LEMMA NextKeepsInv ==
    ASSUME Inv, [Next]_vars
    PROVE  Inv'
<1>1. CASE Call
  BY <1>1, AddSubjectKeepsInv, AddPropertyToTopicKeepsInv, AddAssertionKeepsInv,
     FullyMergeKeepsInv DEF Call
<1>2. CASE Step
  BY <1>2, AddSubjectPropertyKeepsInv, WhileKeepsInv, NormalizeKeepsInv,
     ReplaceKeepsInv, CollectKeepsInv, RewriteKeepsInv, DisposeKeepsInv
  DEF Step, MergeStep
<1>3. CASE UNCHANGED vars
  <2>1. /\ stores' = stores /\ last' = last /\ disposed' = disposed
        /\ lists' = lists /\ phase' = phase /\ at' = at /\ todo' = todo
        /\ rc' = rc /\ status' = status /\ calls' = calls /\ rep' = rep
    BY <1>3 DEF vars, core, control, history
  <2>2. Live' = Live /\ Created' = Created
    BY <2>1 DEF Live, Created
  <2>3. StoresOver(stores', Live') /\ ControlInv'
    BY <2>1, <2>2 DEF Inv, ControlInv
  <2>4. status' = "ok" => LoopInv'
    <3>1. /\ ListInv' = ListInv /\ ElementInv' = ElementInv
          /\ RewriteInv' = RewriteInv /\ AddingInv' = AddingInv
      BY <2>1, <2>2 DEF ListInv, ElementInv, RewriteInv, AddingInv, Including
    <3> QED BY <2>1, <3>1 DEF Inv, LoopInv
  <2> QED BY <2>3, <2>4 DEF Inv
<1> QED BY <1>1, <1>2, <1>3 DEF Next

\* The invariant holds in every state a program can reach.
LEMMA Invariance == Spec => []Inv
<1>1. Init => Inv
  BY InitInv
<1>2. Inv /\ [Next]_vars => Inv'
  BY NextKeepsInv
<1> QED BY <1>1, <1>2, PTL DEF Spec

\* The values a store may hold are values of its property.
LEMMA ValuesAreOf ==
    ASSUME NEW p \in Prop, NEW val \in ValuesOver(p, Live)
    PROVE  IsValueOf(p, val)
<1>1. Live \subseteq Created
  BY DEF Live
<1>2. CASE p = ASidp
  <2>1. Kind[p].topical
    BY <1>2, TopicalKinds
  <2>2. TopicsIn(p, val) \subseteq Created
    BY <1>1, <2>1, TopicsInValue
  <2>3. val \in AssertionsOver(Live)
    BY <1>2 DEF ValuesOver
  <2>4. val.type \in Created
    BY <1>1, <2>3, AssertionParts
  <2> QED BY <1>2, <2>2, <2>4 DEF IsValueOf
<1>3. CASE p = TSidp /\ p # ASidp
  BY <1>1, <1>3 DEF ValuesOver, IsValueOf
<1>4. CASE p \notin {ASidp, TSidp}
  BY <1>4 DEF ValuesOver, IsValueOf, Things
<1> QED BY <1>2, <1>3, <1>4

\* Every variable of the topic map has its type, whatever is added and merged and
\* wherever in its loops a call is (src/src/topicmap.c).
THEOREM MapTyped == Spec => []TypeOK
<1>1. Inv => TypeOK
  <2> SUFFICES ASSUME Inv PROVE TypeOK
    OBVIOUS
  <2>1. StoresOver(stores, Live) /\ ControlInv
    BY DEF Inv
  <2>2. ASSUME NEW p \in Prop
        PROVE  /\ stores[p] \in StoreType(Range(stores[p].value))
               /\ \A v \in Vid : stores[p].value[v] # NoValue =>
                                    IsValueOf(p, stores[p].value[v])
    <3>1. stores[p] \in StoreType(ValuesOver(p, Live))
      BY <2>1 DEF StoresOver, StoreOver, Sound, Consistent
    <3>2. stores[p].value \in [Vid -> {NoValue} \cup ValuesOver(p, Live)]
      BY <3>1 DEF StoreType
    <3>3. stores[p].value \in [Vid -> {NoValue} \cup Range(stores[p].value)]
      BY <3>2 DEF Range
    <3>4. stores[p] \in StoreType(Range(stores[p].value))
      <4> DEFINE V == Range(stores[p].value)
      <4> HIDE DEF V
      <4> QED BY <3>1, <3>3 DEF StoreType, V
    <3>5. ASSUME NEW v \in Vid, stores[p].value[v] # NoValue
          PROVE  IsValueOf(p, stores[p].value[v])
      <4>1. stores[p].value[v] \in ValuesOver(p, Live)
        BY <3>2, <3>5
      <4> QED BY <4>1, ValuesAreOf
    <3> QED BY <3>4, <3>5
  <2>3. lists \in Seq(Seq(Created))
    <3>1. Lists(Live) \subseteq Seq(Created)
      <4>1. Live \subseteq Created
        BY DEF Live
      <4>2. Seq(Live) \subseteq Seq(Created)
        BY <4>1
      <4> QED BY <4>2 DEF Lists
    <3>2. lists \in Seq(Lists(Live))
      BY <2>1 DEF ControlInv, LongLists
    <3> QED BY <3>1, <3>2
  <2>4. at.prop \in DOMAIN PropOrder
    BY <2>1 DEF ControlInv
  <2> QED BY <2>1, <2>2, <2>3, <2>4 DEF TypeOK, ControlInv
<1> QED BY <1>1, Invariance, PTL

\* At every step of every call, between the rounds of fully_merge too and after a
\* call that failed half way, the vid tables and the topic arrays of each property
\* agree, no value is without a topic, no locator is in two sets, and a store
\* called normalized is (src/src/propertystore.c, src/src/topicmap.c).
THEOREM StoresStaySound == Spec => []StoresSound
<1>1. Inv => StoresSound
  BY DEF Inv, StoresOver, StoreOver, Sound, Consistent, StoresSound
<1> QED BY <1>1, Invariance, PTL

\* Nothing refers to a topic once it has been disposed of, neither a store nor an
\* assertion, a role set or a merge list, whatever is added and merged later
\* (_dispose_topic, src/src/topicmap.c).
THEOREM DisposedStaysGone == Spec => []DisposedIsGone
<1>1. Inv => DisposedIsGone
  <2> SUFFICES ASSUME Inv, NEW t \in disposed
               PROVE  /\ \A p \in Prop : stores[p].vid[t] = 0
                      /\ \A p \in Prop : Kind[p].topical => Including(p, {t}) = {}
                      /\ \A i \in DOMAIN lists : t \notin ToSet(lists[i])
    BY DEF DisposedIsGone
  <2>1. t \notin Live /\ t \in Topic
    BY LiveTopics DEF Live, Inv, ControlInv
  <2>2. ASSUME NEW p \in Prop
        PROVE  /\ Sound(stores[p], Kind[p], ValuesOver(p, Live))
               /\ Valued(stores[p]) \subseteq Live
    BY DEF Inv, StoresOver, StoreOver
  <2>3. \A p \in Prop : stores[p].vid[t] = 0
    BY <2>1, <2>2 DEF Valued
  <2>4. ASSUME NEW p \in Prop, Kind[p].topical, NEW v \in Including(p, {t})
        PROVE  FALSE
    <3>1. /\ v \in Vid /\ stores[p].value[v] # NoValue
          /\ t \in TopicsIn(p, stores[p].value[v])
      BY <2>4 DEF Including
    <3>2. stores[p].value[v] \in ValuesOver(p, Live)
      BY <2>2, <3>1 DEF Sound, Consistent, StoreType
    <3>3. TopicsIn(p, stores[p].value[v]) \subseteq Live
      BY <2>4, <3>2, TopicsInValue
    <3> QED BY <2>1, <3>1, <3>3
  <2>5. ASSUME NEW i \in DOMAIN lists PROVE t \notin ToSet(lists[i])
    <3>1. DOMAIN lists[i] = 1..Len(lists[i])
      BY ListElements DEF Lists
    <3>2. \A k \in 1..Len(lists[i]) : lists[i][k] \in Live
      BY ListElements
    <3> QED BY <2>1, <3>1, <3>2 DEF ToSet
  <2> QED BY <2>3, <2>4, <2>5
<1> QED BY <1>1, Invariance, PTL

-----------------------------------------------------------------------------
(* What fully_merge has done by the time it disposes of topics *)

\* The topics behind the first of a list disappear.
Behind(i) == ToSet(Tail(lists[i]))

\* The loops over properties, lists and elements have passed a place.
Passed(q, i) == q < at.prop \/ (q = at.prop /\ i < at.list)

PassedElement(q, i, k) ==
    Passed(q, i) \/ (q = at.prop /\ i = at.list /\ k < at.element)

\* A topic that disappears has no value for a property whose loop has passed it.
ReplacedInv ==
    \A q \in DOMAIN PropOrder, i \in DOMAIN lists : \A k \in 2..Len(lists[i]) :
        PassedElement(q, i, k) => stores[PropOrder[q]].vid[lists[i][k]] = 0

AllReplaced == \A p \in Prop, t \in Disappearing : stores[p].vid[t] = 0

\* No value of p contains a topic that disappears from list i.
Rewritten(p, i) == Kind[p].topical => Including(p, Behind(i)) = {}

RewrittenInv ==
    \A q \in DOMAIN PropOrder, i \in DOMAIN lists :
        Passed(q, i) => Rewritten(PropOrder[q], i)

AllRewritten == \A p \in Prop, i \in DOMAIN lists : Rewritten(p, i)

\* Every value still to be rewritten is among those collected.
CollectedInv == Including(PropOrder[at.prop], Behind(at.list)) \subseteq ToSet(todo)

DisposalInv ==
    /\ phase = "replace" => ReplacedInv
    /\ phase \in {"values", "rewrite", "dispose"} => AllReplaced
    /\ phase \in {"values", "rewrite"} => RewrittenInv
    /\ phase = "rewrite" => CollectedInv
    /\ phase = "dispose" => AllRewritten

\* The places behind the first of a list.
LEMMA BehindList ==
    ASSUME Inv, NEW i \in DOMAIN lists
    PROVE  Behind(i) = {lists[i][k] : k \in 2..Len(lists[i])}
<1>1. lists[i] \in Lists(Live) /\ Len(lists[i]) > 1
  BY ListElements
<1>2. PICK q \in Seq(Live) : q = lists[i] /\ Len(q) > 1 /\ Len(q) \in Nat
  BY <1>1 DEF Lists
<1> DEFINE u == Tail(q)
<1>3. /\ u \in Seq(Live) /\ Len(u) = Len(q) - 1
      /\ \A k \in 1..(Len(q) - 1) : u[k] = q[k + 1]
  BY <1>2
<1> HIDE DEF u
<1>4. ToSet(u) = {u[k] : k \in 1..(Len(q) - 1)}
  <2>1. DOMAIN u = 1..(Len(q) - 1)
    BY <1>3
  <2> QED BY <2>1 DEF ToSet
<1>5. ASSUME NEW t PROVE t \in ToSet(u) <=> \E k \in 2..Len(q) : t = q[k]
  <2>1. ASSUME NEW k \in 2..Len(q) PROVE q[k] \in ToSet(u)
    <3>1. k - 1 \in 1..(Len(q) - 1) /\ (k - 1) + 1 = k
      BY <1>2
    <3> QED BY <1>3, <1>4, <3>1
  <2>2. ASSUME NEW k \in 1..(Len(q) - 1) PROVE \E m \in 2..Len(q) : u[k] = q[m]
    <3>1. k + 1 \in 2..Len(q)
      BY <1>2
    <3> QED BY <1>3, <3>1
  <2> QED BY <1>4, <2>1, <2>2
<1>6. ToSet(u) = {q[k] : k \in 2..Len(q)}
  BY <1>5
<1> QED BY <1>2, <1>6 DEF Behind, u

\* The first topic of a list is in no list's rest.
LEMMA FirstStays ==
    ASSUME Inv, NEW i \in DOMAIN lists, NEW j \in DOMAIN lists
    PROVE  /\ lists[i][1] \notin Behind(j) /\ Head(lists[i]) \notin Behind(j)
           /\ Head(lists[i]) = lists[i][1] /\ Behind(i) \subseteq Live
<1>1. /\ lists[i] \in Lists(Live) /\ Len(lists[i]) > 1 /\ Len(lists[i]) \in Nat
      /\ Head(lists[i]) \notin ToSet(Tail(lists[i]))
      /\ Behind(i) \subseteq Live
  BY ListElements DEF Behind
<1>2. Head(lists[i]) = lists[i][1] /\ DOMAIN lists[i] = 1..Len(lists[i])
  BY <1>1 DEF Lists
<1>3. lists[i][1] \in ToSet(lists[i])
  BY <1>1, <1>2 DEF ToSet
<1>4. CASE i = j
  BY <1>1, <1>2, <1>4 DEF Behind
<1>5. CASE i # j
  <2>1. ToSet(lists[i]) \cap ToSet(lists[j]) = {}
    BY <1>5 DEF Inv, ControlInv, Disjoint
  <2>2. Behind(j) \subseteq ToSet(lists[j])
    <3>1. Behind(j) = {lists[j][k] : k \in 2..Len(lists[j])} /\ Len(lists[j]) \in Nat
      BY BehindList, ListElements
    <3>2. DOMAIN lists[j] = 1..Len(lists[j])
      BY ListElements DEF Lists
    <3> QED BY <3>1, <3>2 DEF ToSet
  <2> QED BY <1>1, <1>2, <1>3, <2>1, <2>2
<1> QED BY <1>4, <1>5

\* The place the loops go to next has passed, besides what they had passed, the
\* list they were at.
LEMMA PassedNext ==
    ASSUME Inv, ListInv, NEW q \in DOMAIN PropOrder, NEW i \in DOMAIN lists,
           MoreLists \/ MoreProps,
           q < NextList.prop \/ (q = NextList.prop /\ i < NextList.list)
    PROVE  Passed(q, i) \/ (q = at.prop /\ i = at.list)
<1>1. /\ at \in [prop : DOMAIN PropOrder, list : Nat, element : Nat]
      /\ at.list \in DOMAIN lists /\ DOMAIN lists = 1..Len(lists)
      /\ Len(lists) \in Nat /\ DOMAIN PropOrder = 1..Len(PropOrder)
      /\ Len(PropOrder) \in Nat
  <2>1. at.list \in DOMAIN lists
    BY DEF ListInv
  <2> QED BY <2>1, ListElements, TopicMapAssumption DEF Inv, ControlInv
<1>2. CASE MoreLists
  <2>1. NextList.prop = at.prop /\ NextList.list = at.list + 1
    BY <1>1, <1>2 DEF NextList
  <2> QED BY <1>1, <2>1 DEF Passed
<1>3. CASE ~MoreLists
  <2>1. NextList.prop = at.prop + 1 /\ NextList.list = 1
    BY <1>3 DEF NextList
  <2> QED BY <1>1, <1>3, <2>1 DEF Passed, MoreLists
<1> QED BY <1>2, <1>3

\* After the last list of the last property they have passed all others.
LEMMA PassedAll ==
    ASSUME Inv, ListInv, NEW q \in DOMAIN PropOrder, NEW i \in DOMAIN lists,
           ~(MoreLists \/ MoreProps)
    PROVE  Passed(q, i) \/ (q = at.prop /\ i = at.list)
<1>1. /\ at \in [prop : DOMAIN PropOrder, list : Nat, element : Nat]
      /\ at.list \in DOMAIN lists /\ DOMAIN lists = 1..Len(lists)
      /\ Len(lists) \in Nat /\ DOMAIN PropOrder = 1..Len(PropOrder)
      /\ Len(PropOrder) \in Nat
  <2>1. at.list \in DOMAIN lists
    BY DEF ListInv
  <2> QED BY <2>1, ListElements, TopicMapAssumption DEF Inv, ControlInv
<1> QED BY <1>1 DEF Passed, MoreLists, MoreProps

\* Every property has a place in the order.
LEMMA PropHasPlace ==
    ASSUME NEW p \in Prop
    PROVE  \E q \in DOMAIN PropOrder : PropOrder[q] = p
BY DEF Prop, ToSet

\* Replacing one topic frees it, and gives no topic that disappears a value.
LEMMA ReplaceFreesOne ==
    ASSUME Inv, ReplaceNext,
           ~ReplaceContradicts(stores[PropOrder[at.prop]], Kind[PropOrder[at.prop]],
                               lists[at.list][1], lists[at.list][at.element])
    PROVE  /\ \A r \in Prop, j \in DOMAIN lists : \A t \in Behind(j) :
                 stores[r].vid[t] = 0 => stores'[r].vid[t] = 0
           /\ stores'[PropOrder[at.prop]].vid[lists[at.list][at.element]] = 0
<1> DEFINE p == PropOrder[at.prop]
           stays == lists[at.list][1]
           disap == lists[at.list][at.element]
<1>1. phase = "replace" /\ status = "ok"
  BY DEF ReplaceNext, Running
<1>2. /\ stores[p].count < MaxVid
      /\ \E order \in ReplaceOrders(stores[p], Kind[p], stays, disap) :
            stores' = [stores EXCEPT ![p] =
                          ReplaceTopic(@, Kind[p], stays, disap, order)]
  BY DEF ReplaceNext, MayStore
<1>3. at.list \in DOMAIN lists /\ at.element \in 2..Len(lists[at.list])
  BY <1>1 DEF Inv, LoopInv, ListInv, ElementInv
<1>4. /\ p \in Prop /\ StoresOver(stores, Live) /\ Live \in SUBSET Topic
  <2>1. at.prop \in DOMAIN PropOrder
    BY DEF Inv, ControlInv
  <2> QED BY <2>1, PropsInOrder, LiveTopics DEF Inv
<1>5. stays \in Topic /\ disap \in Topic /\ stays # disap
  <2>1. /\ Len(lists[at.list]) > 1 /\ Len(lists[at.list]) \in Nat
        /\ \A k \in 1..Len(lists[at.list]) : lists[at.list][k] \in Live
        /\ \A k \in 2..Len(lists[at.list]) : lists[at.list][k] # lists[at.list][1]
    BY <1>3, ListElements
  <2>2. 1 \in 1..Len(lists[at.list]) /\ at.element \in 1..Len(lists[at.list])
    BY <1>3, <2>1
  <2> QED BY <1>3, <1>4, <2>1, <2>2
<1>6. \A j \in DOMAIN lists : stays \notin Behind(j) /\ Behind(j) \subseteq Topic
  BY <1>3, <1>4, FirstStays
<1>7. ~ReplaceContradicts(stores[p], Kind[p], stays, disap)
  OBVIOUS
<1> HIDE DEF p, stays, disap
<1>8. PICK order \in ReplaceOrders(stores[p], Kind[p], stays, disap) :
         stores' = [stores EXCEPT ![p] =
                       ReplaceTopic(@, Kind[p], stays, disap, order)]
  BY <1>2
<1> DEFINE n == ReplaceTopic(stores[p], Kind[p], stays, disap, order)
<1>9. /\ Sound(stores[p], Kind[p], ValuesOver(p, Live))
      /\ ~(Kind[p].combines /\ Kind[p].topical)
  BY <1>4, TopicalKinds DEF StoresOver, StoreOver
<1>10. Valued(n) \subseteq Valued(stores[p]) \cup {stays}
  BY <1>2, <1>5, <1>9, ReplaceValues
<1>11. disap \notin Valued(n)
  BY <1>2, <1>5, <1>7, <1>9, ReplaceFrees
<1>12. stores'[p] = n /\ \A r \in Prop : r # p => stores'[r] = stores[r]
  BY <1>4, <1>8 DEF StoresOver
<1> HIDE DEF n
<1>13. stores'[p].vid[disap] = 0
  BY <1>5, <1>11, <1>12 DEF Valued
<1>14. ASSUME NEW r \in Prop, NEW j \in DOMAIN lists, NEW t \in Behind(j),
              stores[r].vid[t] = 0
       PROVE  stores'[r].vid[t] = 0
  <2>1. CASE r # p
    BY <1>12, <1>14, <2>1
  <2>2. CASE r = p
    <3>1. t \in Topic /\ t # stays /\ t \notin Valued(stores[p])
      BY <1>6, <1>14, <2>2 DEF Valued
    <3>2. t \notin Valued(n)
      BY <1>10, <3>1
    <3> QED BY <1>12, <2>2, <3>1, <3>2 DEF Valued
  <2> QED BY <2>1, <2>2
<1> QED BY <1>13, <1>14 DEF p, disap

\* The loop that replaces topics leaves those it has passed without a value.
LEMMA ReplaceKeepsDisposal ==
    ASSUME Inv, DisposalInv, ReplaceNext
    PROVE  DisposalInv'
<1> DEFINE p == PropOrder[at.prop]
           contradicts == ReplaceContradicts(stores[p], Kind[p], lists[at.list][1],
                                             lists[at.list][at.element])
<1>1. /\ phase = "replace" /\ status = "ok" /\ lists' = lists
      /\ ReplacedInv /\ ListInv /\ ElementInv
  BY DEF ReplaceNext, Running, DisposalInv, Inv, LoopInv
<1>2. contradicts => phase' = "idle"
  BY DEF ReplaceNext, Return
<1>3. ~contradicts =>
        IF MoreElements
        THEN at' = [at EXCEPT !.element = @ + 1] /\ phase' = phase
        ELSE IF MoreLists \/ MoreProps
        THEN at' = NextList /\ phase' = phase
        ELSE at' = Start /\ phase' = "values"
  BY DEF ReplaceNext
<1>4. /\ at \in [prop : DOMAIN PropOrder, list : Nat, element : Nat]
      /\ at.list \in DOMAIN lists /\ at.element \in 2..Len(lists[at.list])
      /\ \A i \in DOMAIN lists : Len(lists[i]) \in Nat
      /\ at.prop \in Nat /\ DOMAIN PropOrder \subseteq Nat /\ DOMAIN lists \subseteq Nat
  <2>1. DOMAIN PropOrder \subseteq Nat
    BY TopicMapAssumption
  <2>2. at.list \in DOMAIN lists /\ at.element \in 2..Len(lists[at.list])
    BY <1>1 DEF ListInv, ElementInv
  <2>3. \A i \in DOMAIN lists : Len(lists[i]) \in Nat /\ DOMAIN lists = 1..Len(lists)
    BY ListElements
  <2> QED BY <2>1, <2>2, <2>3 DEF Inv, ControlInv
<1>5. CASE contradicts
  BY <1>2, <1>5 DEF DisposalInv
<1>6. CASE ~contradicts
  <2>1. /\ \A r \in Prop, j \in DOMAIN lists : \A t \in Behind(j) :
              stores[r].vid[t] = 0 => stores'[r].vid[t] = 0
        /\ stores'[p].vid[lists[at.list][at.element]] = 0
    BY <1>6, ReplaceFreesOne
  <2>2. ASSUME NEW q \in DOMAIN PropOrder, NEW i \in DOMAIN lists,
               NEW k \in 2..Len(lists[i]),
               \/ PassedElement(q, i, k)
               \/ q = at.prop /\ i = at.list /\ k = at.element
        PROVE  stores'[PropOrder[q]].vid[lists[i][k]] = 0
    <3>1. CASE q = at.prop /\ i = at.list /\ k = at.element
      BY <2>1, <3>1
    <3>2. CASE PassedElement(q, i, k)
      <4>1. stores[PropOrder[q]].vid[lists[i][k]] = 0
        BY <1>1, <3>2 DEF ReplacedInv
      <4>2. lists[i][k] \in Behind(i)
        BY BehindList
      <4>3. PropOrder[q] \in Prop
        BY PropsInOrder
      <4> QED BY <2>1, <4>1, <4>2, <4>3
    <3> QED BY <2>2, <3>1, <3>2
  <2> HIDE DEF contradicts
  <2>3. CASE MoreElements
    <3>1. at' = [at EXCEPT !.element = @ + 1] /\ phase' = "replace"
      BY <1>1, <1>3, <1>6, <2>3
    <3>2. /\ at'.prop = at.prop /\ at'.list = at.list
          /\ at'.element = at.element + 1
      BY <1>4, <3>1
    <3>3. ASSUME NEW q \in DOMAIN PropOrder, NEW i \in DOMAIN lists,
                 NEW k \in 2..Len(lists[i]), PassedElement(q, i, k)'
          PROVE  stores'[PropOrder[q]].vid[lists[i][k]] = 0
      <4>1. /\ PassedElement(q, i, k)
                 \/ (q = at.prop /\ i = at.list /\ k = at.element)
        BY <1>4, <3>2, <3>3 DEF PassedElement, Passed
      <4> QED BY <2>2, <4>1
    <3>4. ReplacedInv'
      BY <1>1, <3>3 DEF ReplacedInv
    <3> QED BY <3>1, <3>4 DEF DisposalInv
  <2>4. CASE ~MoreElements /\ (MoreLists \/ MoreProps)
    <3>1. at' = NextList /\ phase' = "replace" /\ NextList.element = 2
      BY <1>1, <1>3, <1>6, <2>4, NextListTyped
    <3>2. ASSUME NEW q \in DOMAIN PropOrder, NEW i \in DOMAIN lists,
                 NEW k \in 2..Len(lists[i]), PassedElement(q, i, k)'
          PROVE  stores'[PropOrder[q]].vid[lists[i][k]] = 0
      <4>1. q < NextList.prop \/ (q = NextList.prop /\ i < NextList.list)
        BY <3>1, <3>2 DEF PassedElement, Passed
      <4>2. Passed(q, i) \/ (q = at.prop /\ i = at.list)
        BY <1>1, <2>4, <4>1, PassedNext
      <4>3. PassedElement(q, i, k)
                 \/ (q = at.prop /\ i = at.list /\ k = at.element)
        BY <1>4, <2>4, <4>2 DEF PassedElement, MoreElements
      <4> QED BY <2>2, <4>3
    <3>3. ReplacedInv'
      BY <1>1, <3>2 DEF ReplacedInv
    <3> QED BY <3>1, <3>3 DEF DisposalInv
  <2>5. CASE ~MoreElements /\ ~(MoreLists \/ MoreProps)
    <3>1. at' = Start /\ phase' = "values"
      BY <1>3, <1>6, <2>5
    <3>2. ASSUME NEW r \in Prop, NEW t \in Disappearing
          PROVE  stores'[r].vid[t] = 0
      <4>1. PICK q \in DOMAIN PropOrder : PropOrder[q] = r
        BY PropHasPlace
      <4>2. PICK i \in DOMAIN lists : t \in Behind(i)
        BY DEF Disappearing, Behind
      <4>3. PICK k \in 2..Len(lists[i]) : t = lists[i][k]
        BY <4>2, BehindList
      <4>4. Passed(q, i) \/ (q = at.prop /\ i = at.list)
        BY <1>1, <2>5, PassedAll
      <4>5. PassedElement(q, i, k)
                 \/ (q = at.prop /\ i = at.list /\ k = at.element)
        BY <1>4, <2>5, <4>4 DEF PassedElement, MoreElements
      <4> QED BY <2>2, <4>1, <4>3, <4>5
    <3>3. Disappearing' = Disappearing
      BY <1>1 DEF Disappearing
    <3>4. AllReplaced'
      BY <3>2, <3>3 DEF AllReplaced
    <3>5. RewrittenInv'
      <4>1. at'.prop = 1 /\ at'.list = 1
        BY <3>1, StartTyped
      <4>2. \A q \in DOMAIN PropOrder, i \in DOMAIN lists : ~Passed(q, i)'
        <5>1. \A q \in DOMAIN PropOrder, i \in DOMAIN lists : q >= 1 /\ i >= 1
                 /\ q \in Nat /\ i \in Nat
          BY TopicMapAssumption, ListElements
        <5> QED BY <4>1, <5>1 DEF Passed
      <4> QED BY <1>1, <4>2 DEF RewrittenInv
    <3> QED BY <3>1, <3>4, <3>5 DEF DisposalInv
  <2> QED BY <2>3, <2>4, <2>5
<1> QED BY <1>5, <1>6

\* After a list whose topics no value contains any more, the loops go on, or have
\* rewritten everything.
LEMMA AfterListDisposal ==
    ASSUME Inv, ListInv, AfterList, lists' = lists, AllReplaced',
           \A q \in DOMAIN PropOrder, i \in DOMAIN lists :
              Passed(q, i) \/ (q = at.prop /\ i = at.list)
                 => Rewritten(PropOrder[q], i)'
    PROVE  DisposalInv'
<1>1. CASE MoreLists \/ MoreProps
  <2>1. at' = NextList /\ phase' = "values"
    BY <1>1 DEF AfterList
  <2>2. ASSUME NEW q \in DOMAIN PropOrder, NEW i \in DOMAIN lists, Passed(q, i)'
        PROVE  Rewritten(PropOrder[q], i)'
    <3>1. q < NextList.prop \/ (q = NextList.prop /\ i < NextList.list)
      BY <2>1, <2>2 DEF Passed
    <3>2. Passed(q, i) \/ (q = at.prop /\ i = at.list)
      BY <1>1, <3>1, PassedNext
    <3> QED BY <3>2
  <2>3. RewrittenInv'
    BY <2>2 DEF RewrittenInv
  <2> QED BY <2>1, <2>3 DEF DisposalInv
<1>2. CASE ~(MoreLists \/ MoreProps)
  <2>1. at' = Start /\ phase' = "dispose"
    BY <1>2 DEF AfterList
  <2>2. ASSUME NEW r \in Prop, NEW i \in DOMAIN lists PROVE Rewritten(r, i)'
    <3>1. PICK q \in DOMAIN PropOrder : PropOrder[q] = r
      BY PropHasPlace
    <3>2. Passed(q, i) \/ (q = at.prop /\ i = at.list)
      BY <1>2, PassedAll
    <3> QED BY <3>1, <3>2
  <2>3. AllRewritten'
    BY <2>2 DEF AllRewritten
  <2> QED BY <2>1, <2>3 DEF DisposalInv
<1> QED BY <1>1, <1>2

\* Collecting vids finds every value that a topic to disappear is in.
LEMMA CollectKeepsDisposal ==
    ASSUME Inv, DisposalInv, CollectVids
    PROVE  DisposalInv'
<1> DEFINE p == PropOrder[at.prop]
           vids == IF Kind[p].topical
                   THEN Including(p, ToSet(Tail(lists[at.list]))) ELSE {}
<1>1. /\ phase = "values" /\ status = "ok"
      /\ IF vids = {} THEN AfterList /\ UNCHANGED todo
         ELSE todo' \in Orders(vids) /\ phase' = "rewrite" /\ UNCHANGED at
      /\ stores' = stores /\ lists' = lists
  BY DEF CollectVids, Running, core
<1>2. ListInv /\ AllReplaced /\ RewrittenInv
  BY <1>1 DEF Inv, LoopInv, DisposalInv
<1>3. AllReplaced'
  BY <1>1, <1>2 DEF AllReplaced, Disappearing
<1>4. \A r, i : Rewritten(r, i)' <=> Rewritten(r, i)
  BY <1>1 DEF Rewritten, Including, Behind
<1>5. CASE vids = {}
  <2>1. Rewritten(p, at.list)
    BY <1>5 DEF Rewritten, Behind
  <2> HIDE DEF p, vids
  <2>2. \A q \in DOMAIN PropOrder, i \in DOMAIN lists :
           Passed(q, i) \/ (q = at.prop /\ i = at.list)
              => Rewritten(PropOrder[q], i)'
    BY <1>2, <1>4, <2>1 DEF RewrittenInv, p
  <2> QED BY <1>1, <1>2, <1>3, <1>5, <2>2, AfterListDisposal
<1>6. CASE vids # {}
  <2>1. /\ todo' \in Orders(vids) /\ phase' = "rewrite" /\ at' = at
        /\ vids = Including(p, Behind(at.list))
    BY <1>1, <1>6 DEF Behind
  <2>2. ToSet(todo') = vids
    BY <2>1 DEF Orders
  <2>3. Including(PropOrder[at.prop], Behind(at.list))'
           = Including(p, Behind(at.list))
    BY <1>1, <2>1 DEF Including, Behind
  <2>4. CollectedInv'
    BY <2>1, <2>2, <2>3 DEF CollectedInv
  <2>5. RewrittenInv'
    BY <1>1, <1>2, <1>4, <2>1 DEF RewrittenInv, Passed
  <2> QED BY <1>3, <2>1, <2>4, <2>5 DEF DisposalInv
<1> QED BY <1>5, <1>6

\* Substitution brings no topic into a value but the first of the list.
LEMMA SubstitutedTopics ==
    ASSUME NEW p \in Prop, Kind[p].topical, NEW T, NEW set,
           NEW val \in ValuesOver(p, T)
    PROVE  /\ TopicsIn(p, Substituted(p, set, val))
                 \subseteq TopicsIn(p, val) \cup {Head(set)}
           /\ Head(set) \notin ToSet(Tail(set)) =>
                 TopicsIn(p, Substituted(p, set, val)) \cap ToSet(Tail(set)) = {}
<1> DEFINE new == Substituted(p, set, val)
<1>1. \A t : /\ Subst(set, t) \in {t, Head(set)}
             /\ Head(set) \notin ToSet(Tail(set)) =>
                   Subst(set, t) \notin ToSet(Tail(set))
  BY DEF Subst
<1>2. p \in {ASidp, TSidp} /\ ASidp # TSidp
  BY TopicalKinds DEF ASidp, TSidp
<1>3. ASSUME NEW u \in TopicsIn(p, new)
      PROVE  \E t \in TopicsIn(p, val) : u = Subst(set, t)
  <2>1. CASE p = ASidp
    <3> DEFINE m == val.members
               R == {Subst(set, q) : q \in DOMAIN m}
               at_(r) == CHOOSE q \in DOMAIN m : Subst(set, q) = r
               n == [r \in R |-> Subst(set, m[at_(r)])]
    <3>1. new = [type |-> Subst(set, val.type), members |-> n]
      BY <2>1 DEF Substituted
    <3>2. \A r \in R : at_(r) \in DOMAIN m
      OBVIOUS
    <3>3. DOMAIN n = R /\ \A r \in R : n[r] = Subst(set, m[at_(r)])
      OBVIOUS
    <3>4. TopicsIn(p, val) = {val.type} \cup DOMAIN m \cup {m[r] : r \in DOMAIN m}
      BY <2>1 DEF TopicsIn
    <3> HIDE DEF at_, m, n, new
    <3>5. TopicsIn(p, new) = {Subst(set, val.type)} \cup R \cup {n[r] : r \in R}
      BY <2>1, <3>1, <3>3 DEF TopicsIn
    <3>6. CASE u = Subst(set, val.type) \/ u \in R
      BY <3>4, <3>6
    <3>7. CASE u \in {n[r] : r \in R}
      <4>1. PICK r \in R : u = n[r]
        BY <3>7
      <4>2. u = Subst(set, m[at_(r)]) /\ at_(r) \in DOMAIN m
        BY <3>2, <3>3, <4>1
      <4> HIDE DEF R
      <4> QED BY <3>4, <4>2
    <3> QED BY <3>5, <3>6, <3>7
  <2>2. CASE p = TSidp
    BY <1>2, <2>2 DEF TopicsIn, Substituted
  <2> QED BY <1>2, <2>1, <2>2
<1> HIDE DEF new
<1>4. TopicsIn(p, new) \subseteq TopicsIn(p, val) \cup {Head(set)}
  BY <1>1, <1>3
<1>5. Head(set) \notin ToSet(Tail(set)) => TopicsIn(p, new) \cap ToSet(Tail(set)) = {}
  BY <1>1, <1>3
<1> QED BY <1>4, <1>5 DEF new

\* Rewriting a value brings no topic back that disappears, and leaves one value
\* fewer to be rewritten.
LEMMA RewriteKeepsDisposal ==
    ASSUME Inv, DisposalInv, RewriteValue
    PROVE  status' = "ok" => DisposalInv'
<1> SUFFICES ASSUME status' = "ok" PROVE DisposalInv'
  OBVIOUS
<1> DEFINE p == PropOrder[at.prop]
           set == lists[at.list]
           v == Head(todo)
           val == stores[p].value[v]
           new == Substituted(p, set, val)
           n == ReplaceValue(stores[p], Kind[p], v, new)
<1>1. /\ phase = "rewrite" /\ status = "ok" /\ lists' = lists
      /\ todo' = Tail(todo)
      /\ IF todo' = <<>> THEN AfterList ELSE UNCHANGED <<at, phase>>
      /\ ~CannotSubstitute(p, set, val)
  BY DEF RewriteValue, Running
<1>2. /\ ListInv /\ RewriteInv /\ AllReplaced /\ RewrittenInv /\ CollectedInv
  BY <1>1 DEF Inv, LoopInv, DisposalInv
<1>3. /\ p \in Prop /\ v \in Vid /\ val # NoValue /\ val \in ValuesOver(p, Live)
      /\ stores' = [stores EXCEPT ![p] = n]
      /\ Valued(n) \subseteq Valued(stores[p])
      /\ AddsOnly(n, stores[p], v, new)
  BY <1>1, RewriteChanges
<1>4. Kind[p].topical /\ at.list \in DOMAIN lists /\ todo # <<>>
      /\ todo \in Seq(Including(p, Behind(at.list)))
  BY <1>2 DEF RewriteInv, ListInv, Behind
<1>5. /\ TopicsIn(p, new) \subseteq TopicsIn(p, val) \cup {Head(set)}
      /\ \A j \in DOMAIN lists : Head(set) \notin Behind(j) /\ Behind(j) \subseteq Topic
      /\ TopicsIn(p, new) \cap Behind(at.list) = {}
  <2>1. /\ TopicsIn(p, new) \subseteq TopicsIn(p, val) \cup {Head(set)}
        /\ Head(set) \notin ToSet(Tail(set)) =>
              TopicsIn(p, new) \cap ToSet(Tail(set)) = {}
    BY <1>3, <1>4, SubstitutedTopics
  <2>2. \A j \in DOMAIN lists : Head(set) \notin Behind(j) /\ Behind(j) \subseteq Topic
    BY <1>4, FirstStays, LiveTopics
  <2> QED BY <1>4, <2>1, <2>2 DEF Behind
<1>6. stores' = [r \in Prop |-> IF r = p THEN n ELSE stores[r]]
  BY <1>3 DEF Inv, StoresOver
<1>7. PICK c \in Prop, l \in DOMAIN lists : c = p /\ l = at.list
  BY <1>3, <1>4
<1> DEFINE left == Behind(l)
<1>8. /\ stores' = [r \in Prop |-> IF r = c THEN n ELSE stores[r]]
      /\ Valued(n) \subseteq Valued(stores[c])
      /\ AddsOnly(n, stores[c], v, new) /\ Kind[c].topical
      /\ TopicsIn(c, new) \subseteq TopicsIn(c, val) \cup {Head(set)}
      /\ TopicsIn(c, new) \cap left = {}
      /\ val = stores[c].value[v]
      /\ todo \in Seq(Including(c, left)) /\ Including(c, left) \subseteq ToSet(todo)
  BY <1>2, <1>3, <1>4, <1>5, <1>6, <1>7 DEF CollectedInv
<1> HIDE DEF p, v, val, n, new, set, left
<1>9. AllReplaced'
  <2>1. Disappearing \subseteq Topic
    BY DisappearingLive, LiveTopics
  <2>2. ASSUME NEW r \in Prop, NEW t \in Disappearing PROVE stores'[r].vid[t] = 0
    <3>1. stores[r].vid[t] = 0
      BY <1>2 DEF AllReplaced
    <3>2. CASE r = c
      BY <1>8, <2>1, <3>1, <3>2 DEF Valued
    <3>3. CASE r # c
      BY <1>8, <3>1, <3>3
    <3> QED BY <3>2, <3>3
  <2>3. Disappearing' = Disappearing
    BY <1>1 DEF Disappearing
  <2> QED BY <2>2, <2>3 DEF AllReplaced
<1>10. ASSUME NEW i \in DOMAIN lists, NEW u \in Including(c, Behind(i))'
       PROVE  \/ u # v /\ u \in Including(c, Behind(i))
              \/ i # l /\ v \in Including(c, Behind(i))
  <2>1. Behind(i)' = Behind(i) /\ stores'[c] = n
    BY <1>1, <1>8 DEF Behind
  <2>2. /\ u \in Vid /\ n.value[u] # NoValue
        /\ TopicsIn(c, n.value[u]) \cap Behind(i) # {}
    BY <1>10, <2>1 DEF Including
  <2>3. n.value[u] = new \/ (u # v /\ n.value[u] = stores[c].value[u])
    BY <1>8, <2>2 DEF AddsOnly
  <2>4. CASE n.value[u] = new
    <3>1. i # l
      BY <1>8, <2>2, <2>4 DEF left
    <3>2. TopicsIn(c, val) \cap Behind(i) # {}
      BY <1>5, <1>8, <2>2, <2>4
    <3> QED BY <1>3, <1>8, <3>1, <3>2 DEF Including
  <2>5. CASE u # v /\ n.value[u] = stores[c].value[u]
    BY <2>2, <2>5 DEF Including
  <2> QED BY <2>3, <2>4, <2>5
<1>11. ASSUME NEW q \in DOMAIN PropOrder, NEW i \in DOMAIN lists, Passed(q, i)
       PROVE  Rewritten(PropOrder[q], i)'
  <2>1. Rewritten(PropOrder[q], i) /\ PropOrder[q] \in Prop
    BY <1>2, <1>11, PropsInOrder DEF RewrittenInv
  <2>2. CASE PropOrder[q] # c
    <3>1. stores'[PropOrder[q]] = stores[PropOrder[q]] /\ Behind(i)' = Behind(i)
      BY <1>1, <1>8, <2>1, <2>2 DEF Behind
    <3> QED BY <2>1, <3>1 DEF Rewritten, Including
  <2>3. CASE PropOrder[q] = c
    <3>1. Including(c, Behind(i)) = {}
      BY <1>8, <2>1, <2>3 DEF Rewritten
    <3>2. Including(c, Behind(i))' = {}
      BY <1>10, <3>1
    <3> QED BY <2>3, <3>2 DEF Rewritten
  <2> QED BY <2>2, <2>3
<1>12. ASSUME NEW u \in Including(c, Behind(l))' PROVE u \in ToSet(todo')
  <2>1. u # v /\ u \in Including(c, left)
    BY <1>10, <1>12 DEF left
  <2> DEFINE I == Including(c, left)
             w == Tail(todo)
  <2>2. todo \in Seq(I) /\ todo # <<>> /\ u \in ToSet(todo)
    BY <1>4, <1>8, <2>1
  <2> HIDE DEF I
  <2>3. /\ Len(todo) \in Nat /\ DOMAIN todo = 1..Len(todo) /\ v = todo[1]
        /\ w \in Seq(I) /\ Len(w) = Len(todo) - 1
        /\ \A k \in 1..(Len(todo) - 1) : w[k] = todo[k + 1]
    BY <2>2 DEF v
  <2> HIDE DEF w
  <2>4. PICK k \in 1..Len(todo) : todo[k] = u
    BY <2>2, <2>3 DEF ToSet
  <2>5. k - 1 \in 1..(Len(todo) - 1) /\ (k - 1) + 1 = k
    BY <2>1, <2>3, <2>4
  <2>6. w[k - 1] = u /\ k - 1 \in DOMAIN w
    BY <2>3, <2>4, <2>5
  <2>7. u \in ToSet(w)
    BY <2>6 DEF ToSet
  <2> QED BY <1>1, <2>7 DEF w
<1>13. CASE todo' = <<>>
  <2>1. Including(c, Behind(l))' = {}
    BY <1>12, <1>13 DEF ToSet
  <2>2. Rewritten(c, l)'
    BY <2>1 DEF Rewritten
  <2>3. \A q \in DOMAIN PropOrder, i \in DOMAIN lists :
           Passed(q, i) \/ (q = at.prop /\ i = at.list)
              => Rewritten(PropOrder[q], i)'
    BY <1>7, <1>11, <2>2 DEF p
  <2> QED BY <1>1, <1>2, <1>9, <1>13, <2>3, AfterListDisposal
<1>14. CASE todo' # <<>>
  <2>1. phase' = "rewrite" /\ at' = at
    BY <1>1, <1>14
  <2>2. RewrittenInv'
    BY <1>1, <1>11, <2>1 DEF RewrittenInv, Passed
  <2>3. CollectedInv'
    <3>1. Including(PropOrder[at.prop], Behind(at.list))' = Including(c, Behind(l))'
      BY <1>7, <2>1 DEF p
    <3> QED BY <1>12, <3>1 DEF CollectedInv
  <2> QED BY <1>9, <2>1, <2>2, <2>3 DEF DisposalInv
<1> QED BY <1>13, <1>14

\* What the asserts of _dispose_topic demand holds when it is reached.
LEMMA DisposeAllowed ==
    ASSUME Inv, DisposalInv, phase = "dispose"
    PROVE  NamedOnce /\ \A t \in Disappearing : MayDispose(t)
<1>1. NamedOnce
  <2>1. \A i \in DOMAIN lists : IsInjective(lists[i])
    BY ListElements DEF Lists
  <2> QED BY <2>1 DEF NamedOnce, Inv, ControlInv, Disjoint
<1>2. ASSUME NEW t \in Disappearing PROVE MayDispose(t)
  <2>1. t \notin disposed
    BY DisappearingLive DEF Live
  <2>2. ASSUME NEW p \in Prop PROVE stores[p].vid[t] = 0
    BY DEF DisposalInv, AllReplaced
  <2>3. ASSUME NEW p \in Prop, Kind[p].topical PROVE Including(p, {t}) = {}
    <3>1. PICK i \in DOMAIN lists : t \in Behind(i)
      BY DEF Disappearing, Behind
    <3>2. Including(p, Behind(i)) = {}
      BY <2>3 DEF DisposalInv, AllRewritten, Rewritten
    <3>3. Including(p, {t}) \subseteq Including(p, Behind(i))
      BY <3>1 DEF Including
    <3> QED BY <3>2, <3>3
  <2> QED BY <2>1, <2>2, <2>3 DEF MayDispose
<1> QED BY <1>1, <1>2

\* Where no loop over merge lists runs there is nothing to keep.
LEMMA QuietDisposal ==
    ASSUME phase' \in {"idle", "subject", "loop", "normalize"}
    PROVE  DisposalInv'
BY DEF DisposalInv

\* The loop over the merge lists begins with nothing replaced.
LEMMA NormalizeKeepsDisposal ==
    ASSUME Inv, NormalizeNext
    PROVE  DisposalInv'
<1>1. /\ phase = "normalize"
      /\ IF at.prop < Len(PropOrder)
         THEN phase' = phase
         ELSE /\ at' = Start
              /\ phase' = IF lists' = <<>> THEN "loop" ELSE "replace"
  BY DEF NormalizeNext, Running
<1>2. CASE phase' # "replace"
  BY <1>1, <1>2, QuietDisposal
<1>3. CASE phase' = "replace"
  <2>1. at'.prop = 1 /\ at'.list = 1 /\ at'.element = 2
    BY <1>1, <1>3, StartTyped
  <2>2. lists' \in Seq(Lists(Live'))
    BY NormalizeKeepsInv DEF Inv, ControlInv, LongLists
  <2>3. ASSUME NEW q \in DOMAIN PropOrder, NEW i \in DOMAIN lists',
               NEW k \in 2..Len(lists'[i])
        PROVE  ~PassedElement(q, i, k)'
    <3>1. q \in Nat \ {0}
      BY TopicMapAssumption
    <3>2. i \in Nat \ {0} /\ Len(lists'[i]) \in Nat
      BY <2>2 DEF Lists
    <3> QED BY <2>1, <3>1, <3>2 DEF PassedElement, Passed
  <2>4. ReplacedInv'
    BY <2>3 DEF ReplacedInv
  <2> QED BY <1>3, <2>4 DEF DisposalInv
<1> QED BY <1>2, <1>3

\* Every step keeps what the disposal relies on.
LEMMA NextKeepsDisposal ==
    ASSUME Inv, status = "ok" => DisposalInv, [Next]_vars
    PROVE  status' = "ok" => DisposalInv'
<1>1. CASE Call
  <2>1. phase' \in {"idle", "subject", "loop"}
    BY <1>1 DEF Call, AddSubject, AddPropertyToTopic, AddAssertion, FullyMerge, Idle
  <2> QED BY <2>1, QuietDisposal
<1>2. CASE AddSubjectProperty
  <2>1. phase' \in {"idle", "subject"}
    BY <1>2 DEF AddSubjectProperty
  <2> QED BY <2>1, QuietDisposal
<1>3. CASE WhileNotNormalized
  <2>1. phase' \in {"idle", "loop", "normalize"}
    BY <1>3 DEF WhileNotNormalized, Return, Running
  <2> QED BY <2>1, QuietDisposal
<1>4. CASE NormalizeNext
  BY <1>4, NormalizeKeepsDisposal
<1>5. CASE ReplaceNext
  BY <1>5, ReplaceKeepsDisposal DEF ReplaceNext, Running
<1>6. CASE CollectVids
  BY <1>6, CollectKeepsDisposal DEF CollectVids, Running
<1>7. CASE RewriteValue
  BY <1>7, RewriteKeepsDisposal DEF RewriteValue, Running
<1>8. CASE Dispose
  <2>1. phase' = "loop" \/ status' = "aborted"
    BY <1>8 DEF Dispose
  <2> QED BY <2>1, QuietDisposal
<1>9. CASE UNCHANGED vars
  <2>1. /\ stores' = stores /\ lists' = lists /\ phase' = phase /\ at' = at
        /\ todo' = todo /\ status' = status
    BY <1>9 DEF vars, core, control
  <2>2. /\ ReplacedInv' = ReplacedInv /\ AllReplaced' = AllReplaced
        /\ RewrittenInv' = RewrittenInv /\ CollectedInv' = CollectedInv
        /\ AllRewritten' = AllRewritten
    BY <2>1 DEF ReplacedInv, AllReplaced, RewrittenInv, CollectedInv, AllRewritten,
       PassedElement, Passed, Rewritten, Including, Behind, Disappearing
  <2> QED BY <2>1, <2>2 DEF DisposalInv
<1> QED BY <1>1, <1>2, <1>3, <1>4, <1>5, <1>6, <1>7, <1>8, <1>9
    DEF Next, Step, MergeStep

\* It holds, too, in every state a program can reach.
LEMMA DisposalReady == Spec => [](Inv /\ (status = "ok" => DisposalInv))
<1> DEFINE Ready == status = "ok" => DisposalInv
<1>1. Init => Inv /\ Ready
  BY InitInv DEF Init, DisposalInv
<1>2. Inv /\ Ready /\ [Next]_vars => (Inv /\ Ready)'
  BY NextKeepsInv, NextKeepsDisposal
<1> HIDE DEF Ready
<1>3. Spec => [](Inv /\ Ready)
  BY <1>1, <1>2, PTL DEF Spec
<1> QED BY <1>3 DEF Ready

\* Such a step to a failed assert has one of three reasons.
LEMMA OnlyExplainedAborts ==
    ASSUME Inv, DisposalInv, [Next]_vars, status = "ok", status' = "aborted"
    PROVE  AbortExplained
<1>0. \A p \in Prop : ~stores'[p].aborted
  BY NextKeepsInv DEF Inv, StoresOver, StoreOver, Sound, Consistent
<1>1. ~Failed
  BY <1>0 DEF Failed
<1>2. CASE Call
  <2>1. \A subject \in Subjects : ~AddSubject(subject)
    BY DEF AddSubject
  <2>2. \A t \in Topic, l \in Literals : ~AddPropertyToTopic(t, l[1], l[2])
    BY <1>1 DEF AddPropertyToTopic, AddProperty
  <2>3. ~FullyMerge
    BY DEF FullyMerge
  <2>4. PICK a \in Topic, asidp \in Forms : AddAssertion(a, asidp)
    BY <1>2, <2>1, <2>2, <2>3 DEF Call
  <2>5. stores[ASidp].vid[a] # 0
    BY <1>1, <2>4 DEF AddAssertion
  <2> QED BY <2>4, <2>5 DEF AbortExplained
<1>3. CASE AddSubjectProperty
  BY <1>1, <1>3 DEF AddSubjectProperty, AddProperty
<1>4. CASE WhileNotNormalized
  BY <1>4 DEF WhileNotNormalized, Running, AbortExplained
<1>5. CASE NormalizeNext
  BY <1>5 DEF NormalizeNext
<1>6. CASE ReplaceNext
  BY <1>1, <1>6 DEF ReplaceNext
<1>7. CASE CollectVids
  BY <1>7 DEF CollectVids
<1>8. CASE RewriteValue
  <2>1. PropOrder[at.prop] \in Prop
    BY RewriteChanges, <1>8
  <2> QED BY <1>0, <1>8, <2>1 DEF RewriteValue, Running, AbortExplained
<1>9. CASE Dispose
  <2>1. NamedOnce /\ \A t \in Disappearing : MayDispose(t)
    BY <1>9, DisposeAllowed DEF Dispose, Running
  <2> QED BY <1>9, <2>1 DEF Dispose
<1>10. CASE UNCHANGED vars
  BY <1>10 DEF vars, control
<1> QED BY <1>2, <1>3, <1>4, <1>5, <1>6, <1>7, <1>8, <1>9, <1>10
    DEF Next, Step, MergeStep

\* An assert fails for one of three reasons only: fully_merge is called after it
\* has returned with an error, two topics of one role set or two roles of one
\* assertion are to become one, or an assertion topic is given a second
\* assertion.  The asserts of _dispose_topic and of the stores never fail
\* (src/src/topicmap.c).
THEOREM AssertsAreExplained == Spec => AssertsExplained
<1>1. Inv /\ (status = "ok" => DisposalInv) /\ [Next]_vars
         => (status = "ok" /\ status' = "aborted" => AbortExplained)
  BY OnlyExplainedAborts
<1>2. Inv /\ (status = "ok" => DisposalInv) /\ [Next]_vars
         => [status = "ok" /\ status' = "aborted" => AbortExplained]_vars
  BY <1>1
<1> QED BY <1>2, DisposalReady, PTL DEF Spec, AssertsExplained

-----------------------------------------------------------------------------
(* Programs that add combining properties only *)

\* Nothing is asserted, and every property given from outside combines.
CombiningOnly == Forms = {} /\ \A l \in Literals : Kind[l[1]].combines

CombiningValued(f) == \A p \in Prop : ~Kind[p].combines => Valued(f[p]) = {}

\* A property that does not combine has no values, no value is rewritten, and
\* fully_merge leaves no merge lists when it returns, since it never finds a
\* contradiction.
CombiningInv ==
    /\ CombiningValued(stores)
    /\ phase # "rewrite"
    /\ status # "aborted"
    /\ status = "ok" /\ phase \in {"idle", "subject", "loop"} => lists = <<>>

\* One store changes: that of a combining property, or to one without values.
LEMMA OneStoreCombining ==
    ASSUME NEW f, NEW T, StoresOver(f, T), CombiningValued(f), NEW p \in Prop,
           NEW s, Kind[p].combines \/ Valued(s) = {}
    PROVE  CombiningValued([f EXCEPT ![p] = s])
<1>1. \A q \in Prop : [f EXCEPT ![p] = s][q] = IF q = p THEN s ELSE f[q]
  BY DEF StoresOver
<1> QED BY <1>1 DEF CombiningValued

\* A property that is given to a topic combines.
LEMMA AddPropertyCombining ==
    ASSUME Inv, CombiningOnly, CombiningInv, NEW t, NEW l \in Literals,
           AddProperty(t, l[1], l[2])
    PROVE  CombiningValued(stores')
<1> DEFINE p == l[1]
<1>1. p \in Prop /\ Kind[p].combines
  BY KindAssumption DEF CombiningOnly
<1>2. PICK order \in PutOrders(stores[p], Kind[p], t, l[2]) :
         stores' = [stores EXCEPT ![p] = Put(@, Kind[p], t, l[2], order)]
  BY DEF AddProperty
<1> HIDE DEF p
<1> QED BY <1>1, <1>2, OneStoreCombining DEF Inv, CombiningInv

\* fully_merge starts its loop over the merge lists with a fresh list of them.
LEMMA NormalizeKeepsCombining ==
    ASSUME Inv, CombiningInv, NormalizeNext
    PROVE  CombiningInv'
<1> DEFINE p == NormalizeOrder[at.prop]
           s == NormalizeStore(Kind[p], stores[p])
<1>1. /\ phase = "normalize" /\ stores' = [stores EXCEPT ![p] = s]
      /\ status' \in {"ok", "undefined"}
      /\ \/ phase' \in {"normalize", "replace"}
         \/ phase' = "loop" /\ lists' = <<>>
  BY DEF NormalizeNext, Running
<1>2. p \in Prop
  BY PropsInOrder DEF Inv, ControlInv
<1>3. StoreOver(stores[p], p, Live)
  BY <1>2 DEF Inv, StoresOver
<1>4. Valued(s) \subseteq Valued(stores[p])
  BY <1>3, NormalizeValues DEF StoreOver
<1>5. Kind[p].combines \/ Valued(s) = {}
  BY <1>2, <1>4 DEF CombiningInv, CombiningValued
<1> HIDE DEF p, s
<1>6. CombiningValued(stores')
  BY <1>1, <1>2, <1>5, OneStoreCombining DEF Inv, CombiningInv
<1> QED BY <1>1, <1>6 DEF CombiningInv

\* A property that does not combine has no value that could contradict another.
LEMMA ReplaceKeepsCombining ==
    ASSUME Inv, CombiningInv, ReplaceNext, status' # "aborted"
    PROVE  CombiningInv'
<1> DEFINE p == PropOrder[at.prop]
           stays == lists[at.list][1]
           disap == lists[at.list][at.element]
<1>1. phase = "replace" /\ status = "ok"
  BY DEF ReplaceNext, Running
<1>2. p \in Prop
  BY PropsInOrder DEF Inv, ControlInv
<1>3. disap \in Topic
  <2>1. ListInv /\ ElementInv
    BY <1>1 DEF Inv, LoopInv
  <2>2. at.list \in DOMAIN lists /\ at.element \in 2..Len(lists[at.list])
    BY <2>1 DEF ListInv, ElementInv
  <2>3. /\ Len(lists[at.list]) \in Nat
        /\ \A k \in 1..Len(lists[at.list]) : lists[at.list][k] \in Live
    BY <2>2, ListElements
  <2>4. at.element \in 1..Len(lists[at.list])
    BY <2>2, <2>3
  <2> QED BY <2>3, <2>4, LiveTopics DEF Inv
<1>4. ~Kind[p].combines => stores[p].vid[disap] = 0
  BY <1>2, <1>3 DEF CombiningInv, CombiningValued, Valued
<1>5. ~ReplaceContradicts(stores[p], Kind[p], stays, disap)
  BY <1>4 DEF ReplaceContradicts, BothValued
<1>6. /\ \E order \in ReplaceOrders(stores[p], Kind[p], stays, disap) :
            stores' = [stores EXCEPT ![p] =
                          ReplaceTopic(@, Kind[p], stays, disap, order)]
      /\ phase' \in {"replace", "values"}
  BY <1>1, <1>5 DEF ReplaceNext
<1>7. PICK order \in ReplaceOrders(stores[p], Kind[p], stays, disap) :
         stores' = [stores EXCEPT ![p] =
                       ReplaceTopic(@, Kind[p], stays, disap, order)]
  BY <1>6
<1> DEFINE s == ReplaceTopic(stores[p], Kind[p], stays, disap, order)
<1>8. ~Kind[p].combines => s = stores[p]
  BY <1>4 DEF ReplaceTopic
<1>9. Kind[p].combines \/ Valued(s) = {}
  BY <1>2, <1>8 DEF CombiningInv, CombiningValued
<1>10. stores' = [stores EXCEPT ![p] = s]
  BY <1>7
<1> HIDE DEF p, s
<1>11. CombiningValued(stores')
  BY <1>2, <1>9, <1>10, OneStoreCombining DEF Inv, CombiningInv
<1> QED BY <1>6, <1>11 DEF CombiningInv

\* There is no value to rewrite.
LEMMA NothingIncludes ==
    ASSUME Inv, Forms = {}, NEW p \in Prop, Kind[p].topical, NEW S
    PROVE  Including(p, S) = {}
<1>1. p \in {ASidp, TSidp}
  BY TopicalKinds
<1>2. stores[p] \in StoreType({})
  BY <1>1 DEF Inv, StoresOver, StoreOver, Sound, Consistent, ValuesOver
<1>3. \A v \in Vid : stores[p].value[v] = NoValue
  BY <1>2 DEF StoreType
<1> QED BY <1>3 DEF Including

\* Every step of such a program keeps to it.
LEMMA NextKeepsCombining ==
    ASSUME CombiningOnly, Inv, status = "ok" => DisposalInv, CombiningInv,
           [Next]_vars
    PROVE  CombiningInv'
<1>0. status' # "aborted"
  <2> SUFFICES ASSUME status' = "aborted" PROVE FALSE
    OBVIOUS
  <2>1. CASE UNCHANGED vars
    BY <2>1 DEF vars, control, CombiningInv
  <2>2. CASE Next
    <3>1. status = "ok"
      BY <2>2 DEF Next, Call, Step, MergeStep, AddSubject, AddPropertyToTopic,
         AddAssertion, FullyMerge, Idle, AddSubjectProperty, WhileNotNormalized,
         NormalizeNext, ReplaceNext, CollectVids, RewriteValue, Dispose, Running
    <3>2. AbortExplained
      BY <3>1, OnlyExplainedAborts
    <3> QED BY <3>1, <3>2 DEF AbortExplained, CombiningInv, CombiningOnly
  <2> QED BY <2>1, <2>2
<1>1. ASSUME NEW subject \in Subjects, AddSubject(subject) PROVE CombiningInv'
  BY <1>1 DEF AddSubject, Idle, CombiningInv
<1>2. ASSUME NEW t \in Topic, NEW l \in Literals, AddPropertyToTopic(t, l[1], l[2])
      PROVE  CombiningInv'
  <2>1. CombiningValued(stores')
    BY <1>2, AddPropertyCombining DEF AddPropertyToTopic
  <2> QED BY <1>0, <1>2, <2>1 DEF AddPropertyToTopic, Idle, CombiningInv
<1>3. CASE FullyMerge
  BY <1>3 DEF FullyMerge, Idle, core, CombiningInv
<1>4. CASE AddSubjectProperty
  <2>1. phase = "subject" /\ status = "ok"
        /\ AddProperty(last, Head(todo)[1], Head(todo)[2])
        /\ phase' \in {"idle", "subject"} /\ lists' = lists
    BY <1>4 DEF AddSubjectProperty, Running
  <2>2. Head(todo) \in Literals
    BY <2>1 DEF Inv, LoopInv, AddingInv
  <2>3. CombiningValued(stores')
    BY <2>1, <2>2, AddPropertyCombining
  <2> QED BY <1>0, <2>1, <2>3 DEF CombiningInv
<1>5. CASE WhileNotNormalized
  BY <1>5 DEF WhileNotNormalized, Return, Running, core, CombiningInv
<1>6. CASE NormalizeNext
  BY <1>6, NormalizeKeepsCombining
<1>7. CASE ReplaceNext
  BY <1>0, <1>7, ReplaceKeepsCombining
<1>8. CASE CollectVids
  <2>1. PropOrder[at.prop] \in Prop
    BY PropsInOrder DEF Inv, ControlInv
  <2>2. Kind[PropOrder[at.prop]].topical
          => Including(PropOrder[at.prop], ToSet(Tail(lists[at.list]))) = {}
    BY <2>1, NothingIncludes DEF CombiningOnly
  <2>3. AfterList /\ UNCHANGED <<core, status>>
    BY <1>8, <2>2 DEF CollectVids
  <2> QED BY <2>3 DEF AfterList, core, CombiningInv
<1>9. CASE RewriteValue
  BY <1>9 DEF RewriteValue, Running, CombiningInv
<1>10. CASE Dispose
  BY <1>0, <1>10 DEF Dispose, CleanedLists, CombiningInv
<1>11. CASE UNCHANGED vars
  BY <1>11 DEF vars, core, control, CombiningInv
<1>12. \A a \in Topic, asidp \in Forms : ~AddAssertion(a, asidp)
  BY DEF CombiningOnly
<1> QED BY <1>1, <1>2, <1>3, <1>4, <1>5, <1>6, <1>7, <1>8, <1>9, <1>10, <1>11, <1>12
    DEF Next, Call, Step, MergeStep

\* A program that adds subjects and properties that combine, and merges, never
\* runs into an assert, whatever it adds and however often it merges
\* (src/src/topicmap.c, tm_topicmap_fully_merge).
THEOREM AssertsHold ==
    ASSUME CombiningOnly
    PROVE  Spec => []NoAssertFails
<1> DEFINE Ready == Inv /\ (status = "ok" => DisposalInv)
<1>1. Init => CombiningInv
  BY DEF Init, EmptyStore, CombiningInv, CombiningValued, Valued
<1>2. Ready /\ CombiningInv /\ [Next]_vars => CombiningInv'
  BY NextKeepsCombining
<1>3. CombiningInv => NoAssertFails
  BY DEF CombiningInv, NoAssertFails
<1>4. Spec => []Ready
  BY DisposalReady
<1> HIDE DEF Ready
<1> QED BY <1>1, <1>2, <1>3, <1>4, PTL DEF Spec

-----------------------------------------------------------------------------
(* Topics that no shared locator connects *)

\* What f shows for the topics of S is made of what g says they were given.
MadeOf(f, g, S) ==
    \A u \in S : f[u] # NoValue => f[u] \subseteq UNION {g[s] : s \in S}

\* Nothing has been given to a topic of S and to another one, too.
Parted(g, S) == \A s \in S, r \in Topic \ S : g[s] \cap g[r] = {}

Closed(S) == \A p \in Prop : Parted(given[p], S)

AllMade(S) ==
    \A p \in Prop : Kind[p].combines => MadeOf(Shown(stores[p]), given[p], S)

\* KeptApart for all topics, those to come as well.
ApartFrom(S) ==
    /\ \A t \in Topic : rep[t] \in S <=> t \in S
    /\ \A i \in DOMAIN lists : OneSided(S, lists[i])
    /\ AllMade(S)

\* Only topics that exist have been given something.
GivenInv ==
    /\ given \in [Prop -> [Topic -> SUBSET Things]]
    /\ \A p \in Prop, t \in Topic \ Created : given[p][t] = {}

ApartInv ==
    /\ GivenInv
    /\ status = "ok" => \A S \in SUBSET Topic : Closed(S) => ApartFrom(S)

\* The others are a closed set, too.
LEMMA OtherSide ==
    ASSUME NEW S \in SUBSET Topic, Closed(S)
    PROVE  Closed(Topic \ S) /\ Topic \ (Topic \ S) = S
<1>1. Topic \ (Topic \ S) = S
  OBVIOUS
<1> QED BY <1>1 DEF Closed, Parted

\* What topics of both sides show has nothing in common.
LEMMA SidesShowOthers ==
    ASSUME NEW f, NEW g, NEW T \in SUBSET Topic, MadeOf(f, g, T),
           MadeOf(f, g, Topic \ T), Parted(g, T), NEW t \in T, NEW u \in Topic \ T,
           f[t] # NoValue, f[u] # NoValue
    PROVE  f[t] \cap f[u] = {}
<1> SUFFICES ASSUME NEW l \in f[t] \cap f[u] PROVE FALSE
  OBVIOUS
<1>1. PICK s \in T : l \in g[s]
  BY DEF MadeOf
<1>2. PICK r \in Topic \ T : l \in g[r]
  BY DEF MadeOf
<1> QED BY <1>1, <1>2 DEF Parted

\* Uniting a value made of what one side was given changes that side only.
LEMMA UnitedMadeOf ==
    ASSUME NEW f, NEW g, NEW T \in SUBSET Topic, NEW t \in T, NEW v,
           MadeOf(f, g, T), MadeOf(f, g, Topic \ T), Parted(g, T),
           v \subseteq UNION {g[s] : s \in T}
    PROVE  /\ MadeOf(United(f, v, {t}), g, T)
           /\ MadeOf(United(f, v, {t}), g, Topic \ T)
<1>1. Met(f, v) \subseteq T
  <2> SUFFICES ASSUME NEW w \in Met(f, v), w \notin T PROVE FALSE
    OBVIOUS
  <2>1. w \in Topic \ T /\ f[w] # NoValue /\ f[w] \cap v # {}
    BY DEF Met
  <2>2. PICK l \in v : l \in f[w]
    BY <2>1
  <2>3. PICK s \in T : l \in g[s]
    BY <2>2
  <2>4. PICK r \in Topic \ T : l \in g[r]
    BY <2>1, <2>2 DEF MadeOf
  <2> QED BY <2>3, <2>4 DEF Parted
<1>2. Together(f, v) \subseteq UNION {g[s] : s \in T}
  <2>1. \A w \in Met(f, v) : f[w] \subseteq UNION {g[s] : s \in T}
    BY <1>1 DEF Met, MadeOf
  <2> QED BY <2>1 DEF Together
<1>3. \A u \in T : \/ United(f, v, {t})[u] = Together(f, v)
                   \/ United(f, v, {t})[u] = f[u]
  BY DEF United
<1>4. \A u \in Topic \ T : United(f, v, {t})[u] = f[u]
  BY <1>1 DEF United
<1>5. MadeOf(United(f, v, {t}), g, T)
  <2> SUFFICES ASSUME NEW u \in T, United(f, v, {t})[u] # NoValue
               PROVE  United(f, v, {t})[u] \subseteq UNION {g[s] : s \in T}
    BY DEF MadeOf
  <2>1. CASE United(f, v, {t})[u] = Together(f, v)
    BY <1>2, <2>1
  <2>2. CASE United(f, v, {t})[u] = f[u]
    BY <2>2 DEF MadeOf
  <2> QED BY <1>3, <2>1, <2>2
<1>6. MadeOf(United(f, v, {t}), g, Topic \ T)
  BY <1>4 DEF MadeOf
<1> QED BY <1>5, <1>6

\* What was given before is given still.
LEMMA MadeOfMore ==
    ASSUME NEW f, NEW g, NEW h, NEW S \in SUBSET Topic, MadeOf(f, g, S),
           \A u \in Topic : g[u] \subseteq h[u]
    PROVE  MadeOf(f, h, S)
<1>1. UNION {g[s] : s \in S} \subseteq UNION {h[s] : s \in S}
  OBVIOUS
<1> QED BY <1>1 DEF MadeOf

\* A topic that is given a value shares it with those that it meets.
LEMMA AddPropertyApart ==
    ASSUME Inv, CombiningOnly, GivenInv,
           \A S \in SUBSET Topic : Closed(S) => AllMade(S),
           NEW t \in Live, NEW l \in Literals, AddProperty(t, l[1], l[2])
    PROVE  /\ given' \in [Prop -> [Topic -> SUBSET Things]]
           /\ \A q \in Prop, u \in Topic \ Created : given'[q][u] = {}
           /\ \A S \in SUBSET Topic : Closed(S)' => Closed(S) /\ AllMade(S)'
<1> DEFINE p == l[1]
           val == l[2]
           f == Shown(stores[p])
           given1 == [given EXCEPT ![p][t] = @ \cup val]
           W == IF f[t] # NoValue THEN f[t] \cup val ELSE val
<1>1. /\ p \in Prop /\ Kind[p].combines /\ ~Kind[p].topical
      /\ val # {} /\ val \subseteq Things
  BY KindAssumption DEF CombiningOnly, Things
<1>2. t \in Topic /\ t \in Created /\ StoresOver(stores, Live) /\ Live \in SUBSET Topic
  BY LiveTopics DEF Inv, Live
<1>3. stores[p].count < MaxVid
  BY DEF AddProperty, MayStore
<1>4. PICK order \in PutOrders(stores[p], Kind[p], t, val) :
         stores' = [stores EXCEPT ![p] = Put(@, Kind[p], t, val, order)]
  BY DEF AddProperty
<1>5. given' = given1
  <2>1. ~PutContradicts(stores[p], Kind[p], t, val)
    BY <1>1 DEF PutContradicts
  <2>2. rc' = "ok"
    BY <2>1 DEF AddProperty
  <2> QED BY <1>1, <2>2 DEF AddProperty
<1>6. val \in ValuesOver(p, Live)
  BY <1>1, TopicalKinds DEF ValuesOver
<1> DEFINE n == Put(stores[p], Kind[p], t, val, order)
<1>7. Sound(stores[p], Kind[p], ValuesOver(p, Live))
  BY <1>1, <1>2 DEF StoresOver, StoreOver
<1>8. Shown(n) = United(f, W, {t})
  <2>1. ShowsPut(n, stores[p], Kind[p], t, val)
    BY <1>2, <1>3, <1>6, <1>7, PutShows
  <2> QED BY <1>1, <2>1 DEF ShowsPut
<1>9. /\ stores'[p] = n
      /\ \A q \in Prop : q # p => stores'[q] = stores[q]
  BY <1>1, <1>2, <1>4 DEF StoresOver
<1>10. given \in [Prop -> [Topic -> SUBSET Things]]
  BY DEF GivenInv
<1> HIDE DEF p, val, n
<1>11. given1 \in [Prop -> [Topic -> SUBSET Things]]
  BY <1>1, <1>2, <1>10
<1>12. /\ \A q \in Prop : q # p => given1[q] = given[q]
       /\ \A u \in Topic : u # t => given1[p][u] = given[p][u]
       /\ given1[p][t] = given[p][t] \cup val
  BY <1>1, <1>2, <1>10
<1> HIDE DEF given1
<1>13. \A q \in Prop, u \in Topic : given[q][u] \subseteq given1[q][u]
  <2> SUFFICES ASSUME NEW q \in Prop, NEW u \in Topic
               PROVE  given[q][u] \subseteq given1[q][u]
    OBVIOUS
  <2>1. CASE q # p
    BY <1>12, <2>1
  <2>2. CASE q = p /\ u # t
    BY <1>12, <2>2
  <2>3. CASE q = p /\ u = t
    BY <1>12, <2>3
  <2> QED BY <2>1, <2>2, <2>3
<1>14. \A q \in Prop, u \in Topic \ Created : given1[q][u] = {}
  BY <1>2, <1>12 DEF GivenInv
<1>15. ASSUME NEW S \in SUBSET Topic, Closed(S)'
       PROVE  Closed(S) /\ AllMade(S)'
  <2> DEFINE g == given1[p]
  <2>1. \A q \in Prop : Parted(given1[q], S)
    BY <1>5, <1>15 DEF Closed
  <2>2. ASSUME NEW q \in Prop PROVE Parted(given[q], S)
    <3> SUFFICES ASSUME NEW s \in S, NEW r \in Topic \ S
                 PROVE  given[q][s] \cap given[q][r] = {}
      BY DEF Parted
    <3>1. given1[q][s] \cap given1[q][r] = {}
      BY <2>1 DEF Parted
    <3>2. given[q][s] \subseteq given1[q][s] /\ given[q][r] \subseteq given1[q][r]
      BY <1>13
    <3> QED BY <3>1, <3>2
  <2>3. Closed(S)
    BY <2>2 DEF Closed
  <2>4. Closed(Topic \ S) /\ Topic \ (Topic \ S) = S
    BY <2>3, OtherSide
  <2>5. AllMade(S) /\ AllMade(Topic \ S)
    BY <2>3, <2>4
  <2>6. MadeOf(f, given[p], S) /\ MadeOf(f, given[p], Topic \ S)
    BY <1>1, <2>5 DEF AllMade
  <2>7. MadeOf(f, g, S) /\ MadeOf(f, g, Topic \ S)
    BY <1>1, <1>13, <2>6, MadeOfMore
  <2>8. Parted(g, S) /\ Parted(g, Topic \ S)
    BY <1>1, <2>1, <2>4 DEF Parted
  <2> HIDE DEF g, f, W
  <2>9. ASSUME NEW T \in SUBSET Topic, t \in T, MadeOf(f, g, T),
               MadeOf(f, g, Topic \ T), Parted(g, T)
        PROVE  MadeOf(Shown(n), g, T) /\ MadeOf(Shown(n), g, Topic \ T)
    <3>1. val \subseteq UNION {g[s] : s \in T}
      BY <1>12, <2>9 DEF g
    <3>2. W \subseteq UNION {g[s] : s \in T}
      BY <2>9, <3>1 DEF W, MadeOf
    <3> QED BY <1>8, <2>9, <3>2, UnitedMadeOf
  <2>10. MadeOf(Shown(n), g, S)
    <3>1. CASE t \in S
      BY <2>7, <2>8, <2>9, <3>1
    <3>2. CASE t \notin S
      <4>1. Topic \ S \in SUBSET Topic /\ t \in Topic \ S
        BY <1>2, <3>2
      <4>2. MadeOf(Shown(n), g, Topic \ (Topic \ S))
        BY <2>4, <2>7, <2>8, <2>9, <4>1
      <4> QED BY <2>4, <4>2
    <3> QED BY <3>1, <3>2
  <2>11. ASSUME NEW q \in Prop, Kind[q].combines
         PROVE  MadeOf(Shown(stores'[q]), given1[q], S)
    <3>1. CASE q = p
      BY <1>9, <2>10, <3>1 DEF g
    <3>2. CASE q # p
      BY <1>9, <1>12, <2>5, <2>11, <3>2 DEF AllMade
    <3> QED BY <3>1, <3>2
  <2>12. AllMade(S)'
    BY <1>5, <2>11 DEF AllMade
  <2> QED BY <2>3, <2>12
<1> QED BY <1>5, <1>11, <1>14, <1>15

\* Normalizing takes values away only, and as topics of both sides share none,
\* no array cuts a side.
LEMMA NormalizeApart ==
    ASSUME Inv, CombiningInv, NormalizeNext, NEW S \in SUBSET Topic, Closed(S),
           ApartFrom(S), AllMade(Topic \ S)
    PROVE  /\ \A i \in DOMAIN lists' : OneSided(S, lists'[i])
           /\ AllMade(S)'
<1> DEFINE p == NormalizeOrder[at.prop]
           n == NormalizeStore(Kind[p], stores[p])
           f == Shown(stores[p])
           q == stores[p].topics
<1>1. /\ stores' = [stores EXCEPT ![p] = n]
      /\ lists' = (IF IsNormalized(Kind[p], stores[p])
                   THEN [lists |-> lists, freed |-> FALSE] ELSE HandedOver(p)).lists
      /\ given' = given
  BY DEF NormalizeNext, history
<1>2. p \in Prop
  BY PropsInOrder DEF Inv, ControlInv
<1>3. /\ StoresOver(stores, Live) /\ Live \in SUBSET Topic
      /\ lists \in LongLists(Live) /\ Disjoint(lists)
  BY LiveTopics DEF Inv, ControlInv
<1>4. /\ Sound(stores[p], Kind[p], ValuesOver(p, Live))
      /\ StoreOver(stores[p], p, Live)
  BY <1>2, <1>3 DEF StoresOver, StoreOver
<1>5. /\ stores'[p] = n
      /\ \A r \in Prop : r # p => stores'[r] = stores[r]
  BY <1>1, <1>2, <1>3 DEF StoresOver
<1>6. \A t \in Topic : Shown(n)[t] = NoValue \/ Shown(n)[t] = f[t]
  <2>1. CASE IsNormalized(Kind[p], stores[p])
    BY <2>1 DEF NormalizeStore
  <2>2. CASE ~IsNormalized(Kind[p], stores[p])
    <3> DEFINE keep == {t \in Topic : n.vid[t] # 0}
    <3>1. Shown(n) = [t \in Topic |-> IF t \in keep THEN f[t] ELSE NoValue]
      BY <1>4, <2>2, NormalizeShows
    <3> HIDE DEF keep, f, n
    <3> QED BY <3>1
  <2> QED BY <2>1, <2>2
<1>7. AllMade(S)'
  <2> SUFFICES ASSUME NEW r \in Prop, Kind[r].combines
               PROVE  MadeOf(Shown(stores'[r]), given[r], S)
    BY <1>1 DEF AllMade
  <2>1. MadeOf(Shown(stores[r]), given[r], S)
    BY DEF ApartFrom, AllMade
  <2>2. CASE r # p
    BY <1>5, <2>1, <2>2
  <2>3. CASE r = p
    <3> HIDE DEF n
    <3> QED BY <1>5, <1>6, <2>1, <2>3 DEF MadeOf
  <2> QED BY <2>2, <2>3
<1>8. ASSUME NEW v \in Vid PROVE OneSided(S, q[v])
  <2> SUFFICES ASSUME NEW t \in ToSet(q[v]), t \in S, NEW u \in ToSet(q[v]), u \notin S
               PROVE  FALSE
    BY DEF OneSided
  <2>1. q \in [Vid -> Lists(Live)]
    BY <1>3, <1>4, ArraysLive
  <2>2. q[v] \in Seq(Live)
    BY <2>1 DEF Lists
  <2>3. ToSet(q[v]) \subseteq Live
    BY <2>2 DEF ToSet
  <2>4. t \in Topic /\ u \in Topic /\ v # 0
    BY <1>3, <2>3 DEF Vid
  <2>5. stores[p].vid[t] = v /\ stores[p].vid[u] = v
    BY <1>4, <2>4 DEF Sound, Consistent, Matching
  <2>6. Kind[p].combines
    BY <1>2, <2>4, <2>5 DEF CombiningInv, CombiningValued, Valued
  <2>7. /\ f[t] = stores[p].value[v] /\ f[u] = stores[p].value[v]
        /\ f[t] # NoValue /\ f[t] \in ValuesOver(p, Live)
    BY <1>4, <2>4, <2>5, ShownValue
  <2>8. f[t] # {}
    BY <1>2, <2>6, <2>7, TopicalKinds DEF ValuesOver
  <2>9. MadeOf(f, given[p], S) /\ MadeOf(f, given[p], Topic \ S) /\ Parted(given[p], S)
    BY <1>2, <2>6 DEF ApartFrom, AllMade, Closed
  <2> HIDE DEF f
  <2>10. f[t] \cap f[u] = {}
    BY <2>4, <2>7, <2>9, SidesShowOthers
  <2> QED BY <2>7, <2>8, <2>10
<1>9. \A i \in DOMAIN lists' : OneSided(S, lists'[i])
  <2>1. CASE IsNormalized(Kind[p], stores[p])
    BY <1>1, <2>1 DEF ApartFrom
  <2>2. CASE ~IsNormalized(Kind[p], stores[p])
    <3>1. lists' = HandedOver(p).lists /\ q \in [Vid -> Lists(Live)]
      BY <1>1, <1>3, <1>4, <2>2, ArraysLive
    <3>2. PICK r : ArrayRounds(r, p, Live)
      BY <1>3, <3>1, HandOverRuns
    <3>3. /\ r[0] = [lists |-> lists, freed |-> FALSE]
          /\ \A k \in 1..MaxVid : r[k] = HandOver(r[k - 1], q[k])
          /\ \A k \in 0..MaxVid : r[k] \in Handed(Live)
          /\ r[MaxVid] = HandedOver(p)
      BY <3>2 DEF ArrayRounds
    <3> DEFINE Sides(k) == \A i \in DOMAIN r[k].lists : OneSided(S, r[k].lists[i])
               Good == {k \in 0..MaxVid : Sides(k)}
    <3>4. 0 \in Good
      BY <3>3, StoreAssumption DEF ApartFrom
    <3>5. ASSUME NEW k \in 1..MaxVid, k - 1 \in Good PROVE k \in Good
      <4>1. k - 1 \in 0..MaxVid /\ k \in 0..MaxVid /\ k \in Vid
        BY StoreAssumption DEF Vid
      <4>2. r[k - 1] \in Handed(Live) /\ q[k] \in Lists(Live) /\ OneSided(S, q[k])
        BY <1>8, <3>1, <3>3, <4>1
      <4>3. r[k - 1].lists \in Seq(Lists(Live))
        BY <4>2 DEF Handed, LongLists
      <4>4. \A i \in DOMAIN r[k - 1].lists : OneSided(S, r[k - 1].lists[i])
        BY <3>5
      <4> DEFINE new == AddMergeList(r[k - 1].lists, q[k])
      <4>5. r[k] = r[k - 1] \/ r[k] = new
        BY <3>3 DEF HandOver
      <4>6. \A i \in DOMAIN new.lists : OneSided(S, new.lists[i])
        <5>1. PICK ls \in Seq(Lists(Live)) : ls = r[k - 1].lists
          BY <4>3
        <5> QED BY <4>2, <4>4, <5>1, AddKeepsSides
      <4> HIDE DEF new
      <4> QED BY <4>1, <4>4, <4>5, <4>6
    <3> HIDE DEF Good
    <3>6. 0..MaxVid \subseteq Good
      BY <3>4, <3>5, StoreAssumption, LoopInvariant
    <3>7. Sides(MaxVid)
      BY <3>6, StoreAssumption DEF Good
    <3> QED BY <3>1, <3>3, <3>7
  <2> QED BY <2>1, <2>2
<1> QED BY <1>7, <1>9

\* The topic that stays is on the side of the one whose value it is given.
LEMMA ReplaceApart ==
    ASSUME Inv, CombiningInv, ReplaceNext, NEW S \in SUBSET Topic, Closed(S),
           ApartFrom(S), AllMade(Topic \ S)
    PROVE  AllMade(S)'
<1> DEFINE p == PropOrder[at.prop]
           stays == lists[at.list][1]
           disap == lists[at.list][at.element]
           f == Shown(stores[p])
           g == given[p]
<1>1. phase = "replace" /\ status = "ok" /\ given' = given
  BY DEF ReplaceNext, Running, history
<1>2. p \in Prop
  BY PropsInOrder DEF Inv, ControlInv
<1>3. StoresOver(stores, Live) /\ Live \in SUBSET Topic
  BY LiveTopics DEF Inv
<1>4. /\ at.list \in DOMAIN lists /\ stays # disap
      /\ stays \in ToSet(lists[at.list]) /\ disap \in ToSet(lists[at.list])
      /\ stays \in Topic /\ disap \in Topic
  <2>1. at.list \in DOMAIN lists /\ at.element \in 2..Len(lists[at.list])
    BY <1>1 DEF Inv, LoopInv, ListInv, ElementInv
  <2>2. /\ Len(lists[at.list]) \in Nat /\ lists[at.list] \in Lists(Live)
        /\ \A k \in 1..Len(lists[at.list]) : lists[at.list][k] \in Live
        /\ \A k \in 2..Len(lists[at.list]) : lists[at.list][k] # lists[at.list][1]
    <3>1. lists \in Seq(Lists(Live))
      BY DEF Inv, ControlInv, LongLists
    <3> QED BY <2>1, <3>1, ListElements
  <2>3. at.element \in 1..Len(lists[at.list]) /\ 1 \in 1..Len(lists[at.list])
    BY <2>1, <2>2
  <2>4. lists[at.list] \in Seq(Live)
    BY <2>2 DEF Lists
  <2>5. stays \in ToSet(lists[at.list]) /\ disap \in ToSet(lists[at.list])
    BY <2>3, <2>4 DEF ToSet
  <2> QED BY <1>3, <2>1, <2>2, <2>3, <2>5
<1>5. stays \in S <=> disap \in S
  BY <1>4 DEF ApartFrom, OneSided
<1> DEFINE Changes ==
      \E order \in ReplaceOrders(stores[p], Kind[p], stays, disap) :
         stores' = [stores EXCEPT ![p] =
                       ReplaceTopic(@, Kind[p], stays, disap, order)]
<1>6. stores' = stores \/ (stores[p].count < MaxVid /\ Changes)
  BY DEF ReplaceNext, MayStore
<1>7. CASE stores' = stores
  BY <1>1, <1>7 DEF ApartFrom, AllMade
<1>8. CASE stores[p].count < MaxVid /\ Changes
  <2>1. PICK order \in ReplaceOrders(stores[p], Kind[p], stays, disap) :
           stores' = [stores EXCEPT ![p] =
                         ReplaceTopic(@, Kind[p], stays, disap, order)]
    BY <1>8
  <2> DEFINE n == ReplaceTopic(stores[p], Kind[p], stays, disap, order)
  <2>2. /\ stores'[p] = n
        /\ \A r \in Prop : r # p => stores'[r] = stores[r]
    BY <1>2, <1>3, <2>1 DEF StoresOver
  <2>3. /\ Sound(stores[p], Kind[p], ValuesOver(p, Live))
        /\ ~(Kind[p].combines /\ Kind[p].topical)
    BY <1>2, <1>3, TopicalKinds DEF StoresOver, StoreOver
  <2>4. n = stores[p] \/ GivesUp(f, Shown(n), Kind[p], stays, disap)
    BY <1>4, <1>8, <2>3, ReplaceShows
  <2>5. f = [u \in Topic |-> f[u]]
    BY DEF Shown
  <2> HIDE DEF n, f, stays, disap, p
  <2>6. ASSUME Kind[p].combines PROVE MadeOf(Shown(n), g, S)
    <3>1. MadeOf(f, g, S) /\ MadeOf(f, g, Topic \ S) /\ Parted(g, S)
      BY <1>2, <2>6 DEF ApartFrom, AllMade, Closed, f
    <3>2. Parted(g, Topic \ S) /\ Topic \ (Topic \ S) = S
      <4>1. Closed(Topic \ S) /\ Topic \ (Topic \ S) = S
        BY OtherSide
      <4> QED BY <1>2, <4>1 DEF Closed
    <3> HIDE DEF g
    <3>3. CASE n = stores[p]
      BY <3>1, <3>3 DEF f
    <3>4. CASE f[disap] # NoValue /\ f[stays] = NoValue
                 /\ Shown(n) = Given(Given(f, stays, f[disap]), disap, NoValue)
      <4>1. \A u \in Topic : \/ Shown(n)[u] = NoValue \/ Shown(n)[u] = f[u]
                             \/ u = stays /\ Shown(n)[u] = f[disap]
        BY <1>4, <2>5, <3>4 DEF Given
      <4> QED BY <1>5, <3>1, <3>4, <4>1 DEF MadeOf
    <3>5. CASE Shown(n) = Given(f, disap, NoValue)
      <4>1. \A u \in Topic : Shown(n)[u] = NoValue \/ Shown(n)[u] = f[u]
        BY <1>4, <2>5, <3>5 DEF Given
      <4> QED BY <3>1, <4>1 DEF MadeOf
    <3>6. CASE /\ f[disap] # NoValue /\ f[stays] # NoValue
               /\ Shown(n) = Given(United(f, f[stays] \cup f[disap], {stays}),
                                   disap, NoValue)
      <4> DEFINE w == United(f, f[stays] \cup f[disap], {stays})
      <4>1. MadeOf(w, g, S)
        <5>1. CASE stays \in S
          <6>1. f[stays] \cup f[disap] \subseteq UNION {g[s] : s \in S}
            BY <1>5, <3>1, <3>6, <5>1 DEF MadeOf
          <6> QED BY <3>1, <5>1, <6>1, UnitedMadeOf
        <5>2. CASE stays \notin S
          <6>1. /\ Topic \ S \in SUBSET Topic /\ stays \in Topic \ S
                /\ disap \in Topic \ S
            BY <1>4, <1>5, <5>2
          <6>2. f[stays] \cup f[disap] \subseteq UNION {g[s] : s \in Topic \ S}
            BY <3>1, <3>6, <6>1 DEF MadeOf
          <6>3. MadeOf(w, g, Topic \ (Topic \ S))
            BY <3>1, <3>2, <6>1, <6>2, UnitedMadeOf
          <6> QED BY <3>2, <6>3
        <5> QED BY <5>1, <5>2
      <4>2. w = [u \in Topic |-> w[u]]
        BY DEF United
      <4> HIDE DEF w
      <4>3. \A u \in Topic : Shown(n)[u] = NoValue \/ Shown(n)[u] = w[u]
        BY <1>4, <3>6, <4>2 DEF Given, w
      <4> QED BY <4>1, <4>3 DEF MadeOf
    <3> QED BY <2>4, <3>3, <3>4, <3>5, <3>6 DEF GivesUp
  <2> SUFFICES ASSUME NEW r \in Prop, Kind[r].combines
               PROVE  MadeOf(Shown(stores'[r]), given[r], S)
    BY <1>1 DEF AllMade
  <2>7. CASE r = p
    BY <2>2, <2>6, <2>7
  <2>8. CASE r # p
    BY <2>2, <2>8 DEF ApartFrom, AllMade
  <2> QED BY <2>7, <2>8
<1> QED BY <1>6, <1>7, <1>8

\* A topic becomes the first of its list, which is on its side.
LEMMA DisposeApart ==
    ASSUME Inv, Dispose, NEW S \in SUBSET Topic, ApartFrom(S), status' = "ok"
    PROVE  ApartFrom(S)'
<1> DEFINE Listed(t) == \E i \in DOMAIN lists : rep[t] \in ToSet(lists[i])
           place(t) == CHOOSE i \in DOMAIN lists : rep[t] \in ToSet(lists[i])
<1>1. /\ lists' = <<>> /\ stores' = stores /\ given' = given
      /\ rep' = [t \in Topic |-> IF Listed(t) THEN Head(lists[place(t)]) ELSE rep[t]]
  BY DEF Dispose, CleanedLists
<1>2. ASSUME NEW t \in Topic PROVE rep'[t] \in S <=> t \in S
  <2>1. CASE ~Listed(t)
    BY <1>1, <2>1 DEF ApartFrom
  <2>2. CASE Listed(t)
    <3>1. place(t) \in DOMAIN lists /\ rep[t] \in ToSet(lists[place(t)])
      BY <2>2
    <3>2. rep'[t] = Head(lists[place(t)])
      BY <1>1, <2>2
    <3> HIDE DEF place
    <3>3. PICK i \in DOMAIN lists : i = place(t)
      BY <3>1
    <3>4. Head(lists[i]) \in ToSet(lists[i])
      <4>1. lists \in Seq(Lists(Live)) /\ Len(lists[i]) > 1 /\ Len(lists[i]) \in Nat
        BY ListElements DEF Inv, ControlInv, LongLists
      <4>2. lists[i] \in Seq(Live)
        BY <4>1 DEF Lists
      <4>3. Head(lists[i]) = lists[i][1] /\ 1 \in 1..Len(lists[i])
        BY <4>1, <4>2
      <4> QED BY <4>2, <4>3 DEF ToSet
    <3>5. OneSided(S, lists[i]) /\ (rep[t] \in S <=> t \in S)
      BY DEF ApartFrom
    <3> QED BY <3>1, <3>2, <3>3, <3>4, <3>5 DEF OneSided
  <2> QED BY <2>1, <2>2
<1>3. DOMAIN lists' = {}
  BY <1>1
<1>4. AllMade(S)'
  BY <1>1 DEF ApartFrom, AllMade
<1> QED BY <1>2, <1>3, <1>4 DEF ApartFrom

\* Steps that touch neither stores, lists nor history.
LEMMA QuietApart ==
    ASSUME ApartInv, status = "ok", UNCHANGED <<stores, lists, given, rep>>,
           Created \subseteq Created'
    PROVE  ApartInv'
<1>1. \A S \in SUBSET Topic : /\ Closed(S)' <=> Closed(S)
                              /\ ApartFrom(S)' <=> ApartFrom(S)
  BY DEF Closed, ApartFrom, AllMade
<1>2. GivenInv'
  BY DEF ApartInv, GivenInv
<1> QED BY <1>1, <1>2 DEF ApartInv

\* A property is added to a topic.
LEMMA AddedApart ==
    ASSUME Inv, CombiningOnly, ApartInv, status = "ok", NEW t \in Live,
           NEW l \in Literals, AddProperty(t, l[1], l[2]),
           UNCHANGED <<last, lists, rep>>
    PROVE  ApartInv'
<1>1. \A S \in SUBSET Topic : Closed(S) => ApartFrom(S)
  BY DEF ApartInv
<1>2. /\ given' \in [Prop -> [Topic -> SUBSET Things]]
      /\ \A q \in Prop, u \in Topic \ Created : given'[q][u] = {}
      /\ \A S \in SUBSET Topic : Closed(S)' => Closed(S) /\ AllMade(S)'
  BY <1>1, AddPropertyApart DEF ApartInv, ApartFrom
<1>3. GivenInv'
  BY <1>2 DEF GivenInv, Created
<1>4. ASSUME NEW S \in SUBSET Topic, Closed(S)' PROVE ApartFrom(S)'
  BY <1>1, <1>2, <1>4 DEF ApartFrom
<1> QED BY <1>3, <1>4 DEF ApartInv

\* Every step keeps the sides apart.
LEMMA NextKeepsApart ==
    ASSUME CombiningOnly, Inv, CombiningInv, ApartInv, [Next]_vars
    PROVE  ApartInv'
<1>0. CASE UNCHANGED vars
  <2>1. UNCHANGED <<stores, lists, given, rep, status, last>>
    BY <1>0 DEF vars, core, control, history
  <2>2. \A S \in SUBSET Topic : /\ Closed(S)' <=> Closed(S)
                                /\ ApartFrom(S)' <=> ApartFrom(S)
    BY <2>1 DEF Closed, ApartFrom, AllMade
  <2>3. GivenInv'
    BY <2>1 DEF ApartInv, GivenInv, Created
  <2> QED BY <2>1, <2>2, <2>3 DEF ApartInv
<1>1. ASSUME Next PROVE status = "ok" /\ Created \subseteq Created'
  <2>1. status = "ok" /\ (last' = last \/ last' = last + 1)
    BY <1>1 DEF Next, Call, Step, MergeStep, AddSubject, AddPropertyToTopic,
       AddAssertion, FullyMerge, Idle, AddSubjectProperty, WhileNotNormalized,
       NormalizeNext, ReplaceNext, CollectVids, RewriteValue, Dispose, Running,
       NewTopic, core
  <2>2. last \in Nat
    BY TopicNumbers DEF Inv, ControlInv
  <2> QED BY <2>1, <2>2 DEF Created
<1>2. ASSUME NEW subject \in Subjects, AddSubject(subject) PROVE ApartInv'
  <2>1. Next
    BY <1>2 DEF Next, Call
  <2> QED BY <1>1, <1>2, <2>1, QuietApart DEF AddSubject, history
<1>3. ASSUME NEW t \in Topic, NEW l \in Literals, AddPropertyToTopic(t, l[1], l[2])
      PROVE  ApartInv'
  BY <1>3, AddedApart DEF AddPropertyToTopic, Idle
<1>4. CASE FullyMerge
  BY <1>4, QuietApart DEF FullyMerge, Idle, core, history, Created
<1>5. CASE AddSubjectProperty
  <2>1. /\ phase = "subject" /\ status = "ok"
        /\ AddProperty(last, Head(todo)[1], Head(todo)[2])
        /\ UNCHANGED <<last, lists, rep>>
    BY <1>5 DEF AddSubjectProperty, Running
  <2>2. Head(todo) \in Literals /\ last \in Live
    BY <2>1 DEF Inv, LoopInv, AddingInv
  <2> QED BY <2>1, <2>2, AddedApart
<1>6. CASE WhileNotNormalized
  BY <1>6, QuietApart DEF WhileNotNormalized, Running, core, history, Created
<1>7. CASE NormalizeNext
  <2>1. UNCHANGED <<last, given, rep>> /\ status = "ok"
    BY <1>7 DEF NormalizeNext, Running, history
  <2>2. GivenInv'
    BY <2>1 DEF ApartInv, GivenInv, Created
  <2>3. ASSUME NEW S \in SUBSET Topic, Closed(S)' PROVE ApartFrom(S)'
    <3>1. Closed(S) /\ ApartFrom(S)
      BY <2>1, <2>3 DEF Closed, ApartInv
    <3>2. AllMade(Topic \ S)
      BY <2>1, <3>1, OtherSide DEF ApartInv, ApartFrom
    <3>3. (\A i \in DOMAIN lists' : OneSided(S, lists'[i])) /\ AllMade(S)'
      BY <1>7, <3>1, <3>2, NormalizeApart
    <3> QED BY <2>1, <3>1, <3>3 DEF ApartFrom
  <2> QED BY <2>2, <2>3 DEF ApartInv
<1>8. CASE ReplaceNext
  <2>1. UNCHANGED <<last, lists, given, rep>> /\ status = "ok"
    BY <1>8 DEF ReplaceNext, Running, history
  <2>2. GivenInv'
    BY <2>1 DEF ApartInv, GivenInv, Created
  <2>3. ASSUME NEW S \in SUBSET Topic, Closed(S)' PROVE ApartFrom(S)'
    <3>1. Closed(S) /\ ApartFrom(S)
      BY <2>1, <2>3 DEF Closed, ApartInv
    <3>2. AllMade(Topic \ S)
      BY <2>1, <3>1, OtherSide DEF ApartInv, ApartFrom
    <3>3. AllMade(S)'
      BY <1>8, <3>1, <3>2, ReplaceApart
    <3> QED BY <2>1, <3>1, <3>3 DEF ApartFrom
  <2> QED BY <2>2, <2>3 DEF ApartInv
<1>9. CASE CollectVids
  BY <1>9, QuietApart DEF CollectVids, Running, core, history, Created
<1>10. CASE RewriteValue
  BY <1>10 DEF RewriteValue, Running, CombiningInv
<1>11. CASE Dispose
  <2>1. UNCHANGED <<last, given>> /\ status = "ok"
    BY <1>11 DEF Dispose, Running
  <2>2. GivenInv'
    BY <2>1 DEF ApartInv, GivenInv, Created
  <2>3. ASSUME NEW S \in SUBSET Topic, Closed(S)', status' = "ok"
        PROVE  ApartFrom(S)'
    <3>1. ApartFrom(S)
      BY <2>1, <2>3 DEF Closed, ApartInv
    <3> QED BY <1>11, <2>3, <3>1, DisposeApart
  <2> QED BY <2>2, <2>3 DEF ApartInv
<1>12. \A a \in Topic, asidp \in Forms : ~AddAssertion(a, asidp)
  BY DEF CombiningOnly
<1> QED BY <1>0, <1>2, <1>3, <1>4, <1>5, <1>6, <1>7, <1>8, <1>9, <1>10, <1>11, <1>12
    DEF Next, Call, Step, MergeStep

\* Nothing is given, shown or listed at first.
LEMMA InitApart == Init => ApartInv
<1> SUFFICES ASSUME Init PROVE ApartInv
  OBVIOUS
<1>1. /\ given = [p \in Prop |-> [t \in Topic |-> {}]] /\ lists = <<>>
      /\ rep = [t \in Topic |-> t] /\ stores = [p \in Prop |-> EmptyStore]
  BY DEF Init
<1>2. GivenInv
  BY <1>1 DEF GivenInv
<1>3. \A p \in Prop, t \in Topic : Shown(stores[p])[t] = NoValue
  BY <1>1 DEF Shown, EmptyStore
<1>4. \A S \in SUBSET Topic : AllMade(S)
  BY <1>3 DEF AllMade, MadeOf
<1>5. DOMAIN lists = {}
  BY <1>1
<1> QED BY <1>1, <1>2, <1>4, <1>5 DEF ApartInv, ApartFrom

\* A class is a closed set.
LEMMA ClassesAreClosed ==
    ASSUME GivenInv, NEW S \in SUBSET Created, Created \subseteq Topic, ClassClosed(S)
    PROVE  Closed(S)
<1> SUFFICES ASSUME NEW p \in Prop, NEW s \in S, NEW r \in Topic \ S
             PROVE  given[p][s] \cap given[p][r] = {}
  BY DEF Closed, Parted
<1>1. CASE r \in Created
  BY <1>1 DEF ClassClosed, Related
<1>2. CASE r \notin Created
  BY <1>2 DEF GivenInv
<1> QED BY <1>1, <1>2

\* The invariants together, in every state of such a program.
LEMMA ApartReady ==
    ASSUME CombiningOnly
    PROVE  Spec => [](Inv /\ CombiningInv /\ ApartInv)
<1> DEFINE Ready == Inv /\ (status = "ok" => DisposalInv)
<1>1. Init => CombiningInv /\ ApartInv
  BY InitApart DEF Init, EmptyStore, CombiningInv, CombiningValued, Valued
<1>2. /\ Ready /\ CombiningInv /\ [Next]_vars => CombiningInv'
      /\ Ready /\ CombiningInv /\ ApartInv /\ [Next]_vars => ApartInv'
  BY NextKeepsCombining, NextKeepsApart
<1>3. Ready => Inv
  OBVIOUS
<1>4. Spec => []Ready
  BY DisposalReady
<1> HIDE DEF Ready
<1> QED BY <1>1, <1>2, <1>3, <1>4, PTL DEF Spec

\* In a program that adds combining properties only, topics that no chain of
\* shared locators connects are never made one, never in one merge list, and
\* none shows a locator of the other, however often fully_merge is called, and
\* even when it loses topics of merge lists (src/src/topicmap.c).
THEOREM UnrelatedAreApart ==
    ASSUME CombiningOnly
    PROVE  Spec => []UnrelatedStayApart
<1>1. Inv /\ ApartInv => UnrelatedStayApart
  <2> SUFFICES ASSUME Inv, ApartInv, status = "ok", NEW S \in SUBSET Created,
                      ClassClosed(S)
               PROVE  KeptApart(S)
    BY DEF UnrelatedStayApart
  <2>1. Created \subseteq Topic
    BY TopicNumbers DEF Inv, ControlInv, Created
  <2>2. Closed(S) /\ S \in SUBSET Topic
    BY <2>1, ClassesAreClosed DEF ApartInv
  <2>3. ApartFrom(S)
    BY <2>2 DEF ApartInv
  <2>4. ASSUME NEW p \in Prop, NEW t \in S, Kind[p].combines, stores[p].vid[t] # 0
        PROVE  stores[p].value[stores[p].vid[t]] \subseteq UNION {given[p][u] : u \in S}
    <3>1. Sound(stores[p], Kind[p], ValuesOver(p, Live))
      BY DEF Inv, StoresOver, StoreOver
    <3>2. /\ Shown(stores[p])[t] = stores[p].value[stores[p].vid[t]]
          /\ Shown(stores[p])[t] # NoValue
      BY <2>2, <2>4, <3>1, ShownValue
    <3> QED BY <2>3, <2>4, <3>2 DEF ApartFrom, AllMade, MadeOf
  <2> QED BY <2>1, <2>3, <2>4 DEF KeptApart, ApartFrom, OneSided
<1>2. Spec => [](Inv /\ CombiningInv /\ ApartInv)
  BY ApartReady
<1> QED BY <1>1, <1>2, PTL

-----------------------------------------------------------------------------
(* Topics that a chain of shared locators connects *)

\* Some list names all topics of X.
Covers(ls, X) == \E i \in DOMAIN ls : X \subseteq ToSet(ls[i])

\* The array has topics of one list at most.
MeetsOneAtMost(ls, array) ==
    \A i, j \in DOMAIN ls :
        /\ ToSet(ls[i]) \cap ToSet(array) # {}
        /\ ToSet(ls[j]) \cap ToSet(array) # {}
        => i = j

\* That list, or none.
LEMMA MetList ==
    ASSUME NEW S, NEW ls \in Seq(Lists(S)), NEW array, MeetsOneAtMost(ls, array)
    PROVE  \E m \in 0..Len(ls) : MeetsOnly(ls, array, m)
<1>1. DOMAIN ls = 1..Len(ls) /\ Len(ls) \in Nat
  OBVIOUS
<1>2. CASE \E i \in 1..Len(ls) : ToSet(ls[i]) \cap ToSet(array) # {}
  <2>1. PICK m \in 1..Len(ls) : ToSet(ls[m]) \cap ToSet(array) # {}
    BY <1>2
  <2>2. MeetsOnly(ls, array, m)
    BY <1>1, <2>1 DEF MeetsOneAtMost, MeetsOnly
  <2> QED BY <1>1, <2>2
<1>3. CASE \A i \in 1..Len(ls) : ToSet(ls[i]) \cap ToSet(array) = {}
  <2>1. MeetsOnly(ls, array, 0) /\ 0 \in 0..Len(ls)
    BY <1>1, <1>3 DEF MeetsOnly
  <2> QED BY <2>1
<1> QED BY <1>2, <1>3

\* Adding an array that meets one list at most loses no topic, and a second
\* array, of other topics, meets no more lists than before.
LEMMA AddCovers ==
    ASSUME NEW S, NEW ls \in Seq(Lists(S)), NEW array \in Lists(S), Disjoint(ls),
           MeetsOneAtMost(ls, array), ~AddMergeList(ls, array).freed
    PROVE  LET new == AddMergeList(ls, array).lists
           IN /\ \A X : Covers(ls, X) => Covers(new, X)
              /\ Covers(new, ToSet(array))
              /\ \A b : ToSet(b) \cap ToSet(array) = {} /\ MeetsOneAtMost(ls, b)
                          => MeetsOneAtMost(new, b)
<1> DEFINE new == AddMergeList(ls, array).lists
<1>1. DOMAIN ls = 1..Len(ls) /\ Len(ls) \in Nat
  OBVIOUS
<1>2. PICK m \in 0..Len(ls) : MeetsOnly(ls, array, m)
  BY MetList
<1> DEFINE joined == JoinedWith(ls, array, m)
<1>3. \A X : IsSetOf(X, new)
              <=> \/ X = joined
                  \/ \E j \in 1..Len(ls) : j # m /\ X = ToSet(ls[j])
  <2> SUFFICES ASSUME NEW X
               PROVE  IsSetOf(X, new)
                        <=> \/ X = joined
                            \/ \E j \in 1..Len(ls) : j # m /\ X = ToSet(ls[j])
    OBVIOUS
  <2>1. /\ Disjoint(ls) /\ m \in 0..Len(ls) /\ MeetsOnly(ls, array, m)
        /\ ~AddMergeList(ls, array).freed
    BY <1>2
  <2>2. IsSetOf(X, AddMergeList(ls, array).lists)
          <=> \/ X = JoinedWith(ls, array, m)
              \/ \E j \in 1..Len(ls) : j # m /\ X = ToSet(ls[j])
    BY <2>1, AddJoins, SMTT(60)
  <2> QED BY <2>2
<1>4. Disjoint(new)
  BY AddKeepsDisjoint
<1>5. ToSet(array) \subseteq joined /\ (m # 0 => ToSet(ls[m]) \subseteq joined)
  BY DEF JoinedWith
<1>6. joined \subseteq ToSet(array) \cup (IF m = 0 THEN {} ELSE ToSet(ls[m]))
  BY DEF JoinedWith
<1> HIDE DEF new, joined
<1>7. ASSUME NEW X, NEW Y, IsSetOf(Y, new), X \subseteq Y PROVE Covers(new, X)
  BY <1>7 DEF IsSetOf, Covers
<1>8. ASSUME NEW X, Covers(ls, X) PROVE Covers(new, X)
  <2>1. PICK i \in 1..Len(ls) : X \subseteq ToSet(ls[i])
    BY <1>1, <1>8 DEF Covers
  <2>2. CASE i = m
    BY <1>1, <1>3, <1>5, <1>7, <2>1, <2>2
  <2>3. CASE i # m
    BY <1>3, <1>7, <2>1, <2>3
  <2> QED BY <2>2, <2>3
<1>9. Covers(new, ToSet(array))
  BY <1>3, <1>5, <1>7
<1>10. ASSUME NEW b, ToSet(b) \cap ToSet(array) = {}, MeetsOneAtMost(ls, b)
       PROVE  MeetsOneAtMost(new, b)
  <2> SUFFICES ASSUME NEW i \in DOMAIN new, NEW j \in DOMAIN new, i # j,
                      ToSet(new[i]) \cap ToSet(b) # {},
                      ToSet(new[j]) \cap ToSet(b) # {}
               PROVE  FALSE
    BY DEF MeetsOneAtMost
  <2> DEFINE X == ToSet(new[i])
             Y == ToSet(new[j])
  <2>1. X \cap Y = {}
    BY <1>4 DEF Disjoint
  <2>2. IsSetOf(X, new) /\ IsSetOf(Y, new)
    BY DEF IsSetOf
  <2>3. X \cap ToSet(b) # {} /\ Y \cap ToSet(b) # {}
    OBVIOUS
  <2> HIDE DEF X, Y
  <2>4. \/ X = joined
        \/ \E k \in 1..Len(ls) : k # m /\ X = ToSet(ls[k])
    BY <1>3, <2>2
  <2>5. \/ Y = joined
        \/ \E k \in 1..Len(ls) : k # m /\ Y = ToSet(ls[k])
    BY <1>3, <2>2
  <2>6. X # Y
    BY <2>1, <2>3
  <2>7. ASSUME joined \cap ToSet(b) # {}
        PROVE  m \in 1..Len(ls) /\ ToSet(ls[m]) \cap ToSet(b) # {}
    BY <1>1, <1>6, <1>10, <2>7
  <2> QED BY <1>1, <1>10, <2>3, <2>4, <2>5, <2>6, <2>7 DEF MeetsOneAtMost
<1> QED BY <1>8, <1>9, <1>10 DEF new

\* Normalization loses no topic as long as no array of the store has topics of
\* two lists (or add_mergelist has gone on in freed memory).
NoneLost ==
    phase = "normalize" =>
        LET p == NormalizeOrder[at.prop]
        IN ~IsNormalized(Kind[p], stores[p]) =>
              \/ HandedOver(p).freed
              \/ \A v \in Vid : MeetsOneAtMost(lists, stores[p].topics[v])

\* Then each list there was and each array of several topics is in one of the new
\* lists as a whole.
LEMMA HandedOverCovers ==
    ASSUME NEW S, NEW p, lists \in LongLists(S), Disjoint(lists),
           stores[p].topics \in [Vid -> Lists(S)],
           \A v, w \in Vid : v # w =>
              ToSet(stores[p].topics[v]) \cap ToSet(stores[p].topics[w]) = {},
           \A v \in Vid : MeetsOneAtMost(lists, stores[p].topics[v]),
           ~HandedOver(p).freed
    PROVE  /\ \A i \in DOMAIN lists : Covers(HandedOver(p).lists, ToSet(lists[i]))
           /\ \A v \in Vid : Len(stores[p].topics[v]) > 1 =>
                 Covers(HandedOver(p).lists, ToSet(stores[p].topics[v]))
<1> DEFINE q == stores[p].topics
<1>1. PICK r : ArrayRounds(r, p, S)
  BY HandOverRuns
<1>2. /\ r[0] = [lists |-> lists, freed |-> FALSE]
      /\ \A k \in 1..MaxVid : r[k] = HandOver(r[k - 1], q[k])
      /\ \A k \in 0..MaxVid : r[k] \in Handed(S)
      /\ r[MaxVid] = HandedOver(p)
  BY <1>1 DEF ArrayRounds
<1> DEFINE Fine(k) ==
              /\ \A i \in DOMAIN lists : Covers(r[k].lists, ToSet(lists[i]))
              /\ \A v \in Vid : v <= k /\ Len(q[v]) > 1
                                  => Covers(r[k].lists, ToSet(q[v]))
              /\ \A v \in Vid : v > k => MeetsOneAtMost(r[k].lists, q[v])
           Good == {k \in 0..MaxVid : r[k].freed \/ Fine(k)}
<1>3. MaxVid \in Nat /\ 0 \in 0..MaxVid /\ MaxVid \in 0..MaxVid
  BY StoreAssumption
<1>4. 0 \in Good
  <2>1. r[0].lists = lists
    BY <1>2
  <2>2. \A v \in Vid : ~(v <= 0) /\ v > 0
    BY DEF Vid
  <2>3. \A i \in DOMAIN lists : Covers(lists, ToSet(lists[i]))
    BY DEF Covers
  <2>4. Fine(0)
    BY <2>1, <2>2, <2>3
  <2> HIDE DEF Fine
  <2> QED BY <1>3, <2>4
<1>5. ASSUME NEW k \in 1..MaxVid, k - 1 \in Good PROVE k \in Good
  <2> DEFINE old == r[k - 1]
             new == AddMergeList(old.lists, q[k])
  <2>1. /\ k - 1 \in 0..MaxVid /\ k \in 0..MaxVid /\ k \in Vid /\ k > k - 1
        /\ \A v \in Vid : v > k => v > k - 1 /\ v # k
        /\ \A v \in Vid : v <= k => v <= k - 1 \/ v = k
    BY <1>3 DEF Vid
  <2>2. r[k] = HandOver(old, q[k]) /\ old \in Handed(S) /\ q[k] \in Lists(S)
    BY <1>2, <2>1
  <2>3. old.freed \/ Fine(k - 1)
    BY <1>5
  <2>4. CASE old.freed
    <3>1. r[k].freed
      BY <2>2, <2>4 DEF HandOver
    <3> QED BY <2>1, <3>1
  <2>5. CASE Fine(k - 1) /\ Len(q[k]) <= 1
    <3>1. r[k].lists = old.lists
      BY <2>2, <2>5 DEF HandOver
    <3>2. Len(q[k]) \in Nat
      BY <2>2 DEF Lists
    <3>3. ~(Len(q[k]) > 1)
      BY <2>5, <3>2
    <3>4. Fine(k)
      BY <2>1, <2>5, <3>1, <3>3
    <3> HIDE DEF Fine
    <3> QED BY <2>1, <3>4
  <2>6. CASE Fine(k - 1) /\ ~old.freed /\ ~(Len(q[k]) <= 1)
    <3>1. r[k] = new
      BY <2>2, <2>6 DEF HandOver
    <3>2. CASE new.freed
      BY <2>1, <3>1, <3>2
    <3>3. CASE ~new.freed
      <4>1. old.lists \in Seq(Lists(S)) /\ Disjoint(old.lists)
        BY <2>2 DEF Handed, LongLists
      <4>2. MeetsOneAtMost(old.lists, q[k])
        BY <2>1, <2>6
      <4>3. /\ \A X : Covers(old.lists, X) => Covers(new.lists, X)
            /\ Covers(new.lists, ToSet(q[k]))
            /\ \A b : ToSet(b) \cap ToSet(q[k]) = {} /\ MeetsOneAtMost(old.lists, b)
                        => MeetsOneAtMost(new.lists, b)
        <5>1. PICK ls \in Seq(Lists(S)) : ls = old.lists
          BY <4>1
        <5> HIDE DEF old, q
        <5> QED BY <2>2, <3>3, <4>1, <4>2, <5>1, AddCovers
      <4>4. \A v \in Vid : v > k => ToSet(q[v]) \cap ToSet(q[k]) = {}
        BY <2>1
      <4> HIDE DEF new, q
      <4>5. \A i \in DOMAIN lists : Covers(r[k].lists, ToSet(lists[i]))
        BY <2>6, <3>1, <4>3
      <4>6. ASSUME NEW v \in Vid, v <= k, Len(q[v]) > 1
            PROVE  Covers(r[k].lists, ToSet(q[v]))
        <5>1. CASE v = k
          BY <3>1, <4>3, <5>1
        <5>2. CASE v <= k - 1
          BY <2>6, <3>1, <4>3, <4>6, <5>2
        <5> QED BY <2>1, <4>6, <5>1, <5>2
      <4>7. ASSUME NEW v \in Vid, v > k PROVE MeetsOneAtMost(r[k].lists, q[v])
        <5>1. MeetsOneAtMost(old.lists, q[v])
          BY <2>1, <2>6, <4>7
        <5> QED BY <3>1, <4>3, <4>4, <4>7, <5>1
      <4>8. Fine(k)
        BY <4>5, <4>6, <4>7
      <4> HIDE DEF Fine
      <4> QED BY <2>1, <4>8
    <3> QED BY <3>2, <3>3
  <2> HIDE DEF Fine, old
  <2> QED BY <2>3, <2>4, <2>5, <2>6
<1> HIDE DEF Good
<1>6. 0..MaxVid \subseteq Good
  BY <1>3, <1>4, <1>5, LoopInvariant
<1>7. Fine(MaxVid)
  <2>1. MaxVid \in Good
    BY <1>3, <1>6
  <2> HIDE DEF Fine
  <2> QED BY <1>2, <2>1 DEF Good
<1>8. \A v \in Vid : v <= MaxVid
  BY StoreAssumption DEF Vid
<1> QED BY <1>2, <1>7, <1>8

\* The topic w is u, or will be made one with it by some merge list.
Linked(w, u) == w = u \/ \E i \in DOMAIN lists : {w, u} \subseteq ToSet(lists[i])

\* The assignment f shows x for topic w.
Shows(f, w, x) == f[w] # NoValue /\ x \in f[w]

\* What a topic was given for p is shown by a topic linked to the one it is now.
Held(p) ==
    \A t \in Topic : \A x \in given[p][t] :
        \E w \in Topic : Shows(Shown(stores[p]), w, x) /\ Linked(w, rep[t])

\* A topic that lives has become no other, and one that was created has become one
\* that lives.
RepInv ==
    /\ \A t \in Created : rep[t] \in Live
    /\ \A t \in Topic \ disposed : rep[t] = t

HeldInv ==
    /\ \A p \in Prop, t \in Topic : given[p][t] # {} => \E l \in Literals : p = l[1]
    /\ status = "ok" => RepInv /\ \A p \in Prop : Kind[p].combines => Held(p)

\* Values are sets of what is given from outside.
OfThings(f) == \A u \in Topic : f[u] # NoValue => f[u] \subseteq Things

LEMMA ShowsThings ==
    ASSUME NEW p \in Prop, NEW s, NEW T, Kind[p].combines, Sound(s, Kind[p], ValuesOver(p, T))
    PROVE  OfThings(Shown(s))
<1>1. ValuesOver(p, T) \subseteq SUBSET Things
  BY TopicalKinds DEF ValuesOver
<1>2. ASSUME NEW u \in Topic, Shown(s)[u] # NoValue PROVE Shown(s)[u] \in ValuesOver(p, T)
  BY <1>2, ShownValue
<1> QED BY <1>1, <1>2 DEF OfThings

\* Uniting takes nothing away.
LEMMA UnitedGrows ==
    ASSUME NEW f, OfThings(f), NEW v \in SUBSET Things, NEW t \in Topic,
           f[t] # NoValue => f[t] \subseteq v
    PROVE  /\ OfThings(United(f, v, {t}))
           /\ \A x : \A u \in Topic : Shows(f, u, x) => Shows(United(f, v, {t}), u, x)
           /\ \A x \in v : Shows(United(f, v, {t}), t, x)
<1>1. Together(f, v) \subseteq Things /\ v \subseteq Together(f, v)
  BY DEF Together, Met, OfThings
<1>2. Together(f, v) # NoValue
  BY <1>1, NoValueAssumption
<1>3. \A u \in Topic : United(f, v, {t})[u]
                          = IF u = t \/ u \in Met(f, v) THEN Together(f, v) ELSE f[u]
  BY DEF United
<1>4. \A u \in Met(f, v) : f[u] \subseteq Together(f, v)
  BY DEF Together
<1>5. OfThings(United(f, v, {t}))
  BY <1>1, <1>3 DEF OfThings
<1>6. ASSUME NEW u \in Topic, NEW x, Shows(f, u, x) PROVE Shows(United(f, v, {t}), u, x)
  BY <1>1, <1>2, <1>3, <1>4, <1>6 DEF Shows
<1>7. ASSUME NEW x \in v PROVE Shows(United(f, v, {t}), t, x)
  BY <1>1, <1>2, <1>3 DEF Shows
<1> QED BY <1>5, <1>6, <1>7

\* A property that is added is shown by the topic, and so is all that was.
LEMMA AddPropertyHeld ==
    ASSUME Inv, CombiningOnly, GivenInv, HeldInv, status = "ok", NEW t \in Live,
           NEW l \in Literals, AddProperty(t, l[1], l[2]),
           UNCHANGED <<last, disposed, lists, rep>>
    PROVE  HeldInv'
<1> DEFINE p == l[1]
           val == l[2]
           f == Shown(stores[p])
           W == IF f[t] # NoValue THEN f[t] \cup val ELSE val
<1>1. /\ p \in Prop /\ Kind[p].combines /\ ~Kind[p].topical
      /\ val # {} /\ val \subseteq Things
  BY KindAssumption DEF CombiningOnly, Things
<1>2. /\ t \in Topic /\ StoresOver(stores, Live) /\ Live \in SUBSET Topic
      /\ rep[t] = t
  BY LiveTopics DEF Inv, Live, HeldInv, RepInv
<1>3. stores[p].count < MaxVid
  BY DEF AddProperty, MayStore
<1>4. PICK order \in PutOrders(stores[p], Kind[p], t, val) :
         stores' = [stores EXCEPT ![p] = Put(@, Kind[p], t, val, order)]
  BY DEF AddProperty
<1>5. given' = given \/ given' = [given EXCEPT ![p][t] = @ \cup val]
  BY DEF AddProperty
<1>6. /\ \A q \in Prop : q # p => given'[q] = given[q]
      /\ \A u \in Topic : u # t => given'[p][u] = given[p][u]
      /\ given'[p][t] \subseteq given[p][t] \cup val
  BY <1>1, <1>2, <1>5 DEF GivenInv
<1>7. val \in ValuesOver(p, Live)
  BY <1>1, TopicalKinds DEF ValuesOver
<1> DEFINE n == Put(stores[p], Kind[p], t, val, order)
<1>8. Sound(stores[p], Kind[p], ValuesOver(p, Live))
  BY <1>1, <1>2 DEF StoresOver, StoreOver
<1>9. Shown(n) = United(f, W, {t})
  <2>1. ShowsPut(n, stores[p], Kind[p], t, val)
    BY <1>2, <1>3, <1>7, <1>8, PutShows
  <2> QED BY <1>1, <2>1 DEF ShowsPut
<1>10. /\ stores'[p] = n
       /\ \A q \in Prop : q # p => stores'[q] = stores[q]
  BY <1>1, <1>2, <1>4 DEF StoresOver
<1>11. OfThings(f)
  BY <1>1, <1>8, ShowsThings
<1> HIDE DEF p, val, n, f
<1>12. /\ W \in SUBSET Things /\ val \subseteq W
       /\ f[t] # NoValue => f[t] \subseteq W
  BY <1>1, <1>2, <1>11 DEF OfThings
<1> HIDE DEF W
<1>13. /\ \A x : \A u \in Topic : Shows(f, u, x) => Shows(Shown(n), u, x)
       /\ \A x \in val : Shows(Shown(n), t, x)
  BY <1>2, <1>9, <1>11, <1>12, UnitedGrows
<1>14. ASSUME NEW q \in Prop, Kind[q].combines PROVE Held(q)'
  <2>1. Held(q)
    BY <1>14 DEF HeldInv
  <2>2. CASE q # p
    <3>1. given'[q] = given[q] /\ stores'[q] = stores[q] /\ lists' = lists /\ rep' = rep
      BY <1>6, <1>10, <2>2
    <3> QED BY <2>1, <3>1 DEF Held, Linked
  <2>3. CASE q = p
    <3> SUFFICES ASSUME NEW u \in Topic, NEW x \in given'[p][u]
                 PROVE  \E w \in Topic : Shows(Shown(n), w, x) /\ Linked(w, rep[u])
      BY <1>10, <2>3 DEF Held, Linked
    <3>1. CASE x \in given[p][u]
      <4>1. PICK w \in Topic : Shows(f, w, x) /\ Linked(w, rep[u])
        BY <2>1, <2>3, <3>1 DEF Held, f
      <4> QED BY <1>13, <4>1
    <3>2. CASE x \notin given[p][u]
      <4>1. u = t /\ x \in val
        BY <1>6, <3>2
      <4>2. Shows(Shown(n), t, x) /\ Linked(t, rep[t])
        BY <1>2, <1>13, <4>1 DEF Linked
      <4> QED BY <1>2, <4>1, <4>2
    <3> QED BY <3>1, <3>2
  <2> QED BY <2>2, <2>3
<1>15. ASSUME NEW q \in Prop, NEW u \in Topic, given'[q][u] # {}
       PROVE  \E k \in Literals : q = k[1]
  <2>1. CASE q = p
    BY <2>1 DEF p
  <2>2. CASE q # p
    BY <1>6, <1>15, <2>2 DEF HeldInv
  <2> QED BY <2>1, <2>2
<1>16. RepInv'
  BY DEF HeldInv, RepInv, Created, Live
<1> QED BY <1>14, <1>15, <1>16 DEF HeldInv

\* Two arrays of a store have no topic in common.
LEMMA ArraysDisjoint ==
    ASSUME NEW V, NEW s, NEW p, Sound(s, p, V), NEW v \in Vid, NEW w \in Vid, v # w
    PROVE  ToSet(s.topics[v]) \cap ToSet(s.topics[w]) = {}
<1> SUFFICES ASSUME NEW t \in ToSet(s.topics[v]), t \in ToSet(s.topics[w]) PROVE FALSE
  OBVIOUS
<1>1. s.topics[v] \in Seq(Topic) /\ Matching(s)
  BY DEF Sound, Consistent, StoreType
<1>2. t \in Topic
  BY <1>1 DEF ToSet
<1> QED BY <1>1, <1>2 DEF Matching

\* A topic that leaves an array leaves its value to the first one, which is linked
\* to it by the list that the array has become.
LEMMA NormalizeHeld ==
    ASSUME Inv, NoneLost, HeldInv, NormalizeNext
    PROVE  HeldInv'
<1> DEFINE p == NormalizeOrder[at.prop]
           n == NormalizeStore(Kind[p], stores[p])
           f == Shown(stores[p])
           q == stores[p].topics
<1>1. /\ phase = "normalize" /\ status = "ok"
      /\ stores' = [stores EXCEPT ![p] = n]
      /\ IF IsNormalized(Kind[p], stores[p])
         THEN lists' = lists
         ELSE /\ lists' = HandedOver(p).lists
              /\ status' = IF HandedOver(p).freed THEN "undefined" ELSE "ok"
      /\ UNCHANGED <<last, disposed, given, rep>>
  BY DEF NormalizeNext, Running, history
<1>2. p \in Prop
  BY PropsInOrder DEF Inv, ControlInv
<1>3. /\ StoresOver(stores, Live) /\ Live \in SUBSET Topic
      /\ lists \in LongLists(Live) /\ Disjoint(lists)
  BY LiveTopics DEF Inv, ControlInv
<1>4. /\ Sound(stores[p], Kind[p], ValuesOver(p, Live))
      /\ StoreOver(stores[p], p, Live)
  BY <1>2, <1>3 DEF StoresOver, StoreOver
<1>5. /\ stores'[p] = n
      /\ \A r \in Prop : r # p => stores'[r] = stores[r]
  BY <1>1, <1>2, <1>3 DEF StoresOver
<1>6. RepInv'
  BY <1>1 DEF HeldInv, RepInv, Created, Live
<1>7. CASE IsNormalized(Kind[p], stores[p])
  <2>1. n = stores[p]
    BY <1>7 DEF NormalizeStore
  <2>2. \A r \in Prop : stores'[r] = stores[r]
    BY <1>5, <2>1
  <2>3. \A r \in Prop : Held(r) => Held(r)'
    BY <1>1, <1>7, <2>2 DEF Held, Linked
  <2> QED BY <1>1, <1>6, <2>3 DEF HeldInv
<1>8. CASE ~IsNormalized(Kind[p], stores[p]) /\ HandedOver(p).freed
  BY <1>1, <1>8 DEF HeldInv
<1>9. CASE ~IsNormalized(Kind[p], stores[p]) /\ ~HandedOver(p).freed
  <2>1. \A v \in Vid : MeetsOneAtMost(lists, q[v])
    BY <1>1, <1>9 DEF NoneLost
  <2>2. q \in [Vid -> Lists(Live)]
    BY <1>3, <1>4, ArraysLive
  <2>3. \A v, w \in Vid : v # w => ToSet(q[v]) \cap ToSet(q[w]) = {}
    BY <1>4, ArraysDisjoint
  <2>4. /\ \A i \in DOMAIN lists : Covers(lists', ToSet(lists[i]))
        /\ \A v \in Vid : Len(q[v]) > 1 => Covers(lists', ToSet(q[v]))
    <3>1. /\ \A i \in DOMAIN lists : Covers(HandedOver(p).lists, ToSet(lists[i]))
          /\ \A v \in Vid : Len(q[v]) > 1 => Covers(HandedOver(p).lists, ToSet(q[v]))
      BY <1>3, <1>9, <2>1, <2>2, <2>3, HandedOverCovers
    <3>2. lists' = HandedOver(p).lists
      BY <1>1, <1>9
    <3> QED BY <3>1, <3>2
  <2>5. Disjoint(lists')
    <3>1. HandedOver(p) \in Handed(Live)
      BY <1>3, <2>2, HandedOverKeeps
    <3> QED BY <1>1, <1>9, <3>1 DEF Handed
  <2>6. ASSUME NEW w, NEW u, Linked(w, u) PROVE Linked(w, u)'
    BY <2>4, <2>6 DEF Linked, Covers
  <2>7. ASSUME NEW r \in Prop, r # p, Held(r) PROVE Held(r)'
    <3>1. \A w, u : Linked(w, u) => Linked(w, u)'
      BY <2>6
    <3> HIDE DEF p
    <3> QED BY <1>1, <1>5, <2>7, <3>1 DEF Held
  <2> DEFINE keep == {t \in Topic : n.vid[t] # 0}
  <2>8. /\ \A t \in Topic : f[t] # NoValue => \E u \in keep : f[u] = f[t]
        /\ \A t \in keep : f[t] # NoValue
        /\ Shown(n) = [t \in Topic |-> IF t \in keep THEN f[t] ELSE NoValue]
    BY <1>4, <1>9, NormalizeShows
  <2>9. ASSUME NEW w \in Topic, NEW k \in Topic, w # k, f[w] # NoValue, f[k] = f[w]
        PROVE  \E v \in Vid : {w, k} \subseteq ToSet(q[v]) /\ Covers(lists', ToSet(q[v]))
    <3> DEFINE v == stores[p].vid[w]
    <3>1. /\ v \in Vid /\ stores[p].vid[k] # 0
          /\ v = 0 => f[w] = NoValue
      BY <1>4, <2>9, ShownValue
    <3>2. v # 0
      BY <3>1 DEF Vid
    <3>3. stores[p].vid[k] = v
      BY <1>4, <2>9, <3>1, <3>2, OneVidForValue
    <3>4. w \in ToSet(q[v]) /\ k \in ToSet(q[v])
      BY <1>4, <3>1, <3>3 DEF Sound, Consistent, Matching
    <3>5. Len(q[v]) > 1
      <4>1. q[v] \in Seq(Live)
        BY <2>2, <3>1 DEF Lists
      <4>2. PICK a \in Seq(Live) : a = q[v]
        BY <4>1
      <4>3. PICK i \in 1..Len(a), j \in 1..Len(a) : a[i] = w /\ a[j] = k
        <5>1. DOMAIN a = 1..Len(a) /\ w \in ToSet(a) /\ k \in ToSet(a)
          BY <3>4, <4>2
        <5> QED BY <5>1 DEF ToSet
      <4>4. i # j /\ Len(a) \in Nat
        BY <2>9, <4>3
      <4>5. Len(a) > 1
        BY <4>3, <4>4
      <4> QED BY <4>2, <4>5
    <3>6. {w, k} \subseteq ToSet(q[v]) /\ Covers(lists', ToSet(q[v]))
      BY <2>4, <3>1, <3>4, <3>5
    <3> HIDE DEF v
    <3> QED BY <3>1, <3>6
  <2> HIDE DEF keep, f, n, q
  <2>10. ASSUME NEW r \in Prop, r = p, Held(r) PROVE Held(r)'
    <3>0. stores'[r] = n /\ given'[r] = given[p]
      BY <1>1, <1>5, <2>10
    <3> HIDE DEF p
    <3> SUFFICES ASSUME NEW t \in Topic, NEW x \in given[p][t]
                 PROVE  \E u \in Topic : Shows(Shown(n), u, x) /\ Linked(u, rep[t])'
      BY <3>0 DEF Held
    <3>1. PICK w \in Topic : Shows(f, w, x) /\ Linked(w, rep[t])
      BY <2>10 DEF Held, f
    <3>2. PICK k \in keep : f[k] = f[w]
      BY <2>8, <3>1 DEF Shows
    <3>3. k \in Topic
      BY DEF keep
    <3>4. Shows(Shown(n), k, x)
      BY <2>8, <3>1, <3>2, <3>3 DEF Shows
    <3>5. Linked(k, rep[t])'
      <4>1. CASE k = w
        BY <1>1, <2>6, <3>1, <4>1
      <4>2. CASE k # w
        <5>1. PICK v \in Vid : /\ {w, k} \subseteq ToSet(q[v])
                               /\ Covers(lists', ToSet(q[v]))
          BY <2>9, <3>1, <3>2, <3>3, <4>2 DEF Shows
        <5>2. PICK i \in DOMAIN lists' : {w, k} \subseteq ToSet(lists'[i])
          BY <5>1 DEF Covers
        <5>3. CASE w = rep[t]
          BY <1>1, <5>2, <5>3 DEF Linked
        <5>4. CASE w # rep[t]
          <6>1. PICK j \in DOMAIN lists' : {w, rep[t]} \subseteq ToSet(lists'[j])
            BY <2>6, <3>1, <5>4 DEF Linked
          <6>2. i = j
            BY <2>5, <5>2, <6>1 DEF Disjoint
          <6> QED BY <1>1, <5>2, <6>1, <6>2 DEF Linked
        <5> QED BY <5>3, <5>4
      <4> QED BY <4>1, <4>2
    <3> QED BY <3>3, <3>4, <3>5
  <2>11. ASSUME NEW r \in Prop, Kind[r].combines PROVE Held(r)'
    <3>1. Held(r)
      BY <1>1, <2>11 DEF HeldInv
    <3> HIDE DEF p
    <3> QED BY <2>7, <2>10, <3>1
  <2> QED BY <1>1, <1>6, <2>11 DEF HeldInv
<1> QED BY <1>7, <1>8, <1>9

\* The topic that disappears leaves its value to the one that stays.
LEMMA GivesUpKeeps ==
    ASSUME NEW f, NEW g, NEW p, NEW s \in Topic, NEW d \in Topic, s # d, ~p.topical,
           f = [u \in Topic |-> f[u]], OfThings(f), GivesUp(f, g, p, s, d)
    PROVE  /\ \A x : \A u \in Topic \ {d} : Shows(f, u, x) => Shows(g, u, x)
           /\ \A x : Shows(f, d, x) => Shows(g, s, x)
<1>1. CASE f[s] = NoValue /\ g = Given(Given(f, s, f[d]), d, NoValue)
  <2>1. /\ g[s] = f[d]
        /\ \A u \in Topic : u # s /\ u # d => g[u] = f[u]
    BY <1>1 DEF Given
  <2> QED BY <1>1, <2>1 DEF Shows
<1>2. CASE f[s] = f[d] /\ g = Given(f, d, NoValue)
  <2>1. \A u \in Topic : u # d => g[u] = f[u]
    BY <1>2 DEF Given
  <2> QED BY <1>2, <2>1 DEF Shows
<1>3. CASE /\ f[s] # NoValue /\ f[d] # NoValue
           /\ g = Given(United(f, f[s] \cup f[d], {s}), d, NoValue)
  <2> DEFINE w == United(f, f[s] \cup f[d], {s})
  <2>1. w = [u \in Topic |-> w[u]]
    BY DEF United
  <2>2. f[s] \cup f[d] \in SUBSET Things
    BY <1>3 DEF OfThings
  <2>3. /\ \A x : \A u \in Topic : Shows(f, u, x) => Shows(w, u, x)
        /\ \A x \in f[s] \cup f[d] : Shows(w, s, x)
    BY <2>2, UnitedGrows
  <2> HIDE DEF w
  <2>4. \A u \in Topic : u # d => g[u] = w[u]
    BY <1>3, <2>1 DEF Given, w
  <2> QED BY <2>3, <2>4 DEF Shows
<1> QED BY <1>1, <1>2, <1>3 DEF GivesUp

\* Both are in one list.
LEMMA ReplaceHeld ==
    ASSUME Inv, HeldInv, ReplaceNext
    PROVE  HeldInv'
<1> DEFINE p == PropOrder[at.prop]
           stays == lists[at.list][1]
           disap == lists[at.list][at.element]
           f == Shown(stores[p])
<1>1. phase = "replace" /\ status = "ok"
      /\ UNCHANGED <<last, disposed, lists, given, rep>>
  BY DEF ReplaceNext, Running, history
<1>2. p \in Prop
  BY PropsInOrder DEF Inv, ControlInv
<1>3. StoresOver(stores, Live) /\ Live \in SUBSET Topic /\ Disjoint(lists)
  BY LiveTopics DEF Inv, ControlInv
<1>4. /\ at.list \in DOMAIN lists /\ stays # disap
      /\ stays \in ToSet(lists[at.list]) /\ disap \in ToSet(lists[at.list])
      /\ stays \in Topic /\ disap \in Topic
  <2>1. at.list \in DOMAIN lists /\ at.element \in 2..Len(lists[at.list])
    BY <1>1 DEF Inv, LoopInv, ListInv, ElementInv
  <2>2. /\ Len(lists[at.list]) \in Nat /\ lists[at.list] \in Lists(Live)
        /\ \A k \in 1..Len(lists[at.list]) : lists[at.list][k] \in Live
        /\ \A k \in 2..Len(lists[at.list]) : lists[at.list][k] # lists[at.list][1]
    <3>1. lists \in Seq(Lists(Live))
      BY DEF Inv, ControlInv, LongLists
    <3> QED BY <2>1, <3>1, ListElements
  <2>3. at.element \in 1..Len(lists[at.list]) /\ 1 \in 1..Len(lists[at.list])
    BY <2>1, <2>2
  <2>4. lists[at.list] \in Seq(Live)
    BY <2>2 DEF Lists
  <2>5. stays \in ToSet(lists[at.list]) /\ disap \in ToSet(lists[at.list])
    BY <2>3, <2>4 DEF ToSet
  <2> QED BY <1>3, <2>1, <2>2, <2>3, <2>5
<1>5. RepInv'
  BY <1>1 DEF HeldInv, RepInv, Created, Live
<1> DEFINE Changes ==
      \E order \in ReplaceOrders(stores[p], Kind[p], stays, disap) :
         stores' = [stores EXCEPT ![p] =
                       ReplaceTopic(@, Kind[p], stays, disap, order)]
<1>6. stores' = stores \/ (stores[p].count < MaxVid /\ Changes)
  BY DEF ReplaceNext, MayStore
<1>7. ASSUME NEW r \in Prop, stores'[r] = stores[r], Held(r) PROVE Held(r)'
  BY <1>1, <1>7 DEF Held, Linked
<1>8. CASE stores' = stores
  BY <1>1, <1>5, <1>7, <1>8 DEF HeldInv
<1>9. CASE stores[p].count < MaxVid /\ Changes
  <2>1. PICK order \in ReplaceOrders(stores[p], Kind[p], stays, disap) :
           stores' = [stores EXCEPT ![p] =
                         ReplaceTopic(@, Kind[p], stays, disap, order)]
    BY <1>9
  <2> DEFINE n == ReplaceTopic(stores[p], Kind[p], stays, disap, order)
  <2>2. /\ stores'[p] = n
        /\ \A r \in Prop : r # p => stores'[r] = stores[r]
    BY <1>2, <1>3, <2>1 DEF StoresOver
  <2>3. /\ Sound(stores[p], Kind[p], ValuesOver(p, Live))
        /\ ~(Kind[p].combines /\ Kind[p].topical)
    BY <1>2, <1>3, TopicalKinds DEF StoresOver, StoreOver
  <2>4. n = stores[p] \/ GivesUp(f, Shown(n), Kind[p], stays, disap)
    BY <1>4, <1>9, <2>3, ReplaceShows
  <2>5. f = [u \in Topic |-> f[u]]
    BY DEF Shown
  <2>6. Kind[p].combines => OfThings(f)
    BY <1>2, <2>3, ShowsThings
  <2> HIDE DEF n, f, stays, disap, p
  <2>7. ASSUME NEW r \in Prop, r = p, Kind[p].combines, Held(r),
               GivesUp(f, Shown(n), Kind[p], stays, disap)
        PROVE  Held(r)'
    <3>1. /\ \A x : \A u \in Topic \ {disap} : Shows(f, u, x) => Shows(Shown(n), u, x)
          /\ \A x : Shows(f, disap, x) => Shows(Shown(n), stays, x)
      BY <1>4, <2>3, <2>5, <2>6, <2>7, GivesUpKeeps
    <3> SUFFICES ASSUME NEW t \in Topic, NEW x \in given[p][t]
                 PROVE  \E u \in Topic : Shows(Shown(n), u, x) /\ Linked(u, rep[t])
      <4>1. stores'[r] = n /\ given'[r] = given[p] /\ lists' = lists /\ rep' = rep
        BY <1>1, <2>2, <2>7
      <4> QED BY <4>1 DEF Held, Linked
    <3>2. PICK w \in Topic : Shows(f, w, x) /\ Linked(w, rep[t])
      BY <2>7 DEF Held, f
    <3>3. CASE w # disap
      BY <3>1, <3>2, <3>3
    <3>4. CASE w = disap
      <4>1. Linked(stays, rep[t])
        <5>1. CASE disap = rep[t]
          BY <1>4, <5>1 DEF Linked
        <5>2. CASE disap # rep[t]
          <6>1. PICK i \in DOMAIN lists : {disap, rep[t]} \subseteq ToSet(lists[i])
            BY <3>2, <3>4, <5>2 DEF Linked
          <6>2. i = at.list
            BY <1>3, <1>4, <6>1 DEF Disjoint
          <6> QED BY <1>4, <6>1, <6>2 DEF Linked
        <5> QED BY <5>1, <5>2
      <4> QED BY <1>4, <3>1, <3>2, <3>4, <4>1
    <3> QED BY <3>3, <3>4
  <2>8. ASSUME NEW r \in Prop, Kind[r].combines PROVE Held(r)'
    <3>1. Held(r)
      BY <1>1, <2>8 DEF HeldInv
    <3>2. CASE r = p
      <4>1. CASE n = stores[p]
        <5>1. stores'[r] = stores[r]
          BY <2>2, <3>2, <4>1
        <5> QED BY <1>7, <3>1, <5>1
      <4>2. CASE GivesUp(f, Shown(n), Kind[p], stays, disap)
        BY <2>7, <2>8, <3>1, <3>2, <4>2
      <4> QED BY <2>4, <4>1, <4>2
    <3>3. CASE r # p
      BY <1>7, <2>2, <3>1, <3>3
    <3> QED BY <3>2, <3>3
  <2> QED BY <1>1, <1>5, <2>8 DEF HeldInv
<1> QED BY <1>6, <1>8, <1>9

\* A topic of a list is its first or behind it.
LEMMA FirstOrBehind ==
    ASSUME Inv, NEW i \in DOMAIN lists, NEW t \in ToSet(lists[i])
    PROVE  t = Head(lists[i]) \/ t \in Behind(i)
<1>1. /\ lists[i] \in Lists(Live) /\ Len(lists[i]) > 1 /\ Len(lists[i]) \in Nat
      /\ Behind(i) = {lists[i][k] : k \in 2..Len(lists[i])}
  BY ListElements, BehindList
<1>2. PICK q \in Seq(Live) : q = lists[i]
  BY <1>1 DEF Lists
<1>3. Head(q) = q[1] /\ DOMAIN q = 1..Len(q)
  BY <1>1, <1>2
<1>4. PICK k \in 1..Len(q) : t = q[k]
  BY <1>2, <1>3 DEF ToSet
<1>5. k = 1 \/ k \in 2..Len(q)
  BY <1>4
<1> QED BY <1>1, <1>2, <1>3, <1>4, <1>5

\* When topics are disposed of, none behind the first of a list shows anything, so
\* what is linked to a topic is what it becomes.
LEMMA DisposeHeld ==
    ASSUME Inv, HeldInv, Dispose
    PROVE  HeldInv'
<1> DEFINE Listed(t) == \E i \in DOMAIN lists : rep[t] \in ToSet(lists[i])
           place(t) == CHOOSE i \in DOMAIN lists : rep[t] \in ToSet(lists[i])
<1>1. status = "ok" /\ UNCHANGED <<stores, last, given>>
  BY DEF Dispose, Running
<1>2. CASE status' # "ok"
  BY <1>1, <1>2 DEF HeldInv
<1>3. CASE status' = "ok"
  <2>1. /\ lists' = <<>> /\ disposed' = disposed \cup Disappearing
        /\ rep' = [t \in Topic |-> IF Listed(t) THEN Head(lists[place(t)]) ELSE rep[t]]
        /\ \A t \in Disappearing : \A p \in Prop : stores[p].vid[t] = 0
    BY <1>3 DEF Dispose, CleanedLists, MayDispose
  <2>2. \A t \in Topic : ~Listed(t) => rep'[t] = rep[t]
    BY <2>1
  <2>3. ASSUME NEW t \in Topic, NEW i \in DOMAIN lists, rep[t] \in ToSet(lists[i])
        PROVE  rep'[t] = Head(lists[i])
    <3>1. place(t) \in DOMAIN lists /\ rep[t] \in ToSet(lists[place(t)])
      BY <2>3
    <3>2. rep'[t] = Head(lists[place(t)])
      BY <2>1, <2>3
    <3> HIDE DEF place
    <3>3. place(t) = i
      BY <2>3, <3>1 DEF Inv, ControlInv, Disjoint
    <3> QED BY <3>2, <3>3
  <2>4. \A t : t \in Disappearing <=> \E i \in DOMAIN lists : t \in Behind(i)
    BY DEF Disappearing, Behind
  <2>5. \A i \in DOMAIN lists :
           Head(lists[i]) \in Live /\ Head(lists[i]) \notin Disappearing
    BY <2>4, ListElements, FirstStays
  <2>6. Live' = Live \ Disappearing /\ Created' = Created
    BY <1>1, <2>1 DEF Live, Created
  <2> HIDE DEF place
  <2>7. ASSUME NEW t \in Topic, rep[t] \in Live
        PROVE  rep'[t] \in Live'
    <3>1. CASE Listed(t)
      <4>1. PICK i \in DOMAIN lists : rep[t] \in ToSet(lists[i])
        BY <3>1
      <4> QED BY <2>3, <2>5, <2>6, <4>1
    <3>2. CASE ~Listed(t)
      <4>1. \A i \in DOMAIN lists : Behind(i) \subseteq ToSet(lists[i])
        <5> SUFFICES ASSUME NEW i \in DOMAIN lists, NEW u \in Behind(i)
                     PROVE  u \in ToSet(lists[i])
          OBVIOUS
        <5>1. /\ Behind(i) = {lists[i][k] : k \in 2..Len(lists[i])}
              /\ lists[i] \in Lists(Live) /\ Len(lists[i]) \in Nat
          BY BehindList, ListElements
        <5>2. DOMAIN lists[i] = 1..Len(lists[i])
          BY <5>1 DEF Lists
        <5> QED BY <5>1, <5>2 DEF ToSet
      <4>2. rep[t] \notin Disappearing
        BY <2>4, <3>2, <4>1
      <4> QED BY <2>2, <2>6, <2>7, <3>2, <4>2
    <3> QED BY <3>1, <3>2
  <2>8. ASSUME NEW t \in Topic \ disposed' PROVE rep'[t] = t
    <3>1. t \notin disposed /\ t \notin Disappearing /\ rep[t] = t
      BY <1>1, <2>1 DEF HeldInv, RepInv
    <3>2. CASE Listed(t)
      <4>1. PICK i \in DOMAIN lists : rep[t] \in ToSet(lists[i])
        BY <3>2
      <4>2. t = Head(lists[i])
        BY <2>4, <3>1, <4>1, FirstOrBehind
      <4> QED BY <2>3, <4>1, <4>2
    <3>3. CASE ~Listed(t)
      BY <2>2, <3>1, <3>3
    <3> QED BY <3>2, <3>3
  <2>9. RepInv'
    <3>1. \A t \in Created' : rep[t] \in Live /\ t \in Topic
      BY <1>1, <2>6, TopicNumbers DEF HeldInv, RepInv, Inv, ControlInv, Created
    <3>2. \A t \in Created' : rep'[t] \in Live'
      BY <2>7, <3>1
    <3> QED BY <2>8, <3>2 DEF RepInv
  <2>10. ASSUME NEW p \in Prop, Kind[p].combines PROVE Held(p)'
    <3> SUFFICES ASSUME NEW t \in Topic, NEW x \in given[p][t]
                 PROVE  Shows(Shown(stores[p]), rep'[t], x) /\ rep'[t] \in Topic
      BY <1>1 DEF Held, Linked
    <3>1. PICK w \in Topic : Shows(Shown(stores[p]), w, x) /\ Linked(w, rep[t])
      BY <1>1, <2>10 DEF HeldInv, Held
    <3>2. w \notin Disappearing
      BY <2>1, <3>1 DEF Shows, Shown
    <3>3. rep'[t] = w
      <4>1. CASE Listed(t)
        <5>1. PICK i \in DOMAIN lists : rep[t] \in ToSet(lists[i])
          BY <4>1
        <5>2. w \in ToSet(lists[i])
          BY <3>1, <5>1 DEF Linked, Inv, ControlInv, Disjoint
        <5>3. w = Head(lists[i])
          BY <2>4, <3>2, <5>2, FirstOrBehind
        <5> QED BY <2>3, <5>1, <5>3
      <4>2. CASE ~Listed(t)
        <5>1. w = rep[t]
          BY <3>1, <4>2 DEF Linked
        <5> QED BY <2>2, <4>2, <5>1
      <4> QED BY <4>1, <4>2
    <3> QED BY <3>1, <3>3
  <2> QED BY <1>1, <2>9, <2>10 DEF HeldInv
<1> QED BY <1>2, <1>3

\* Steps that leave all this alone, perhaps adding a topic.
LEMMA QuietHeld ==
    ASSUME Inv, HeldInv, status = "ok", UNCHANGED <<stores, disposed, lists, given, rep>>,
           last' = last \/ (last' = last + 1 /\ last' \in Topic)
    PROVE  HeldInv'
<1>1. last \in Nat /\ disposed \subseteq Created
  BY TopicNumbers DEF Inv, ControlInv
<1>2. Created' \subseteq Created \cup {last'} /\ Created \subseteq Created'
  BY <1>1 DEF Created
<1>3. ASSUME NEW t \in Created' PROVE rep'[t] \in Live'
  <2>1. CASE t \in Created
    BY <1>2, <2>1 DEF HeldInv, RepInv, Live
  <2>2. CASE t \notin Created
    <3>1. t = last' /\ t \in Topic /\ t \notin disposed
      BY <1>1, <1>2, <2>2 DEF Created
    <3> QED BY <3>1 DEF HeldInv, RepInv, Live
  <2> QED BY <2>1, <2>2
<1>4. RepInv'
  BY <1>3 DEF HeldInv, RepInv
<1>5. \A p \in Prop : Held(p) => Held(p)'
  BY DEF Held, Linked
<1> QED BY <1>4, <1>5 DEF HeldInv

\* As long as no topics are lost, every step keeps what was given.
LEMMA NextKeepsHeld ==
    ASSUME CombiningOnly, Inv, CombiningInv, GivenInv, NoneLost, HeldInv, [Next]_vars
    PROVE  HeldInv'
<1>0. CASE UNCHANGED vars
  <2>1. UNCHANGED <<stores, lists, given, rep, status, last, disposed>>
    BY <1>0 DEF vars, core, control, history
  <2>2. (RepInv <=> RepInv') /\ \A p \in Prop : Held(p) => Held(p)'
    BY <2>1 DEF Held, Linked, RepInv, Created, Live
  <2> QED BY <2>1, <2>2 DEF HeldInv
<1>1. ASSUME NEW subject \in Subjects, AddSubject(subject) PROVE HeldInv'
  BY <1>1, QuietHeld DEF AddSubject, Idle, NewTopic, history
<1>2. ASSUME NEW t \in Topic, NEW l \in Literals, AddPropertyToTopic(t, l[1], l[2])
      PROVE  HeldInv'
  BY <1>2, AddPropertyHeld DEF AddPropertyToTopic, Idle
<1>3. CASE FullyMerge
  <2>1. /\ UNCHANGED <<stores, disposed, lists, given, rep>> /\ last' = last
        /\ status = "ok"
    BY <1>3 DEF FullyMerge, Idle, core, history
  <2> QED BY <2>1, QuietHeld
<1>4. CASE AddSubjectProperty
  <2>1. /\ phase = "subject" /\ status = "ok"
        /\ AddProperty(last, Head(todo)[1], Head(todo)[2])
        /\ UNCHANGED <<last, disposed, lists, rep>>
    BY <1>4 DEF AddSubjectProperty, Running
  <2>2. Head(todo) \in Literals /\ last \in Live
    BY <2>1 DEF Inv, LoopInv, AddingInv
  <2> QED BY <2>1, <2>2, AddPropertyHeld
<1>5. CASE WhileNotNormalized
  <2>1. /\ UNCHANGED <<stores, disposed, lists, given, rep>> /\ last' = last
        /\ status = "ok"
    BY <1>5 DEF WhileNotNormalized, Running, core, history
  <2> QED BY <2>1, QuietHeld
<1>6. CASE NormalizeNext
  BY <1>6, NormalizeHeld
<1>7. CASE ReplaceNext
  BY <1>7, ReplaceHeld
<1>8. CASE CollectVids
  <2>1. /\ UNCHANGED <<stores, disposed, lists, given, rep>> /\ last' = last
        /\ status = "ok"
    BY <1>8 DEF CollectVids, Running, core, history
  <2> QED BY <2>1, QuietHeld
<1>9. CASE RewriteValue
  BY <1>9 DEF RewriteValue, Running, CombiningInv
<1>10. CASE Dispose
  BY <1>10, DisposeHeld
<1>11. \A a \in Topic, asidp \in Forms : ~AddAssertion(a, asidp)
  BY DEF CombiningOnly
<1> QED BY <1>0, <1>1, <1>2, <1>3, <1>4, <1>5, <1>6, <1>7, <1>8, <1>9, <1>10, <1>11
    DEF Next, Call, Step, MergeStep

\* Nothing is given at first.
LEMMA InitHeld == Init => HeldInv
<1> SUFFICES ASSUME Init PROVE HeldInv
  OBVIOUS
<1>1. /\ given = [p \in Prop |-> [t \in Topic |-> {}]]
      /\ rep = [t \in Topic |-> t] /\ last = 0
  BY DEF Init
<1>2. \A p \in Prop, t \in Topic : given[p][t] = {}
  BY <1>1
<1>3. Created = {}
  BY <1>1 DEF Created
<1> QED BY <1>1, <1>2, <1>3 DEF HeldInv, RepInv, Held

\* Every property given from outside combines and identifies topics.
IdentifyingOnly == CombiningOnly /\ \A l \in Literals : Kind[l[1]].sidp

\* The topics that have become u.
MergedInto(u) == {t \in Created : rep[t] = u}

\* When nothing is left to merge, no two topics show one locator, so topics that
\* were given one have become the same.
LEMMA RelatedMerge ==
    ASSUME Inv, IdentifyingOnly, HeldInv, Merged, NEW t \in Created, NEW u \in Created,
           Related(t, u)
    PROVE  rep[t] = rep[u]
<1>1. status = "ok" /\ DOMAIN lists = {} /\ AllNormalized
  BY DEF Merged
<1>2. Created \subseteq Topic /\ Live \subseteq Topic
  BY TopicNumbers, LiveTopics DEF Inv, ControlInv, Created
<1>3. CASE t = u
  BY <1>3
<1>4. CASE t # u
  <2>1. PICK p \in Prop : given[p][t] \cap given[p][u] # {}
    BY <1>4 DEF Related
  <2>2. PICK x : x \in given[p][t] /\ x \in given[p][u]
    BY <2>1
  <2>3. Kind[p].combines /\ Kind[p].sidp
    BY <1>2, <2>2 DEF HeldInv, IdentifyingOnly, CombiningOnly
  <2> DEFINE s == stores[p]
             f == Shown(s)
             a == rep[t]
             b == rep[u]
  <2>4. Shows(f, a, x) /\ Shows(f, b, x) /\ a \in Topic /\ b \in Topic
    BY <1>1, <1>2, <2>2, <2>3 DEF HeldInv, Held, Linked, RepInv
  <2>5. Sound(s, Kind[p], ValuesOver(p, Live))
    BY DEF Inv, StoresOver, StoreOver
  <2>6. s.vid[a] # 0 /\ s.vid[b] # 0
    BY <2>4, <2>5, ShownValue DEF Shows
  <2>7. f[a] = f[b]
    <3>1. f[a] \cap f[b] # {}
      BY <2>4 DEF Shows
    <3> QED BY <2>3, <2>4, <2>5, <2>6, <3>1, MeetingIsEqual
  <2>8. s.vid[a] = s.vid[b] /\ s.vid[a] \in Vid
    BY <2>4, <2>5, <2>6, <2>7, OneVidForValue, ShownValue
  <2>9. PICK q \in Seq(Topic) : q = s.topics[s.vid[a]]
    BY <2>5, <2>8 DEF Sound, Consistent, StoreType
  <2>10. a \in ToSet(q) /\ b \in ToSet(q)
    BY <2>4, <2>5, <2>8, <2>9 DEF Sound, Consistent, Matching
  <2>11. Len(q) <= 1
    <3>1. s.normalized
      BY <1>1, <2>3 DEF AllNormalized, IsNormalized
    <3> QED BY <2>3, <2>5, <2>8, <2>9, <3>1 DEF Sound, Consistent, Unique
  <2> HIDE DEF a, b, s, f
  <2>12. a = b
    <3>1. DOMAIN q = 1..Len(q) /\ Len(q) \in Nat
      OBVIOUS
    <3>2. PICK i \in 1..Len(q), j \in 1..Len(q) : q[i] = a /\ q[j] = b
      BY <2>10, <3>1 DEF ToSet
    <3>3. i = j
      BY <2>11, <3>1, <3>2
    <3> QED BY <3>2, <3>3
  <2> QED BY <2>12 DEF a, b
<1> QED BY <1>3, <1>4

\* The topics that have become one make a class.
LEMMA MergedIsClass ==
    ASSUME Inv, IdentifyingOnly, ApartInv, HeldInv, Merged, NEW u \in Live
    PROVE  MergedInto(u) \in Classes /\ Closed(MergedInto(u))
<1> DEFINE C == MergedInto(u)
<1>1. /\ C \subseteq Created /\ Created \subseteq Topic /\ u \in C
      /\ \A t \in C : rep[t] = u
  BY TopicNumbers, LiveTopics
     DEF Inv, ControlInv, Created, Live, MergedInto, HeldInv, RepInv, Merged
<1>2. ClassClosed(C)
  <2> SUFFICES ASSUME NEW t \in C, NEW s \in Created, Related(t, s) PROVE s \in C
    BY DEF ClassClosed
  <2>1. rep[s] = rep[t]
    BY <1>1, RelatedMerge
  <2> QED BY <1>1, <2>1 DEF MergedInto
<1>3. Closed(C)
  BY <1>1, <1>2, ClassesAreClosed DEF ApartInv
<1>4. ASSUME NEW T \in SUBSET C, T # {}, ClassClosed(T) PROVE T = C
  <2>1. T \in SUBSET Created /\ T \in SUBSET Topic
    BY <1>1
  <2>2. Closed(T)
    BY <1>1, <1>4, <2>1, ClassesAreClosed DEF ApartInv
  <2>3. \A t \in Topic : rep[t] \in T <=> t \in T
    BY <2>1, <2>2 DEF ApartInv, ApartFrom, Merged
  <2>4. u \in T
    BY <1>1, <1>4, <2>1, <2>3
  <2> QED BY <1>1, <2>3, <2>4
<1> HIDE DEF C
<1>5. C \in Classes
  BY <1>1, <1>2, <1>4 DEF Classes
<1> QED BY <1>3, <1>5 DEF C

\* Every class is what has become one of its topics.
LEMMA ClassIsMerged ==
    ASSUME Inv, IdentifyingOnly, ApartInv, HeldInv, Merged, NEW S \in Classes
    PROVE  \E u \in Live : S = MergedInto(u)
<1>1. /\ S \subseteq Created /\ S # {} /\ ClassClosed(S) /\ Created \subseteq Topic
      /\ \A T \in SUBSET S : T # {} /\ ClassClosed(T) => T = S
  BY TopicNumbers DEF Classes, Inv, ControlInv, Created
<1>2. \A t \in Topic : rep[t] \in S <=> t \in S
  <2>1. Closed(S)
    BY <1>1, ClassesAreClosed DEF ApartInv
  <2> QED BY <1>1, <2>1 DEF ApartInv, ApartFrom, Merged
<1>3. PICK t \in S : t \in Created /\ rep[t] \in S /\ rep[t] \in Live
  BY <1>1, <1>2 DEF HeldInv, RepInv, Merged
<1> DEFINE u == rep[t]
           C == MergedInto(u)
<1>4. C \subseteq S /\ t \in C
  BY <1>1, <1>2, <1>3 DEF MergedInto
<1>5. C \in Classes
  BY <1>3, MergedIsClass
<1>6. ClassClosed(C)
  BY <1>5 DEF Classes
<1>7. C = S
  BY <1>1, <1>4, <1>6
<1> QED BY <1>3, <1>7

\* Holding and keeping apart together, in every state of such a program.
LEMMA HeldReady ==
    ASSUME CombiningOnly
    PROVE  Spec /\ []NoneLost => [](Inv /\ ApartInv /\ HeldInv)
<1>1. Init => HeldInv
  BY InitHeld
<1>2. Inv /\ CombiningInv /\ ApartInv /\ NoneLost /\ HeldInv /\ [Next]_vars => HeldInv'
  BY NextKeepsHeld DEF ApartInv
<1>3. Spec => [](Inv /\ CombiningInv /\ ApartInv)
  BY ApartReady
<1> QED BY <1>1, <1>2, <1>3, PTL DEF Spec

\* In a program that adds values of identity properties that combine only,
\* fully_merge makes topics one exactly if a chain of shared locators connects them,
\* in whichever order and over how many calls they were given and merged
\* (src/src/topicmap.c), as long as no array that normalization hands over makes
\* add_mergelist lose topics.
THEOREM MergesWhatIsRelated ==
    ASSUME IdentifyingOnly
    PROVE  Spec /\ []NoneLost => []MergedIffRelated
<1>1. Inv /\ ApartInv /\ HeldInv => MergedIffRelated
  <2> SUFFICES ASSUME Inv, ApartInv, HeldInv, Merged
               PROVE  {{t \in Created : rep[t] = u} : u \in Live} = Classes
    BY DEF MergedIffRelated
  <2>1. \A u \in Live : MergedInto(u) \in Classes
    BY MergedIsClass
  <2>2. \A S \in Classes : \E u \in Live : S = MergedInto(u)
    BY ClassIsMerged
  <2>3. {MergedInto(u) : u \in Live} = Classes
    BY <2>1, <2>2
  <2> QED BY <2>3 DEF MergedInto
<1>2. Spec /\ []NoneLost => [](Inv /\ ApartInv /\ HeldInv)
  BY HeldReady DEF IdentifyingOnly
<1> QED BY <1>1, <1>2, PTL

\* And the topic that stays shows the locators given to those that have become it,
\* no more and no less, under the same conditions.
THEOREM KeepsLocators ==
    ASSUME IdentifyingOnly
    PROVE  Spec /\ []NoneLost => []LocatorsKept
<1>1. Inv /\ ApartInv /\ HeldInv => LocatorsKept
  <2> SUFFICES ASSUME Inv, ApartInv, HeldInv, Merged, NEW p \in Prop, NEW u \in Live,
                      Kind[p].combines
               PROVE  UNION {given[p][t] : t \in MergedInto(u)}
                        = IF stores[p].vid[u] = 0 THEN {}
                          ELSE stores[p].value[stores[p].vid[u]]
    BY DEF LocatorsKept, MergedInto
  <2> DEFINE f == Shown(stores[p])
             C == MergedInto(u)
             G == UNION {given[p][t] : t \in C}
  <2>1. /\ C \subseteq Topic /\ u \in C /\ u \in Topic
        /\ \A t \in C : rep[t] = u
    BY TopicNumbers, LiveTopics
       DEF Inv, ControlInv, Created, Live, MergedInto, HeldInv, RepInv, Merged
  <2>2. Sound(stores[p], Kind[p], ValuesOver(p, Live))
    BY DEF Inv, StoresOver, StoreOver
  <2>3. /\ stores[p].vid[u] = 0 => f[u] = NoValue
        /\ stores[p].vid[u] # 0 => f[u] # NoValue
                                   /\ f[u] = stores[p].value[stores[p].vid[u]]
    BY <2>1, <2>2, ShownValue
  <2>4. \A x \in G : Shows(f, u, x)
    <3>1. Held(p) /\ DOMAIN lists = {}
      BY DEF HeldInv, Merged
    <3> QED BY <2>1, <3>1 DEF Held, Linked
  <2>5. f[u] # NoValue => f[u] \subseteq G
    <3>1. Closed(C)
      BY MergedIsClass
    <3>2. MadeOf(f, given[p], C)
      BY <2>1, <3>1 DEF ApartInv, ApartFrom, AllMade, Merged
    <3> QED BY <2>1, <3>2 DEF MadeOf
  <2> HIDE DEF f, G
  <2>6. G = IF stores[p].vid[u] = 0 THEN {} ELSE stores[p].value[stores[p].vid[u]]
    BY <2>3, <2>4, <2>5 DEF Shows
  <2> QED BY <2>6 DEF G
<1>2. Spec /\ []NoneLost => [](Inv /\ ApartInv /\ HeldInv)
  BY HeldReady DEF IdentifyingOnly
<1> QED BY <1>1, <1>2, PTL

=============================================================================
