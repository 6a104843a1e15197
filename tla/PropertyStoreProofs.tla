------------------------ MODULE PropertyStoreProofs ------------------------
(***************************************************************************)
(* The invariants of PropertyStore, and that it implements PropertyMap,    *)
(* for any number of topics, vids and values.  What each call does to the  *)
(* stores, and to what they show, is shown in StoreOpsProofs.              *)
(***************************************************************************)
EXTENDS PropertyStore, StoreOpsProofs

-----------------------------------------------------------------------------
(* The invariant *)

\* The inductive invariant: the five properties of the stores, and that no vid
\* beyond the counter has a value, without which a new value could land on one
\* in use.
Inv ==
    /\ prop \in Property
    /\ rc \in {"ok", "contradicting"}
    /\ Sound(store, prop, Value)

\* The values of every kind of property are closed under union.
LEMMA ValuesFit ==
    ASSUME NEW p PROVE Fits(Value, p)
BY PropertyAssumption DEF Fits

\* The empty stores are sound.
LEMMA InitSound == Init => Inv
<1> SUFFICES ASSUME Init PROVE Inv
  OBVIOUS
<1>1. prop \in Property /\ rc = "ok" /\ store = EmptyStore
  BY DEF Init
<1>2. Sound(EmptyStore, prop, Value)
  BY EmptyIsSound, ValuesFit
<1> QED BY <1>1, <1>2 DEF Inv

\* Every call that topicmap.c makes on the stores keeps them sound.
LEMMA NextKeepsInv == Inv /\ [Next]_vars => Inv'
<1> SUFFICES ASSUME Inv, [Next]_vars PROVE Inv'
  OBVIOUS
<1>1. prop \in Property /\ Sound(store, prop, Value)
  BY DEF Inv
<1>2. ASSUME NEW t \in Topic, NEW val \in Value, PutProperty(t, val)
      PROVE  Inv'
  <2>1. prop' = prop /\ rc' \in {"ok", "contradicting"} /\ store.count < MaxVid
    BY <1>2 DEF PutProperty, MayStore
  <2>2. PICK order \in PutOrders(store, prop, t, val) :
           store' = Put(store, prop, t, val, order)
    BY <1>2 DEF PutProperty
  <2>3. Sound(Put(store, prop, t, val, order), prop, Value)
    BY <1>1, <2>1, PutKeepsSound
  <2> QED BY <1>1, <2>1, <2>2, <2>3 DEF Inv
<1>3. CASE Normalize
  <2>1. prop' = prop /\ rc' = "ok" /\ store' = NormalizeStore(prop, store)
    BY <1>3 DEF Normalize
  <2>2. Sound(NormalizeStore(prop, store), prop, Value)
    BY <1>1, NormalizeKeepsSound
  <2> QED BY <1>1, <2>1, <2>2 DEF Inv
<1>4. ASSUME NEW stays \in Topic, NEW disap \in Topic, Replace(stays, disap)
      PROVE  Inv'
  <2>1. /\ prop' = prop /\ rc' \in {"ok", "contradicting"}
        /\ store.count < MaxVid /\ stays # disap
    BY <1>4 DEF Replace, MayStore
  <2>2. PICK order \in ReplaceOrders(store, prop, stays, disap) :
           store' = ReplaceTopic(store, prop, stays, disap, order)
    BY <1>4 DEF Replace
  <2>3. Sound(ReplaceTopic(store, prop, stays, disap, order), prop, Value)
    BY <1>1, <2>1, ReplaceKeepsSound
  <2> QED BY <1>1, <2>1, <2>2, <2>3 DEF Inv
<1>5. ASSUME NEW v \in Vid, NEW val \in Value, Rewrite(v, val)
      PROVE  Inv'
  <2>1. /\ prop' = prop /\ rc' = "ok" /\ store.count < MaxVid
        /\ prop.topical /\ store.value[v] # NoValue /\ store.value[v] # val
        /\ store' = ReplaceValue(store, prop, v, val)
    BY <1>5 DEF Rewrite, MayStore
  <2>2. ~prop.combines
    <3>1. Property \subseteq PropertyType /\ prop.combines \in BOOLEAN
      BY <1>1, PropertyAssumption DEF PropertyType
    <3> QED BY <1>1, <2>1, <3>1, PropertyAssumption
  <2>3. Sound(ReplaceValue(store, prop, v, val), prop, Value)
    BY <1>1, <2>1, <2>2, ReplaceValueKeepsSound
  <2> QED BY <1>1, <2>1, <2>3 DEF Inv
<1>6. CASE UNCHANGED vars
  BY <1>6 DEF vars, Inv
<1> QED BY <1>2, <1>3, <1>4, <1>5, <1>6 DEF Next

\* The stores are sound in every reachable state.
LEMMA Invariance == Spec => []Inv
BY InitSound, NextKeepsInv, PTL DEF Spec

-----------------------------------------------------------------------------
(* The theorems *)

\* Every variable keeps its type, in particular every vid stays within its
\* bound and every stored value is one of the values or a union of some, under
\* any sequence of the puts, normalizations and merges of topicmap.c.
THEOREM TypeCorrect == Spec => []TypeOK
<1>1. Inv => TypeOK
  BY DEF TypeOK, Inv, Sound, Consistent
<1> QED BY <1>1, Invariance, PTL

\* The vid table and the topic arrays of propertystore.c are inverse to each
\* other, however topics are inserted, removed, moved and cut.
THEOREM TablesMatch == Spec => []TableMatchesArrays
<1>1. Inv => TableMatchesArrays
  BY DEF TableMatchesArrays, Inv, Sound, Consistent
<1> QED BY <1>1, Invariance, PTL

\* A value is in the value store exactly as long as some topic has it.
THEOREM OrphansNever == Spec => []NoOrphanValue
<1>1. Inv => NoOrphanValue
  BY DEF NoOrphanValue, Inv, Sound
<1> QED BY <1>1, Invariance, PTL

\* The sets stored for a combining property stay disjoint, on which all lookups
\* of textsetstore.c rely, and no value is stored twice.
THEOREM SetsDisjoint == Spec => []ValuesDisjoint
<1>1. Inv => ValuesDisjoint
  BY DEF ValuesDisjoint, Inv, Sound, Consistent
<1> QED BY <1>1, Invariance, PTL

\* A store whose flag says normalized has at most one topic per value, which is
\* what lookup_topic takes for granted.
THEOREM NormalizedUnique == Spec => []NormalizedIsUnique
<1>1. Inv => NormalizedIsUnique
  BY DEF NormalizedIsUnique, Inv, Sound, Consistent
<1> QED BY <1>1, Invariance, PTL

\* No assert on the way of these calls can fail.
THEOREM AssertsHold == Spec => []NoAssertFails
<1>1. Inv => NoAssertFails
  BY DEF NoAssertFails, Inv, Sound, Consistent
<1> QED BY <1>1, Invariance, PTL

-----------------------------------------------------------------------------
(* The refinement *)

\* ValueOf is what the topics show in the store, and Unite works on it.
LEMMA MapOfStore ==
    /\ ValueOf = Shown(store)
    /\ \A v, ts : Map!Unite(v, ts) = United(ValueOf, v, ts)
<1>1. ValueOf = Shown(store)
  BY DEF ValueOf, Shown
<1>2. ASSUME NEW v, NEW ts PROVE Map!Unite(v, ts) = United(ValueOf, v, ts)
  <2>1. Met(ValueOf, v) = {u \in Topic : Map!Valued(u) /\ ValueOf[u] \cap v # {}}
    BY DEF Met, Map!Valued
  <2> QED BY <2>1 DEF Map!Unite, United, Together
<1> QED BY <1>1, <1>2

\* The empty stores show no value.
LEMMA InitMaps == Init => Map!MapInit
<1> SUFFICES ASSUME Init PROVE ValueOf = [t \in Topic |-> NoValue]
  BY DEF Map!MapInit
<1>1. store.vid = [t \in Topic |-> 0]
  BY DEF Init, EmptyStore
<1> QED BY <1>1 DEF ValueOf

\* Every step of the two stores is a step of the map, or changes nothing in it.
LEMMA StepMaps == Inv /\ [Next]_vars => [Map!MapNext]_(Map!mapVars)
<1> SUFFICES ASSUME Inv, [Next]_vars PROVE Map!MapNext \/ UNCHANGED Map!mapVars
  OBVIOUS
<1>1. prop \in Property /\ Sound(store, prop, Value) /\ ~(prop.combines /\ prop.topical)
  BY PropertyAssumption DEF Inv
<1>2. ValueOf = Shown(store) /\ ValueOf' = Shown(store')
  BY DEF ValueOf, Shown
<1>3. ASSUME store' = store, prop' = prop PROVE UNCHANGED Map!mapVars
  BY <1>2, <1>3 DEF Map!mapVars
<1>4. ASSUME NEW t \in Topic, NEW val \in Value, PutProperty(t, val)
      PROVE  Map!MapNext
  <2>1. prop' = prop /\ store.count < MaxVid
    BY <1>4 DEF PutProperty, MayStore
  <2>2. PICK order \in PutOrders(store, prop, t, val) :
           store' = Put(store, prop, t, val, order)
    BY <1>4 DEF PutProperty
  <2>3. ValueOf' = IF prop.combines
                   THEN United(ValueOf, IF ValueOf[t] # NoValue
                                        THEN ValueOf[t] \cup val ELSE val, {t})
                   ELSE IF ValueOf[t] # NoValue THEN ValueOf
                   ELSE Given(ValueOf, t, val)
    <3>1. ShowsPut(Put(store, prop, t, val, order), store, prop, t, val)
      BY <1>1, <2>1, PutShows
    <3> QED BY <1>2, <2>2, <3>1 DEF ShowsPut
  <2>4. Map!MapPut(t, val)
    BY <2>1, <2>3, MapOfStore DEF Map!MapPut, Map!Valued, Given
  <2> QED BY <2>4 DEF Map!MapNext
<1>5. ASSUME Normalize PROVE Map!MapNext \/ UNCHANGED Map!mapVars
  <2>1. prop' = prop /\ store' = NormalizeStore(prop, store)
    BY <1>5 DEF Normalize
  <2>2. CASE IsNormalized(prop, store)
    BY <1>3, <2>1, <2>2 DEF NormalizeStore
  <2>3. CASE ~IsNormalized(prop, store)
    <3> DEFINE keep == {t \in Topic : NormalizeStore(prop, store).vid[t] # 0}
    <3>1. /\ \A t \in keep : ValueOf[t] # NoValue
          /\ \A t \in Topic : ValueOf[t] # NoValue
                                 => \E u \in keep : ValueOf[u] = ValueOf[t]
          /\ \A t, u \in keep : ValueOf[t] = ValueOf[u] => t = u
          /\ ValueOf' = [t \in Topic |-> IF t \in keep THEN ValueOf[t] ELSE NoValue]
      BY <1>1, <1>2, <2>1, <2>3, NormalizeShows
    <3>2. prop.sidp
      BY <2>3 DEF IsNormalized
    <3>3. PICK kept : kept = keep
      OBVIOUS
    <3>4. kept \in SUBSET {t \in Topic : Map!Valued(t)}
      BY <3>1, <3>3 DEF Map!Valued
    <3> HIDE DEF keep
    <3>5. Map!MapNormalize
      BY <2>1, <3>1, <3>2, <3>3, <3>4 DEF Map!MapNormalize, Map!Valued
    <3> QED BY <3>5 DEF Map!MapNext
  <2> QED BY <2>2, <2>3
<1>6. ASSUME NEW stays \in Topic, NEW disap \in Topic, Replace(stays, disap)
      PROVE  Map!MapNext \/ UNCHANGED Map!mapVars
  <2>1. prop' = prop /\ store.count < MaxVid /\ stays # disap
    BY <1>6 DEF Replace, MayStore
  <2>2. PICK order \in ReplaceOrders(store, prop, stays, disap) :
           store' = ReplaceTopic(store, prop, stays, disap, order)
    BY <1>6 DEF Replace
  <2>3. store' = store \/ GivesUp(ValueOf, ValueOf', prop, stays, disap)
    BY <1>1, <1>2, <2>1, <2>2, ReplaceShows
  <2>4. CASE store' = store
    BY <1>3, <2>1, <2>4
  <2>5. CASE store' # store
    <3>1. Map!MapReplace(stays, disap)
      BY <2>1, <2>3, <2>5, MapOfStore DEF Map!MapReplace, Map!Valued, Given, GivesUp
    <3> QED BY <2>1, <3>1 DEF Map!MapNext
  <2> QED BY <2>4, <2>5
<1>7. ASSUME NEW v \in Vid, NEW val \in Value, Rewrite(v, val)
      PROVE  Map!MapNext
  <2>1. /\ prop' = prop /\ store.count < MaxVid /\ prop.topical
        /\ store.value[v] # NoValue /\ store.value[v] # val
        /\ store' = ReplaceValue(store, prop, v, val)
    BY <1>7 DEF Rewrite, MayStore
  <2>2. store.value[v] \in Value
    BY <1>1, <2>1 DEF Sound, Consistent, StoreType
  <2>3. ValueOf' = [t \in Topic |-> IF ValueOf[t] = store.value[v] THEN val
                                    ELSE ValueOf[t]]
    <3>1. ~prop.combines
      <4>1. Property \subseteq PropertyType /\ prop.combines \in BOOLEAN
        BY <1>1, PropertyAssumption DEF PropertyType
      <4> QED BY <1>1, <2>1, <4>1
    <3>2. ShowsRewritten(ReplaceValue(store, prop, v, val), store, v, val)
      BY <1>1, <2>1, <3>1, RewriteShows
    <3> QED BY <1>2, <2>1, <3>2 DEF ShowsRewritten
  <2>4. Map!MapReplaceValue(store.value[v], val)
    BY <2>1, <2>3 DEF Map!MapReplaceValue
  <2> QED BY <2>2, <2>4 DEF Map!MapNext
<1>8. CASE UNCHANGED vars
  BY <1>3, <1>8 DEF vars
<1> QED BY <1>4, <1>5, <1>6, <1>7, <1>8 DEF Next

\* The stores of a property implement the map PropertyMap: vids, arrays and the
\* order in which topics are taken out of them and put back cannot be seen in
\* the values the topics have.
THEOREM StoreImplementsMap == Spec => ImplementsMap
<1>1. Spec => Map!MapSpec
  BY Invariance, InitMaps, StepMaps, PTL DEF Spec, Map!MapSpec
<1> QED BY <1>1 DEF ImplementsMap

=============================================================================
