--------------------------- MODULE PropertyStore ---------------------------
(***************************************************************************)
(* The stores of one property under every sequence of the calls that       *)
(* src/src/topicmap.c makes on them: _pstore_put for a topic that gets a   *)
(* value, the normalization and the two replacement loops of               *)
(* tm_topicmap_fully_merge.  Which topics are merged is decided by all the *)
(* properties together (module TopicMap); here any pair may be.            *)
(***************************************************************************)
EXTENDS StoreOps

CONSTANTS Value,     \* the values, non-empty sets of locators (of topics)
          Property   \* the kinds of property considered

ASSUME PropertyAssumption ==
    /\ \A v \in Value : v # NoValue /\ v # {}
    /\ \A S \in SUBSET Value : S # {} => UNION S \in Value
    /\ Property \subseteq PropertyType
    /\ \A p \in Property : ~(p.combines /\ p.topical)
    /\ 0 \notin Topic

VARIABLES prop,   \* the property, chosen once
          store,  \* its property store and value store
          rc      \* what the last call returned

vars == <<prop, store, rc>>

Init ==
    /\ prop \in Property
    /\ store = EmptyStore
    /\ rc = "ok"

MayStore == ~store.aborted /\ store.count < MaxVid

\* tm_topicmap_add_property_to_topic
PutProperty(t, val) ==
    /\ MayStore
    /\ \E order \in PutOrders(store, prop, t, val) :
         store' = Put(store, prop, t, val, order)
    /\ rc' = IF PutContradicts(store, prop, t, val)
             THEN "contradicting" ELSE "ok"
    /\ UNCHANGED prop

Normalize ==
    /\ ~store.aborted
    /\ store' = NormalizeStore(prop, store)
    /\ rc' = "ok"
    /\ UNCHANGED prop

Replace(stays, disap) ==
    /\ MayStore
    /\ stays # disap
    /\ \E order \in ReplaceOrders(store, prop, stays, disap) :
         store' = ReplaceTopic(store, prop, stays, disap, order)
    /\ rc' = IF ReplaceContradicts(store, prop, stays, disap)
             THEN "contradicting" ELSE "ok"
    /\ UNCHANGED prop

\* The value under v contains a disappearing topic, so it becomes val.
Rewrite(v, val) ==
    /\ MayStore
    /\ prop.topical
    /\ store.value[v] # NoValue
    /\ store.value[v] # val
    /\ store' = ReplaceValue(store, prop, v, val)
    /\ rc' = "ok"
    /\ UNCHANGED prop

Next ==
    \/ \E t \in Topic, val \in Value : PutProperty(t, val)
    \/ Normalize
    \/ \E stays, disap \in Topic : Replace(stays, disap)
    \/ \E v \in Vid, val \in Value : Rewrite(v, val)

Spec == Init /\ [][Next]_vars

-----------------------------------------------------------------------------

\* Every variable has its type; a property never changes its kind.
TypeOK ==
    /\ prop \in Property
    /\ store \in StoreType(Value)
    /\ rc \in {"ok", "contradicting"}

\* The table and the arrays of propertystore.c are inverse to each other: a
\* topic is in exactly the array its table entry names, and there once.
TableMatchesArrays == Matching(store)

\* A value lives exactly as long as some topic has it: whatever order topics
\* are taken from it, moved and given back in, remove deletes it with the
\* last one and vput leaves none behind without a topic.
NoOrphanValue == NoOrphans(store)

\* "whole store relies on set-disjointness" (textsetstore.c:518): the sets
\* stored for a combining property have no locator in common, after any
\* history of puts and merges.  For other properties no value is stored twice.
ValuesDisjoint == Distinct(store, prop)

\* A store that says it is normalized has one topic per value, which is what
\* lookup_topic takes for granted ("assert(array[1] == 1)").
NormalizedIsUnique == Unique(store, prop)

\* None of the asserts on the way of these calls can fail: no topic inserted
\* twice, none removed that is not there, no array missing, no locator given
\* to two sets.
NoAssertFails == ~store.aborted

-----------------------------------------------------------------------------

\* What a topic shows for the property, through the vid.
ValueOf ==
    [t \in Topic |-> IF store.vid[t] = 0 THEN NoValue
                     ELSE store.value[store.vid[t]]]

\* The two stores, with their vids, arrays and counters, implement a map from
\* topics to values.
Map == INSTANCE PropertyMap WITH val <- ValueOf

ImplementsMap == Map!MapSpec

=============================================================================
