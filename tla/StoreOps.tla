------------------------------ MODULE StoreOps ------------------------------
(***************************************************************************)
(* The property store and the value store of one property, as operators    *)
(* on a record, together with the functions of src/src/topicmap.c that     *)
(* drive the pair.                                                         *)
(*                                                                         *)
(* A property store (src/stores/memstore/propertystore.c) maps a value     *)
(* identifier (vid) to the array of the topics that have that value, and a *)
(* topic to its vid.  The value store of the property maps the vid to the  *)
(* value; it numbers its values with a counter and never reuses a number.  *)
(*                                                                         *)
(* store.topics[v]   the topic array of v (<<>>: the entry is NULL)        *)
(* store.vid[t]      the table entry of t (0: none)                        *)
(* store.value[v]    the value stored under v (NoValue: none)              *)
(* store.count       the last vid handed out by the value store            *)
(* store.normalized  the flag is_normalized                                *)
(* store.aborted     an assert of the code has failed (the library is      *)
(*                   built without NDEBUG, src/Makefile.in:24)             *)
(*                                                                         *)
(* A property p is a record: p.sidp (subject identity discriminating       *)
(* property), p.combines (equality code NOT_DISJOINT and a combination     *)
(* code are given; the values are then sets), p.topical (the value type    *)
(* knows VALUE_INCLUDES_TOPIC: the values contain topics).                 *)
(***************************************************************************)
EXTENDS Integers, Sequences, FiniteSets, SequencesExt

CONSTANTS Topic,    \* the topics, numbers handed out by the meta store
          MaxVid,   \* bound: the largest vid a value store may hand out
          NoValue   \* no value is stored

ASSUME StoreAssumption == MaxVid \in Nat /\ IsFiniteSet(Topic)

Vid == 1..MaxVid

PropertyType == [sidp : BOOLEAN, combines : BOOLEAN, topical : BOOLEAN]

StoreType(Values) ==
    [topics : [Vid -> Seq(Topic)], vid : [Topic -> 0..MaxVid],
     value : [Vid -> {NoValue} \cup Values], count : 0..MaxVid,
     normalized : BOOLEAN, aborted : BOOLEAN]

EmptyStore ==
    [topics |-> [v \in Vid |-> <<>>], vid |-> [t \in Topic |-> 0],
     value |-> [v \in Vid |-> NoValue], count |-> 0,
     normalized |-> TRUE, aborted |-> FALSE]

Abort(s) == [s EXCEPT !.aborted = TRUE]

-----------------------------------------------------------------------------
(* src/stores/memstore/propertystore.c *)

\* A slip of InsertTopic: the flag stays as it was.
InsertTopicKeepingFlag(s, t, v) ==
    IF s.vid[t] # 0 THEN Abort(s)
    ELSE [s EXCEPT !.topics[v] = Append(@, t), !.vid[t] = v]

InsertTopic(s, t, v) ==
    IF s.vid[t] # 0 THEN Abort(s)
    ELSE [s EXCEPT !.topics[v] = Append(@, t), !.vid[t] = v,
                   !.normalized = FALSE]

\* The array without the element at position k, the rest shifted left.
Without(seq, k) ==
    [i \in 1..(Len(seq) - 1) |-> IF i < k THEN seq[i] ELSE seq[i + 1]]

Position(seq, t) == CHOOSE k \in DOMAIN seq : seq[k] = t

\* A slip of DropLast: the value is forgotten in the value store.
DropLastOnly(s, t) ==
    [s EXCEPT !.topics[s.vid[t]] = <<>>, !.vid[t] = 0]

\* Another: the value is emptied, and stays.
DropLastEmptied(s, t) ==
    [s EXCEPT !.topics[s.vid[t]] = <<>>, !.value[s.vid[t]] = {},
              !.vid[t] = 0]

\* With the last topic of a value goes the value itself.
DropLast(s, t) ==
    [s EXCEPT !.topics[s.vid[t]] = <<>>, !.value[s.vid[t]] = NoValue,
              !.vid[t] = 0]

\* A slip of DropOne: the table entry stays.
DropFromArrayOnly(s, t) ==
    [s EXCEPT !.topics[s.vid[t]] = Without(@, Position(@, t))]

DropOne(s, t) ==
    [s EXCEPT !.topics[s.vid[t]] = Without(@, Position(@, t)), !.vid[t] = 0]

RemoveTopic(s, t) ==
    IF s.vid[t] = 0 \/ s.topics[s.vid[t]] = <<>> THEN Abort(s)
    ELSE IF Len(s.topics[s.vid[t]]) = 1 THEN DropLast(s, t)
    ELSE IF t \notin ToSet(s.topics[s.vid[t]]) THEN Abort(s)
    ELSE DropOne(s, t)

IsNormalized(p, s) == ~p.sidp \/ s.normalized

\* Every array is cut down to its first topic, the one that stays; the others
\* leave the table.  The arrays that were cut are the merge lists.
MergeArrays(s) == {v \in Vid : Len(s.topics[v]) > 1}

\* A slip of NormalizeStore: the flag is not set.
NormalizeArraysOnly(p, s) ==
    IF IsNormalized(p, s) THEN s
    ELSE [s EXCEPT
            !.topics = [v \in Vid |-> IF v \in MergeArrays(s)
                                      THEN <<s.topics[v][1]>> ELSE s.topics[v]],
            !.vid = [t \in Topic |->
                        IF \E v \in MergeArrays(s) :
                               \E k \in 2..Len(s.topics[v]) : s.topics[v][k] = t
                        THEN 0 ELSE s.vid[t]]]

NormalizeStore(p, s) ==
    IF IsNormalized(p, s) THEN s
    ELSE [s EXCEPT
            !.topics = [v \in Vid |-> IF v \in MergeArrays(s)
                                      THEN <<s.topics[v][1]>> ELSE s.topics[v]],
            !.vid = [t \in Topic |->
                        IF \E v \in MergeArrays(s) :
                               \E k \in 2..Len(s.topics[v]) : s.topics[v][k] = t
                        THEN 0 ELSE s.vid[t]],
            !.normalized = TRUE]

-----------------------------------------------------------------------------
(* _pstore_vput: storing a value under a vid. *)

Meets(p, a, b) == IF p.combines THEN a \cap b # {} ELSE a = b

\* A slip of Hits: the scan stops at the first value found.
FirstHit(s, p, val) ==
    {v \in Vid : /\ s.value[v] # NoValue /\ Meets(p, s.value[v], val)
                 /\ \A w \in 1..(v - 1) : s.value[w] # NoValue
                                             => ~Meets(p, s.value[w], val)}

\* What the scan with the property's equality code finds (or, without such a
\* code, the lookup of the value).
Hits(s, p, val) ==
    {v \in Vid : s.value[v] # NoValue /\ Meets(p, s.value[v], val)}

Collected(s, p, val) == UNION {ToSet(s.topics[v]) : v \in Hits(s, p, val)}

\* The order in which collected topics are stored again follows the order of
\* the elements inside a value, which is not modelled: any order.
Orders(S) ==
    {q \in [1..Cardinality(S) -> S] : ToSet(q) = S /\ IsInjective(q)}

Combined(s, p, val) == val \cup UNION {s.value[v] : v \in Hits(s, p, val)}

IsStored(s, p, val) ==
    \E v \in Vid : Hits(s, p, val) = {v} /\ s.value[v] = val

\* A slip of VPutVid: the last vid handed out, where one was found.
LastVid(s, p, val) == IF IsStored(s, p, val) THEN s.count ELSE s.count + 1

VPutVid(s, p, val) ==
    IF IsStored(s, p, val)
    THEN CHOOSE v \in Vid : Hits(s, p, val) = {v} /\ s.value[v] = val
    ELSE s.count + 1

\* The assert of lookup_topics on the array of a hit, and the one of the value
\* store, which creates a set only when it holds none of its elements.
VPutAsserts(s, p, val) ==
    /\ \A v \in Hits(s, p, val) : s.topics[v] # <<>>
    /\ p.combines =>
         \A v \in Vid \ Hits(s, p, val) :
             s.value[v] # NoValue => s.value[v] \cap Combined(s, p, val) = {}

CreateValue(s, p, val, order) ==
    LET hits == Hits(s, p, val)
        new  == s.count + 1
    IN [topics     |-> [v \in Vid |-> IF v = new THEN order
                                      ELSE IF v \in hits THEN <<>>
                                      ELSE s.topics[v]],
        vid        |-> [t \in Topic |-> IF t \in ToSet(order) THEN new
                                        ELSE s.vid[t]],
        value      |-> [v \in Vid |->
                           IF v = new
                           THEN IF p.combines THEN Combined(s, p, val) ELSE val
                           ELSE IF v \in hits THEN NoValue ELSE s.value[v]],
        count      |-> new,
        normalized |-> s.normalized /\ order = <<>>,
        aborted    |-> s.aborted \/ ~VPutAsserts(s, p, val)]

VPut(s, p, val, order) ==
    IF IsStored(s, p, val) THEN s ELSE CreateValue(s, p, val, order)

-----------------------------------------------------------------------------
(* _pstore_put: giving a topic a value. *)

\* A slip of Wanted: the value a topic has is replaced.
WantedAlone(s, t, val) == val

\* The value to be stored for t: the new one, combined with the one it has.
Wanted(s, t, val) == IF s.vid[t] = 0 THEN val ELSE s.value[s.vid[t]] \cup val

HasValue(s, t, val) == s.vid[t] # 0 /\ s.value[s.vid[t]] = val

PutContradicts(s, p, t, val) ==
    s.vid[t] # 0 /\ s.value[s.vid[t]] # val /\ ~p.combines

\* A slip of Cleared: the topic keeps its old value meanwhile.
NotCleared(s, t) == s

\* The store without t's value, in which the value is then looked for.
Cleared(s, t) == IF s.vid[t] = 0 THEN s ELSE RemoveTopic(s, t)

StoreFor(s, p, t, val, order) ==
    InsertTopic(VPut(s, p, val, order), t, VPutVid(s, p, val))

Put(s, p, t, val, order) ==
    IF HasValue(s, t, val) \/ PutContradicts(s, p, t, val) THEN s
    ELSE StoreFor(Cleared(s, t), p, t, Wanted(s, t, val), order)

PutOrders(s, p, t, val) ==
    IF p.combines /\ ~HasValue(s, t, val)
    THEN Orders(Collected(Cleared(s, t), p, Wanted(s, t, val)))
    ELSE {<<>>}

-----------------------------------------------------------------------------
(* _pstore_replace_topics: one disappearing topic of a merge set. *)

BothValued(s, stays, disap) ==
    s.vid[disap] # 0 /\ s.vid[stays] # 0 /\ s.vid[stays] # s.vid[disap]

ReplaceContradicts(s, p, stays, disap) ==
    BothValued(s, stays, disap) /\ ~p.combines /\ ~p.topical

BothRemoved(s, stays, disap) == RemoveTopic(RemoveTopic(s, stays), disap)

\* A slip of JoinedValue: what the disappearing topic has is lost.
StaysValue(s, stays, disap) == s.value[s.vid[stays]]

JoinedValue(s, stays, disap) ==
    s.value[s.vid[stays]] \cup s.value[s.vid[disap]]

\* A slip of ReplaceTopic: a topic without a value does not take over one.
ReplaceWithoutMove(s, p, stays, disap, order) ==
    IF s.vid[disap] = 0 \/ ReplaceContradicts(s, p, stays, disap) THEN s
    ELSE IF BothValued(s, stays, disap) /\ p.combines
         THEN StoreFor(BothRemoved(s, stays, disap), p, stays,
                       JoinedValue(s, stays, disap), order)
    ELSE RemoveTopic(s, disap)

ReplaceTopic(s, p, stays, disap, order) ==
    IF s.vid[disap] = 0 \/ ReplaceContradicts(s, p, stays, disap) THEN s
    ELSE IF s.vid[stays] = 0
         THEN RemoveTopic(InsertTopic(s, stays, s.vid[disap]), disap)
    ELSE IF BothValued(s, stays, disap) /\ p.combines
         THEN StoreFor(BothRemoved(s, stays, disap), p, stays,
                       JoinedValue(s, stays, disap), order)
    ELSE RemoveTopic(s, disap)

ReplaceOrders(s, p, stays, disap) ==
    IF BothValued(s, stays, disap) /\ p.combines
    THEN Orders(Collected(BothRemoved(s, stays, disap), p,
                          JoinedValue(s, stays, disap)))
    ELSE {<<>>}

-----------------------------------------------------------------------------
(* _pstore_replace_topics_in_values: one vid whose value has become val. *)

\* A slip of MoveTopics: the old value stays in the value store.
MoveTopicsOnly(s, from, to) ==
    IF s.topics[from] = <<>> THEN Abort(s)
    ELSE [s EXCEPT
            !.topics = [v \in Vid |->
                           IF v = to THEN s.topics[to] \o Reverse(s.topics[from])
                           ELSE IF v = from THEN <<>> ELSE s.topics[v]],
            !.vid = [t \in Topic |-> IF s.vid[t] = from THEN to ELSE s.vid[t]],
            !.normalized = FALSE]

MoveTopics(s, from, to) ==
    IF s.topics[from] = <<>> THEN Abort(s)
    ELSE [s EXCEPT
            !.topics = [v \in Vid |->
                           IF v = to THEN s.topics[to] \o Reverse(s.topics[from])
                           ELSE IF v = from THEN <<>> ELSE s.topics[v]],
            !.vid = [t \in Topic |-> IF s.vid[t] = from THEN to ELSE s.vid[t]],
            !.value[from] = NoValue,
            !.normalized = FALSE]

ReplaceValue(s, p, v, val) ==
    MoveTopics(VPut(s, p, val, <<>>), v, VPutVid(s, p, val))

-----------------------------------------------------------------------------
(* What the two stores must keep true of each other. *)

\* The table and the arrays are inverse to each other: a topic is in exactly
\* the array its entry names, and there once.
Matching(s) ==
    /\ \A v \in Vid : IsInjective(s.topics[v])
    /\ \A t \in Topic, v \in Vid : s.vid[t] = v <=> t \in ToSet(s.topics[v])

\* A value lives exactly as long as some topic has it.
NoOrphans(s) == \A v \in Vid : s.value[v] # NoValue <=> s.topics[v] # <<>>

\* No two vids for one value; for a combining property no two for values that
\* have an element in common.
Distinct(s, p) ==
    \A v, w \in Vid :
        v # w /\ s.value[v] # NoValue /\ s.value[w] # NoValue
            => /\ s.value[v] # s.value[w]
               /\ p.combines => s.value[v] \cap s.value[w] = {}

\* A normalized store has one topic per value.
Unique(s, p) ==
    p.sidp /\ s.normalized => \A v \in Vid : Len(s.topics[v]) <= 1

=============================================================================
