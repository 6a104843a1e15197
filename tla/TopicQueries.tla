---------------------------- MODULE TopicQueries ----------------------------
(***************************************************************************)
(* The calls of src/src/topicmap.c that look something up in the map: the  *)
(* topic that has a value, the value that a topic has, and the topics for  *)
(* which a condition on a property holds, or two conditions.  They change  *)
(* nothing, so that they are operators; rc is what a call returns.  A      *)
(* failed assert is rc "aborted".                                          *)
(***************************************************************************)
EXTENDS ModelLoading

-----------------------------------------------------------------------------
(* src/stores/memstore/propertystore.c: the topics that have a value.  A list *)
(* of topics that is empty, and of more than one topic for an SIDP, fail an   *)
(* assert.                                                                    *)

LookupTopics(s, v) == ToSet(s.topics[v])

LookupTopic(s, v) ==
    IF s.normalized /\ Len(s.topics[v]) = 1
    THEN [rc |-> "ok", topic |-> s.topics[v][1]]
    ELSE [rc |-> "aborted", topic |-> 0]

-----------------------------------------------------------------------------
(* tm_topicmap_get_topic *)

NoTopic == [rc |-> "ok", topic |-> 0]

GetTopic(p, val) ==
    IF ~Known(p) THEN NoTopic
    ELSE LET hits == Hits(stores[p], Kind[p], val)
         IN IF ~Kind[p].sidp THEN [NoTopic EXCEPT !.rc = "SIDP expected"]
            ELSE IF ~stores[p].normalized
            THEN [NoTopic EXCEPT !.rc = "not normalized"]
            ELSE IF Cardinality(hits) > 1
            THEN [NoTopic EXCEPT !.rc = "ambiguous"]
            ELSE IF hits = {} THEN NoTopic
            ELSE LookupTopic(stores[p], CHOOSE v \in hits : TRUE)

\* Looking up some topics that must all be there, as TM_GET_TOPIC does.
Indicated(name) == GetTopic(Key(SAM, "SubjectIndicators"), {<<name>>})

AllIndicated(names) ==
    LET failed == {n \in names : Indicated(n).rc # "ok"}
    IN IF failed # {} THEN Indicated(CHOOSE n \in failed : TRUE).rc
       ELSE IF \E n \in names : Indicated(n).topic = 0 THEN "topic not found"
       ELSE "ok"

The(name) == Indicated(name).topic

-----------------------------------------------------------------------------
(* tm_topicmap_get_property: NoValue for a topic that has none.  The caller   *)
(* must not ask for topic 0 (an assert).                                      *)

GetProperty(t, p) ==
    LET s == stores[p] IN IF s.vid[t] = 0 THEN NoValue ELSE s.value[s.vid[t]]

-----------------------------------------------------------------------------
(* Topic scans: tm_topicmap_topic_scan_open and tm_topicmap_cetree_eval.  A  *)
(* condition is [tree |-> "simple", prop, op, arg], or two of them joined    *)
(* with "AND" or "OR".                                                       *)

Satisfies(op, val, arg) ==
    CASE op = "HAS_TYPE" -> val.type = arg
      [] op = "HAS_PLAYER_PAIR" ->
           arg[1] \in DOMAIN val.members /\ val.members[arg[1]] = arg[2]
      [] op = "LIKE" -> \E name \in val : arg \in ToSet(name)

SimpleTopics(c) ==
    LET s == stores[c.prop]
    IN UNION {LookupTopics(s, v) : v \in {w \in Vid :
                  s.value[w] # NoValue /\ Satisfies(c.op, s.value[w], c.arg)}}

\* A slip of Evaluated: what is on the right is not looked at.
EvaluatedLeft(c) ==
    IF c.tree = "simple" THEN SimpleTopics(c) ELSE SimpleTopics(c.left)

\* The trees that are built have one level; the topics come in any order.
Evaluated(c) ==
    CASE c.tree = "simple" -> SimpleTopics(c)
      [] c.tree = "AND" -> SimpleTopics(c.left) \cap SimpleTopics(c.right)
      [] c.tree = "OR"  -> SimpleTopics(c.left) \cup SimpleTopics(c.right)

\* A scan: open evaluates the tree and pushes every topic of the set on a list,
\* and fetch pops them until there is none, each topic once.
Scanned(c) == Evaluated(c)

Single(p, op, arg) == [tree |-> "simple", prop |-> p, op |-> op, arg |-> arg]

Both(left, right) == [tree |-> "AND", left |-> left, right |-> right]

-----------------------------------------------------------------------------
(* tm_topicmap_dump: all topics with their values, and its two asserts.      *)

KnownProps == {p \in Prop : Known(p)}

Dumped == [t \in Created |-> {p \in KnownProps : GetProperty(t, p) # NoValue}]

DumpAsserts == \A t \in Created : Dumped[t] = {} <=> t \in disposed

=============================================================================
