----------------------------- MODULE ValueTypes -----------------------------
(***************************************************************************)
(* The value types whose values are put together: ASIDP (src/src/asidp.c), *)
(* TopicSet (vt_topicset.c) and TextSet (textset.c), as the operations the *)
(* function table of a type offers.                                        *)
(*                                                                         *)
(* An a-sidp is [type, members], its members a list of [role, player] that *)
(* is kept in ascending order of the roles.                                *)
(***************************************************************************)
EXTENDS Containers

Topic == Nat \ {0}
Char == -128..127
Membership == [role : Topic, player : Topic]
ASidpType == [type : Topic, members : Seq(Membership)]

-----------------------------------------------------------------------------
(* ASIDP *)

NewASidp == [type |-> 0, members |-> <<>>]

SetType(v, t) == [v EXCEPT !.type = t]

\* The loop stops at the first greater role.
InsertMember(members, m) ==
    InsertAt(members,
             1 + Cardinality({i \in DOMAIN members :
                    \A j \in 1..i : members[j].role <= m.role}),
             m)

AddMember(v, m) == [v EXCEPT !.members = InsertMember(@, m)]

Stay(mergeSet, t) == IF t \in ToSet(Tail(mergeSet)) THEN Head(mergeSet) ELSE t

ReplacedMember(m, mergeSet) ==
    [role |-> Stay(mergeSet, m.role), player |-> Stay(mergeSet, m.player)]

Sorted(members) == FoldLeft(InsertMember, <<>>, members)

\* replaceTopics: the first topic of the merge set takes the place of the
\* others, and the members are sorted again.
ReplaceInASidp(v, mergeSet) ==
    [type    |-> Stay(mergeSet, v.type),
     members |-> Sorted([i \in DOMAIN v.members |->
                            ReplacedMember(v.members[i], mergeSet)])]

-----------------------------------------------------------------------------
(* TopicSet *)

NewTopicSet == <<>>

AddToSet(set, t) == SetAdd(set, t)

TopicSetEqual(set, other) == SetEqual(set, other)

\* A slip of ReplaceAsserts: asserted before it is known that a topic goes.
ReplaceAssertsAlways(set, mergeSet) == ~SetContains(set, Head(mergeSet))

\* The assert of replaceTopics: the topic that stays is not in the set yet.
\* It fails as well when two topics of the set disappear in favour of it.
ReplaceAsserts(set, mergeSet) ==
    Cardinality(ToSet(set) \cap ToSet(mergeSet)) <= 1
        \/ ToSet(set) \cap ToSet(Tail(mergeSet)) = {}

ReplaceInSet(set, mergeSet) ==
    LET gone == {i \in 2..Len(mergeSet) : SetContains(set, mergeSet[i])}
    IN  IF gone = {} THEN set
        ELSE SetAdd(SetRemove(set, mergeSet[Min(gone)]), mergeSet[1])

-----------------------------------------------------------------------------
(* TextSet: a list of texts. *)

TextSetEqual(lhs, rhs) ==
    /\ \A i \in DOMAIN lhs : Contains(rhs, lhs[i])
    /\ \A i \in DOMAIN rhs : Contains(lhs, rhs[i])

\* What is in both sets is taken once.
TextSetUnion(set, other) ==
    FoldLeft(LAMBDA res, text : IF Contains(res, text) THEN res
                                ELSE ListPush(res, text),
             ListCopy(set), other)

=============================================================================
