---------------------------- MODULE MergeListRun ----------------------------
(***************************************************************************)
(* One round of normalization: store after store hands its topic arrays to *)
(* tm_topicmap_add_mergelist.  The arrays of one store have no topic in    *)
(* common, since a topic has one value in it; arrays of different stores   *)
(* may overlap in any way, and the lists are what becomes of them.         *)
(***************************************************************************)
EXTENDS MergeLists

CONSTANTS Topic,     \* the topics
          Arrays,    \* the topic arrays considered, each of two or more topics
          MaxStores  \* bound: how many property stores there are

ASSUME ArraysAssumption ==
    \A a \in Arrays : a \in Seq(Topic) /\ IsInjective(a) /\ Len(a) > 1

ASSUME StoresAssumption == MaxStores \in Nat \ {0}

VARIABLES lists,   \* topicmap->merge_lists
          freed,   \* the loop has read a list node after deleting it
          unused,  \* the topics the current store has not yet handed over
          store,   \* the number of the current store
          given,   \* history: the arrays handed over so far, as sets
          bridged  \* history: some array has met two lists at once

vars == <<lists, freed, unused, store, given, bridged>>

Init ==
    /\ lists = <<>>
    /\ freed = FALSE
    /\ unused = Topic
    /\ store = 1
    /\ given = {}
    /\ bridged = FALSE

Met(array) == {i \in DOMAIN lists : ToSet(lists[i]) \cap ToSet(array) # {}}

HandOver(array) ==
    /\ ~freed
    /\ ToSet(array) \subseteq unused
    /\ lists' = AddMergeList(lists, array).lists
    /\ freed' = AddMergeList(lists, array).freed
    /\ unused' = unused \ ToSet(array)
    /\ given' = given \cup {ToSet(array)}
    /\ bridged' = (bridged \/ Cardinality(Met(array)) > 1)
    /\ UNCHANGED store

NextStore ==
    /\ ~freed
    /\ store < MaxStores
    /\ store' = store + 1
    /\ unused' = Topic
    /\ UNCHANGED <<lists, freed, given, bridged>>

Next == NextStore \/ \E array \in Arrays : HandOver(array)

Spec == Init /\ [][Next]_vars

-----------------------------------------------------------------------------

\* Every variable has its type.
TypeOK ==
    /\ lists \in Seq(Seq(Topic))
    /\ freed \in BOOLEAN
    /\ unused \subseteq Topic
    /\ store \in 1..MaxStores
    /\ given \subseteq SUBSET Topic
    /\ bridged \in BOOLEAN

\* What the lists should be: the classes of the finest partition that leaves
\* no array handed over in two pieces.
Closed(S) == \A a \in given : a \cap S = {} \/ a \subseteq S

Classes ==
    {S \in SUBSET UNION given :
        /\ S # {} /\ Closed(S)
        /\ \A T \in (SUBSET S) \ {{}, S} : ~Closed(T)}

\* As long as no array has met two lists at once, the lists are exactly the
\* sets of topics to be made one, whatever the stores hand over and in which
\* order, and a list that is met and moved to the front loses nobody.
ListsAreClasses ==
    ~freed /\ ~bridged =>
        {ToSet(lists[i]) : i \in DOMAIN lists} = Classes

\* "now we have a bunch of disjoint merge sets that need to be processed"
\* (topicmap.c:467): every topic handed over is in one of them.
NothingLost == ~freed => UNION given = UNION {ToSet(lists[i]) : i \in DOMAIN lists}

\* No topic is in two lists or twice in one: it would be disposed of twice,
\* which _dispose_topic asserts never to happen.
NoTopicTwice ==
    ~freed =>
        /\ \A i \in DOMAIN lists : IsInjective(lists[i])
        /\ \A i, j \in DOMAIN lists :
             i # j => ToSet(lists[i]) \cap ToSet(lists[j]) = {}

\* Taking a list out because its "contents is now in 'set'"
\* (topicmap.c:2455) leaves the other lists usable.
NoFreedListRead == ~freed

=============================================================================
