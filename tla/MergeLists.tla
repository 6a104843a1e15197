----------------------------- MODULE MergeLists -----------------------------
(***************************************************************************)
(* The merge lists of a topic map: tm_topicmap_add_mergelist               *)
(* (src/src/topicmap.c), called by the normalization of the property       *)
(* stores.  A merge list is a topic set kept as an array; its first topic  *)
(* is the one that stays when the others are merged into it.               *)
(***************************************************************************)
EXTENDS Integers, Sequences, FiniteSets, SequencesExt

\* A slip of AddTopic: no look whether the topic is there.
AppendTopic(set, t) == Append(set, t)

\* tm_topicset_add
AddTopic(set, t) == IF t \in ToSet(set) THEN set ELSE Append(set, t)

\* A slip of Unite: the loop begins behind the topic that stays.
UniteTail(other, set, len) == FoldLeft(AddTopic, other, SubSeq(set, 2, len))

\* The loop that unites runs over the first len topics of set, len being the
\* length of the array the function was called with.
Unite(other, set, len) == FoldLeft(AddTopic, other, SubSeq(set, 1, len))

\* One round of the loop over the lists.  A list that meets the new set is
\* united with it and taken out.  Taking out the head of the list deletes the
\* head with all that follows it, so unless nothing followed, the loop goes on
\* in freed memory: the outcome is undefined, and freed says so.
Visit(acc, lists, i, len) ==
    IF acc.freed THEN acc
    ELSE IF ToSet(lists[i]) \cap ToSet(acc.set) = {}
    THEN [acc EXCEPT !.kept = Append(@, lists[i])]
    ELSE [acc EXCEPT !.set = Unite(lists[i], acc.set, len),
                     !.freed = (acc.kept = <<>> /\ i < Len(lists))]

\* The resulting lists, the new one in front.
AddMergeList(lists, array) ==
    LET acc == FoldLeftDomain(
                   LAMBDA a, i : Visit(a, lists, i, Len(array)),
                   [set |-> array, kept |-> <<>>, freed |-> FALSE], lists)
    IN [lists |-> <<acc.set>> \o acc.kept, freed |-> acc.freed]

=============================================================================
