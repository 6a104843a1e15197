---------------------------- MODULE MCValueStores ----------------------------
(***************************************************************************)
(* Small stores of every kind: two or three values of which some overlap,  *)
(* written in different orders, and a scan of every operation.             *)
(***************************************************************************)
EXTENDS ValueStores

A == 65
b == 98

MCTexts == {<<A>>, <<b, A + 32>>, <<-61>>, <<>>}

Assertion(type, members) ==
    FoldLeft(AddMember, SetType(NewASidp, type), members)

Topics(list) == FoldLeft(AddToSet, NewTopicSet, list)

Pair(role, player) == [role |-> role, player |-> player]

MCAssertions ==
    {Assertion(3, <<Pair(1, 4), Pair(2, 5)>>),
     Assertion(3, <<Pair(2, 5), Pair(1, 4)>>),
     Assertion(3, <<Pair(2, 4), Pair(1, 3), Pair(5, 4)>>)}

MCInputs ==
    [Text     |-> MCTexts,
     Integer  |-> {-1, 1, 2},
     TopicSet |-> {Topics(<<1, 2>>), Topics(<<2, 1, 2>>), Topics(<<2, 3>>),
                   Topics(<<1>>)},
     TextSet  |-> {<<<<A>>>>, <<<<A>>, <<b, A>>>>, <<<<b, A>>, <<A>>>>, <<<<b>>>>,
                   <<<<b>>, <<A>>>>},
     ASidp     |-> MCAssertions,
     SlowASidp |-> MCAssertions]

MCAssertionScans ==
    {<<"ASIDP_HAS_TYPE", 3>>, <<"ASIDP_HAS_TYPE", 4>>,
     <<"ASIDP_HAS_PLAYER_PAIR", Pair(2, 5)>>,
     <<"ASIDP_VALUE_INCLUDES_TOPICS", 4>>, <<"ASIDP_VALUE_INCLUDES_TOPICS", 9>>}

MCScans ==
    [Text     |-> {"Text_LIKE"} \X {<<A>>, <<b, A>>, <<>>},
     Integer  |-> {},
     TopicSet |-> {"TOPICSET_VALUE_INCLUDES_TOPICS"} \X {1, 3},
     TextSet  |-> {<<"TextSet_NOT_DISJOINT", <<<<A>>, <<b>>, <<b, A>>>>>>,
                   <<"TextSet_INCLUDES", <<b, A>>>>, <<"TextSet_LIKE", <<b>>>>},
     ASidp     |-> MCAssertionScans,
     SlowASidp |-> MCAssertionScans]

MCMergeLists == {<<3, 1>>, <<2, 5>>, <<1, 4, 3>>}

=============================================================================
