----------------------------- MODULE MCTopicMap -----------------------------
(***************************************************************************)
(* TopicMap for TLC.  MCTopicMapIdentity.cfg: two combining properties.    *)
(* MCTopicMapAssertions.cfg: RM-Core and one combining property.           *)
(* MCTopicMapContradiction.cfg: a property that cannot combine.            *)
(***************************************************************************)
EXTENDS TopicMap

CONSTANT Locator

\* SAM::SourceLocators, SAM::SubjectIndicators; SAM::SubjectAddress;
\* RM-Core::a-sidp, RM-Core::t-sidp.
MCKinds ==
    [SourceLocators |-> [sidp |-> TRUE, combines |-> TRUE, topical |-> FALSE],
     SubjectIndicators |-> [sidp |-> TRUE, combines |-> TRUE, topical |-> FALSE],
     SubjectAddress |-> [sidp |-> TRUE, combines |-> FALSE, topical |-> FALSE]]
      @@ ("a-sidp" :> [sidp |-> TRUE, combines |-> FALSE, topical |-> TRUE])
      @@ ("t-sidp" :> [sidp |-> TRUE, combines |-> FALSE, topical |-> TRUE])

MCKind == [p \in ToSet(PropOrder) |-> MCKinds[p]]

IdentityProps == <<"SourceLocators", "SubjectIndicators">>
AssertionProps == <<"a-sidp", "t-sidp", "SourceLocators">>
ContradictionProps == <<"SourceLocators", "SubjectAddress">>

One(p) == {<< <<p, {l}>> >> : l \in Locator}
Two(p, q) == {<< <<p, {l}>>, <<q, {k}>> >> : l, k \in Locator}

IdentitySubjects ==
    One("SourceLocators") \cup Two("SourceLocators", "SubjectIndicators")

MCSymmetry == Permutations(Locator)

AssertionSubjects == {<<>>} \cup One("SourceLocators")

ContradictionSubjects == Two("SourceLocators", "SubjectAddress")

\* Topics 2 and 3 may come to share a locator: two assertions about topic 1
\* that become the same, one with another type, and one whose roles become one.
MCForms ==
    {[type |-> 1, members |-> (1 :> 3 @@ 2 :> 3)],
     [type |-> 1, members |-> (1 :> 2 @@ 2 :> 3)],
     [type |-> 2, members |-> (1 :> 3 @@ 2 :> 3)],
     [type |-> 1, members |-> (2 :> 1 @@ 3 :> 1)]}

=============================================================================
