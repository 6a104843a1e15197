-------------------------- MODULE MCPropertyStore --------------------------
(***************************************************************************)
(* PropertyStore for TLC: three topics, three locators, and the four kinds *)
(* of property the SAM and RM-Core models define.                          *)
(***************************************************************************)
EXTENDS PropertyStore

CONSTANT Locator  \* the elements of values

MCValue == SUBSET Locator \ {{}}

\* SourceLocators, SubjectAddress, SubjectData, a-sidp and SetMembers.
MCProperty ==
    {[sidp |-> TRUE,  combines |-> TRUE,  topical |-> FALSE],
     [sidp |-> TRUE,  combines |-> FALSE, topical |-> FALSE],
     [sidp |-> FALSE, combines |-> FALSE, topical |-> FALSE],
     [sidp |-> TRUE,  combines |-> FALSE, topical |-> TRUE]}

=============================================================================
