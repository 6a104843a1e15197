------------------------------ MODULE XtmParse ------------------------------
(***************************************************************************)
(* Reading an XTM document: expat calls Omnivore, which calls xtm_simple.  *)
(* The document is any sequence of start tags, characters and end tags     *)
(* that expat accepts as well-formed; it is not checked against a DTD.     *)
(* The module says what the document describes, from its elements alone,   *)
(* and compares that with what the topic map is given.                     *)
(***************************************************************************)
EXTENDS XtmSimple

CONSTANTS MaxElements,     \* bound: elements of a document
          MaxAssociation   \* bound: elements of one that begins with associations

VARIABLES open,       \* the open elements of the document
          elements,   \* the number of elements so far
          ids,        \* the ids that elements have so far
          item,       \* history: the element an assertion is being made of
          written,    \* history: the elements inside the item
          chars,      \* history: where characters have come from, around text
          given,      \* history: the assertions made since the item began
          aliased,    \* history: one URI has been used for two kinds of topic
          uris        \* history: the URIs of the elements, and their number

documentVars == <<open, elements, ids>>
history == <<item, written, chars, given, aliased, uris>>
vars == <<omnivore, xtm, documentVars, history>>

NoItem == [num |-> 0, name |-> "", uri |-> EmptyUri, topic |-> None]

Init ==
    /\ InitOmnivore /\ InitXtm
    /\ open = <<>> /\ elements = 0 /\ ids = {}
    /\ item = NoItem /\ written = {} /\ chars = {} /\ given = {}
    /\ aliased = FALSE
    /\ uris = [set |-> {}, number |-> 0]

\* After an error every callback returns at once, and Omnivore_parse with 0.
Ready == status = "ok"

-----------------------------------------------------------------------------
(* The history of the document. *)

RefNames == References \cup {"resourceRef"}

Innermost == open[Len(open)]
InIgnored == open # <<>> /\ Innermost.ignored

\* An element when it is opened; text tells if it has text or, in an ignored
\* subtree, if the element around that subtree has.
Opened(tag) ==
    LET ignored == InIgnored \/ tag.name \in xtm_simple.ignore_elements
    IN [num |-> elements + 1, ignored |-> ignored,
        text |-> IF ignored THEN open # <<>> /\ Innermost.text
                 ELSE tag.name \in xtm_simple.text_elements]

ItemIsOpen == \E i \in DOMAIN open : open[i].num = item.num

IsItem(e) ==
    e.path \in {AssociationPath} \cup {TopicPath \o <<n>> : n \in DOMAIN TypeOf}

\* The topic of the topic element that is open, if any.
OpenTopic ==
    IF Len(stack) >= 2 /\ stack[2].name = "topic" THEN Locator(stack[2].uri)
    ELSE None

Note(e) ==
    IF IsItem(e)
    THEN /\ item' = [num |-> e.num, name |-> e.name, uri |-> e.uri,
                     topic |-> OpenTopic]
         /\ written' = {} /\ given' = {}
    ELSE IF ItemIsOpen
    THEN /\ written' = written \cup
                {[num |-> e.num, parent |-> Innermost.num, name |-> e.name,
                  uri |-> e.uri, ref |-> e.ref]}
         /\ given' = given \cup sent'
         /\ UNCHANGED item
    ELSE item' = NoItem /\ written' = {} /\ given' = {}

\* A reference finds in a table the topic of another kind of reference.
Aliases(e) ==
    /\ e.name \in References /\ e.ref \in Uri
    /\ \/ /\ e.path = AssociationPath \o <<"instanceOf", e.name>>
          /\ atTable[e.ref] \notin {None, Referred(e)}
       \/ /\ e.path = MemberPath \o <<"roleSpec", e.name>>
          /\ roleTable[e.ref] \notin {None, Referred(e)}

-----------------------------------------------------------------------------

\* Which elements are in which, by the XTM 1.0 DTD, and two that should not be
\* there: one that xtm_simple does not support and an ignored one in a name.
Content ==
    LET Refs == References
    IN [topicMap |-> {"topic", "association", "mergeMap"},
        topic |-> {"subjectIdentity", "instanceOf", "baseName", "occurrence",
                   "property"},
        subjectIdentity |-> RefNames, instanceOf |-> Refs, roleSpec |-> Refs,
        baseName |-> {"variant", "baseNameString"},
        occurrence |-> {"instanceOf", "resourceRef", "resourceData"},
        association |-> {"instanceOf", "member"},
        member |-> {"roleSpec"} \cup RefNames,
        baseNameString |-> {"variant"}]

ASSUME ContentAssumption ==
    {"topicMap", "topic"} \cup UNION {Content[name] : name \in DOMAIN Content}
        \subseteq Name

Contents ==
    IF stack = <<>> THEN {"topicMap"}
    ELSE IF InIgnored \/ Parent.name \notin DOMAIN Content THEN {"topic"}
    ELSE Content[Parent.name]

\* Ids occur once, only references have an href.
Tags ==
    {[name |-> name, id |-> id, ref |-> EmptyUri] :
         name \in Contents, id \in (Id \ ids) \cup {NoId}}
    \cup {[name |-> name, id |-> NoId, ref |-> ref] :
         name \in Contents \cap RefNames, ref \in Uri}

\* The bounds: all kinds of elements at first, then only the members of an
\* association that already has its type, by a topicRef.
WithinBounds(tag) ==
    \/ elements < MaxElements
    \/ /\ elements < MaxAssociation
       /\ item.name = "association" /\ item.num = 2 /\ asn.T # None
       /\ asn.T.prop = "SourceLocators"
       /\ ids = {} /\ ~aliased
       /\ tag.name \in {"member", "roleSpec", "topicRef", "resourceRef"}
       /\ tag.id = NoId
       /\ tag.name \in RefNames => tag.ref # EmptyUri

\* expat_start
StartTag(tag) ==
    /\ Ready
    /\ WithinBounds(tag)
    /\ open # <<>> \/ elements = 0
    /\ elements' = elements + 1
    /\ open' = Append(open, Opened(tag))
    /\ ids' = ids \cup ({tag.id} \ {NoId})
    /\ \/ /\ StartIgnored \/ StartIgnoring(xtm_simple, tag.name)
          /\ UNCHANGED <<xtm, history>>
       \/ LET e == NewElement(tag.name, tag.id, tag.ref, elements')
          IN /\ Push(xtm_simple, e)
             /\ xtm_start_element(e)
             /\ Note(e)
             /\ UNCHANGED chars
             /\ aliased' = (aliased \/ Aliases(e))
             /\ uris' = [set |-> uris.set \cup {e.uri}, number |-> uris.number + 1]

\* The element whose end is the end of what origin matters to.
Concerned(origin) == IF origin.ignored THEN origin.parent ELSE origin.num

\* expat_end
EndTag ==
    /\ Ready
    /\ open # <<>>
    /\ open' = SubSeq(open, 1, Len(open) - 1)
    /\ chars' = {origin \in chars : Concerned(origin) # Innermost.num}
    /\ \/ (EndIgnored \/ EndIgnoring) /\ UNCHANGED <<xtm, given>>
       \/ Pop /\ xtm_end_element(Parent) /\ given' = given \cup sent'
    /\ UNCHANGED <<elements, ids, item, written, aliased, uris>>

Origin ==
    [num |-> Innermost.num, ignored |-> Innermost.ignored,
     parent |-> IF Len(open) = 1 THEN 0 ELSE open[Len(open) - 1].num]

\* expat_char_data
Characters ==
    /\ Ready
    /\ open # <<>>
    /\ CharData(xtm_simple, Origin)
    /\ chars' = IF Innermost.text THEN chars \cup {Origin} ELSE chars
    /\ UNCHANGED <<xtm, documentVars, item, written, given, aliased, uris>>

Next ==
    \/ \E tag \in Tags : StartTag(tag)
    \/ EndTag
    \/ Characters

Spec == Init /\ [][Next]_vars

-----------------------------------------------------------------------------
(* What a document describes. *)

Inside(num, names) == {e \in written : e.parent = num /\ e.name \in names}

IsOne(S) == Cardinality(S) = 1
The(S) == CHOOSE e \in S : TRUE

HasOneRef(S) == IsOne(S) /\ IsOne(Inside(The(S).num, References))
RefOf(S) == Referred(The(Inside(The(S).num, References)))

Assertion(type, uri, members) ==
    [T |-> type, A |-> Locator(uri), N |-> Cardinality(members), members |-> members]

Binary(name, e, player, role, x) ==
    Assertion(TypeOf[name], e.uri,
              {[R |-> RoleOf[name], x |-> player], [R |-> Psi(role), x |-> x]})

Classes == Inside(item.num, {"instanceOf"})
Members == Inside(item.num, {"member"})
Specs(m) == Inside(m.num, {"roleSpec"})
Players(m) == Inside(m.num, RefNames)

\* The content that the XTM 1.0 DTD prescribes, as far as xtm_simple uses it.
ContentIsValid ==
    CASE item.name = "instanceOf" -> IsOne(Inside(item.num, References))
      [] item.name = "baseName" -> IsOne(Inside(item.num, {"baseNameString"}))
      [] item.name = "occurrence" ->
            /\ IsOne(Inside(item.num, {"resourceRef", "resourceData"}))
            /\ Classes = {} \/ HasOneRef(Classes)
      [] item.name = "association" ->
            /\ HasOneRef(Classes)
            /\ \A m \in Members : HasOneRef(Specs(m)) /\ Players(m) # {}

RoleMembers(role) == {m \in Members : RefOf(Specs(m)) = role}
PlayersOf(role) == UNION {Players(m) : m \in RoleMembers(role)}

\* The player of a role: the one there is, or the set of them.
PlayerOf(role) ==
    IF IsOne(PlayersOf(role)) THEN Referred(The(PlayersOf(role)))
    ELSE SetTopic({Referred(e) : e \in PlayersOf(role)})

OccurrenceResource ==
    LET e == The(Inside(item.num, {"resourceRef", "resourceData"}))
    IN IF e.name = "resourceRef" THEN Referred(e) ELSE Address(e.uri)

Described ==
    CASE item.name = "instanceOf" ->
            {Binary("instanceOf", item, item.topic, "role-class",
                    Referred(The(Inside(item.num, References))))}
      [] item.name = "baseName" ->
            {Binary("baseName", item, item.topic, "role-basename",
                    Locator(The(Inside(item.num, {"baseNameString"})).uri))}
      [] item.name = "occurrence" ->
            {Binary("occurrence", item, item.topic, "role-occurrence",
                    OccurrenceResource)}
            \cup {Binary("instanceOf", c, Locator(item.uri), "role-class",
                         RefOf(Classes)) : c \in Classes}
      [] item.name = "association" ->
            {Assertion(RefOf(Classes), item.uri,
                       {[R |-> r, x |-> PlayerOf(r)] :
                            r \in {RefOf(Specs(m)) : m \in Members}})}

-----------------------------------------------------------------------------

\* Every variable has its type.
TypeOK ==
    /\ depth \in 0..MaxAssociation /\ ignoreDepth \in 0..depth
    /\ \A i \in DOMAIN stack : /\ stack[i].name \in Name
                               /\ stack[i].childs \in [Name -> 0..MaxAssociation]
    /\ status \in {"ok", "error", "aborted"}
    /\ {asn.N, asn2.N} \subseteq 0..MaxMembers
    /\ DOMAIN asn.m = Slots /\ DOMAIN asn2.m = Slots
    /\ DOMAIN atTable = Uri /\ DOMAIN roleTable = Uri
    /\ elements \in 0..MaxAssociation /\ ids \subseteq Id

\* Omnivore's stack holds the open elements outside ignored subtrees, in their
\* order, and its depth is that of the document: however subtrees are nested,
\* the end of an ignored one is found.
StackFollowsDocument ==
    Ready =>
        LET kept == {i \in DOMAIN open : ~open[i].ignored}
        IN /\ DOMAIN stack = kept
           /\ \A i \in kept : stack[i].num = open[i].num
           /\ depth = Len(open)

\* No two elements of a document have the same URI: by their source locators
\* their subjects would become one.
UrisUnique == Cardinality(uris.set) = uris.number

\* The characters that stand in the element e, and characters that stand in an
\* ignored element directly in e.
Own(e) == {origin \in chars : ~origin.ignored /\ origin.num = e.num}
Stray(e) == {origin \in chars : origin.ignored /\ origin.parent = e.num}

\* The text of an element is all that stands in it, also behind the subtrees
\* that are skipped in it, and nothing from inside them.  Not claimed of an
\* element with a stray: "element subtrees that we want to skip entirely"
\* (xtm_simple.c:15) are not, omnivore takes characters directly in the first
\* element of such a subtree for text of the element around it.
TextAsWritten ==
    \A i \in DOMAIN stack :
        Stray(stack[i]) = {} => stack[i].text = Own(stack[i])

\* When an element that describes an assertion is over, the topic map has been
\* given the assertion it describes, with all its players, and that of its
\* occurrence type, if there is one, and no other.
AssertionsAsWritten ==
    Ready /\ item # NoItem /\ ~ItemIsOpen /\ ContentIsValid /\ ~aliased
        => given = Described

=============================================================================
