------------------------------ MODULE XtmSimple -----------------------------
(***************************************************************************)
(* The processing model xtm_simple (src/www-df/xtm_simple.c): it follows   *)
(* the elements of an XTM document and makes subjects and assertions of    *)
(* them.                                                                   *)
(*                                                                         *)
(* A topic is named by the property it is looked up with: which topics     *)
(* these are in the map, and when they are merged, is the matter of module *)
(* TopicMap.  Any call to the topic map may fail; the error then stays     *)
(* with omnivore, which passes nothing on any more.                        *)
(***************************************************************************)
EXTENDS Omnivore, SequencesExt

CONSTANTS None,        \* no topic
          MaxMembers   \* bound: the slots of an assertion

VARIABLES topic,      \* last_topic_topic
          asn,        \* topic_assertion
          asn2,       \* topic_assertion_2
          atTable,    \* at_table: the topics of association types, by URI
          roleTable,  \* role_table: the topics of roles
          sent,       \* what the last event gave to add_topic_assertion
          status      \* "ok", "error" (errstr is set) or "aborted"

data == <<topic, asn, asn2, atTable, roleTable>>
xtm == <<data, sent, status>>

\* The element names of the processing model.
xtm_simple ==
    [ignore_elements |-> {"scope", "variant"},
     text_elements |-> {"baseNameString", "resourceData", "property"}]

Slots == 1..MaxMembers
NoMember == [R |-> None, x |-> None]

\* tm_topic_assertion_init
NoAssertion ==
    [T |-> None, A |-> None, N |-> 0, m |-> [i \in Slots |-> NoMember]]

Locator(uri)   == [prop |-> "SourceLocators", uri |-> uri]
Indicator(uri) == [prop |-> "SubjectIndicators", uri |-> uri]
Address(uri)   == [prop |-> "SubjectAddress", uri |-> uri]
SetTopic(set)  == [prop |-> "SetMembers", members |-> set]

\* The topics that _init looks up.
Psi(name) == Indicator(IdUri(name))

\* What a reference refers to, by the name of its element.
Referred(e) ==
    CASE e.name = "topicRef" -> Locator(e.ref)
      [] e.name = "subjectIndicatorRef" -> Indicator(e.ref)
      [] e.name = "resourceRef" -> Address(e.ref)

InitXtm ==
    /\ topic = None
    /\ asn = NoAssertion /\ asn2 = NoAssertion
    /\ atTable = [u \in Uri |-> None] /\ roleTable = [u \in Uri |-> None]
    /\ sent = {}
    /\ status = "ok"

Silent == sent' = {}
Done == Silent /\ UNCHANGED status

Fail  == status' = "error" /\ Silent /\ UNCHANGED data
Abort == status' = "aborted" /\ Silent /\ UNCHANGED data

\* tm_topicmap_add_topic_assertion refuses fewer than two memberships and an
\* assertion without type.
Acceptable(a) == a.N >= 2 /\ a.T # None

Delivered(a) ==
    [T |-> a.T, A |-> a.A, N |-> a.N, members |-> {a.m[i] : i \in 1..a.N}]

Send(a) == /\ Acceptable(a)
           /\ sent' = {Delivered(a)}
           /\ UNCHANGED status

-----------------------------------------------------------------------------
(* xtm_start_element *)

TopicPath == <<"topicMap", "topic">>
IdentityPath == TopicPath \o <<"subjectIdentity">>
OccurrencePath == TopicPath \o <<"occurrence">>
AssociationPath == <<"topicMap", "association">>
MemberPath == AssociationPath \o <<"member">>

Passive == {<<"topicMap">>, IdentityPath,
            TopicPath \o <<"baseName", "baseNameString">>,
            OccurrencePath \o <<"resourceData">>,
            AssociationPath \o <<"instanceOf">>, MemberPath \o <<"roleSpec">>}

References == {"topicRef", "subjectIndicatorRef"}

StartPassive(e) == e.path \in Passive /\ Done /\ UNCHANGED data

StartTopic(e) ==
    /\ e.path = TopicPath
    /\ \/ Fail
       \/ /\ topic' = Locator(e.uri)
          /\ Done /\ UNCHANGED <<asn, asn2, atTable, roleTable>>

\* The assertions that elements of a topic begin: their types and the role of
\* the topic.
TypeOf == [instanceOf |-> Psi("at-class-instance"),
           baseName |-> Psi("at-basenamed-basename"),
           occurrence |-> Psi("at-occurring-occurrence")]
RoleOf == [instanceOf |-> Psi("role-instance"),
           baseName |-> Psi("role-basenamed"),
           occurrence |-> Psi("role-occurring")]

Begun(name, uri, player) ==
    [NoAssertion EXCEPT !.T = TypeOf[name], !.A = Locator(uri), !.N = 1,
                        !.m[1] = [R |-> RoleOf[name], x |-> player]]

\* The second membership of such an assertion.
Completed(a, role, x) ==
    [a EXCEPT !.N = 2, !.m[2] = [R |-> Psi(role), x |-> x]]

StartItem(e) ==
    /\ e.path = TopicPath \o <<e.name>>
    /\ e.name \in DOMAIN TypeOf
    /\ \/ Fail
       \/ /\ asn' = Begun(e.name, e.uri, topic)
          /\ Done /\ UNCHANGED <<topic, asn2, atTable, roleTable>>

StartClassRef(e) ==
    /\ e.name \in References
    /\ e.path = TopicPath \o <<"instanceOf", e.name>>
    /\ \/ Fail
       \/ /\ asn' = Completed(asn, "role-class", Referred(e))
          /\ Send(asn') /\ UNCHANGED <<topic, asn2, atTable, roleTable>>

\* A property is given to the topic.  When that fails, the branches for
\* references to topics run into assert(0).
StartIdentityRef(e) ==
    /\ e.name \in References
    /\ e.path = IdentityPath \o <<e.name>>
    /\ Abort \/ (Done /\ UNCHANGED data)

StartIdentityResource(e) ==
    /\ e.path = IdentityPath \o <<"resourceRef">>
    /\ IF e.ref = EmptyUri THEN Abort
       ELSE Fail \/ (Done /\ UNCHANGED data)

\* A slip of StartOccurrenceClass: the topic is made the instance.
StartTopicClass(e) ==
    /\ e.path = OccurrencePath \o <<"instanceOf">>
    /\ \/ Fail
       \/ /\ asn2' = Begun("instanceOf", e.uri, topic)
          /\ Done /\ UNCHANGED <<topic, asn, atTable, roleTable>>

\* The instance is the occurrence.
StartOccurrenceClass(e) ==
    /\ e.path = OccurrencePath \o <<"instanceOf">>
    /\ \/ Fail
       \/ /\ asn2' = Begun("instanceOf", e.uri, asn.A)
          /\ Done /\ UNCHANGED <<topic, asn, atTable, roleTable>>

StartOccurrenceClassRef(e) ==
    /\ e.name \in References
    /\ e.path = OccurrencePath \o <<"instanceOf", e.name>>
    /\ \/ Fail
       \/ /\ asn2' = Completed(asn2, "role-class", Referred(e))
          /\ Send(asn2') /\ UNCHANGED <<topic, asn, atTable, roleTable>>

\* The membership goes to the slot after the last; N is 2 in any case.
StartOccurrenceRef(e) ==
    /\ e.path = OccurrencePath \o <<"resourceRef">>
    /\ IF e.ref = EmptyUri THEN Abort
       ELSE \/ Fail
            \/ /\ asn' = [asn EXCEPT
                    !.m[asn.N + 1] = [R |-> Psi("role-occurrence"), x |-> Referred(e)],
                    !.N = 2]
               /\ Done /\ UNCHANGED <<topic, asn2, atTable, roleTable>>

StartAssociation(e) ==
    /\ e.path = AssociationPath
    /\ \/ Fail
       \/ /\ asn' = [NoAssertion EXCEPT !.A = Locator(e.uri)]
          /\ Done /\ UNCHANGED <<topic, asn2, atTable, roleTable>>

\* What the table has under the URI, or else what the reference refers to.
Found(table, e) == IF table[e.ref] # None THEN table[e.ref] ELSE Referred(e)

StartTypeRef(e) ==
    /\ e.name \in References
    /\ e.path = AssociationPath \o <<"instanceOf", e.name>>
    /\ IF e.ref = EmptyUri THEN Abort
       ELSE \/ atTable[e.ref] = None /\ Fail
            \/ /\ atTable' = [atTable EXCEPT ![e.ref] = Found(atTable, e)]
               /\ asn' = [asn EXCEPT !.T = Found(atTable, e)]
               /\ Done /\ UNCHANGED <<topic, asn2, roleTable>>

\* The slot of the member that is open.
Slot == asn.N + 1

StartMember(e) ==
    /\ e.path = MemberPath
    /\ asn' = [asn EXCEPT !.m[Slot] = NoMember]
    /\ Done /\ UNCHANGED <<topic, asn2, atTable, roleTable>>

StartRoleRef(e) ==
    /\ e.name \in References
    /\ e.path = MemberPath \o <<"roleSpec", e.name>>
    /\ IF e.ref = EmptyUri THEN Abort
       ELSE \/ roleTable[e.ref] = None /\ Fail
            \/ asn.m[Slot] # NoMember /\ Abort
            \/ /\ asn.m[Slot] = NoMember
               /\ roleTable' = [roleTable EXCEPT ![e.ref] = Found(roleTable, e)]
               /\ asn' = [asn EXCEPT !.m[Slot].R = Found(roleTable, e)]
               /\ Done /\ UNCHANGED <<topic, asn2, atTable>>

\* A second player of a member gets a slot of its own, with the same role.
WithPlayer(a, x) ==
    IF a.m[a.N + 1].x = None THEN [a EXCEPT !.m[a.N + 1].x = x]
    ELSE [a EXCEPT !.N = @ + 1, !.m[a.N + 2] = [R |-> a.m[a.N + 1].R, x |-> x]]

StartPlayerRef(e) ==
    /\ e.name \in References
    /\ e.path = MemberPath \o <<e.name>>
    /\ IF e.ref = EmptyUri THEN Abort
       ELSE \/ Fail
            \/ /\ asn.m[Slot].R # None
               /\ asn' = WithPlayer(asn, Referred(e))
               /\ Done /\ UNCHANGED <<topic, asn2, atTable, roleTable>>

\* Here a second player is not provided for.
StartPlayerResource(e) ==
    /\ e.path = MemberPath \o <<"resourceRef">>
    /\ IF e.ref = EmptyUri THEN Abort
       ELSE \/ Fail
            \/ (asn.m[Slot].R = None \/ asn.m[Slot].x # None) /\ Abort
            \/ /\ asn.m[Slot].R # None /\ asn.m[Slot].x = None
               /\ asn' = [asn EXCEPT !.m[Slot].x = Referred(e)]
               /\ Done /\ UNCHANGED <<topic, asn2, atTable, roleTable>>

\* The attributes may be missing and the model not be there.
StartProperty(e) ==
    /\ e.path = TopicPath \o <<"property">>
    /\ Fail \/ (Done /\ UNCHANGED data)

SupportedPaths ==
    Passive \cup {TopicPath, AssociationPath, MemberPath}
    \cup {TopicPath \o <<n>> : n \in DOMAIN TypeOf \cup {"property"}}
    \cup {p \o <<n>> : p \in {TopicPath \o <<"instanceOf">>,
                              OccurrencePath \o <<"instanceOf">>,
                              AssociationPath \o <<"instanceOf">>,
                              MemberPath \o <<"roleSpec">>}, n \in References}
    \cup {p \o <<n>> : p \in {IdentityPath, MemberPath},
                       n \in References \cup {"resourceRef"}}
    \cup {OccurrencePath \o <<n>> : n \in {"instanceOf", "resourceRef"}}

xtm_start_element(e) ==
    \/ StartPassive(e) \/ StartTopic(e) \/ StartItem(e) \/ StartClassRef(e)
    \/ StartIdentityRef(e) \/ StartIdentityResource(e)
    \/ StartOccurrenceClass(e) \/ StartOccurrenceClassRef(e)
    \/ StartOccurrenceRef(e)
    \/ StartAssociation(e) \/ StartTypeRef(e)
    \/ StartMember(e) \/ StartRoleRef(e)
    \/ StartPlayerRef(e) \/ StartPlayerResource(e)
    \/ StartProperty(e)
    \/ e.path \notin SupportedPaths /\ Fail

-----------------------------------------------------------------------------
(* xtm_end_element *)

EndMember(e) ==
    /\ e.path = MemberPath
    /\ IF asn.m[Slot].R = None \/ asn.m[Slot].x = None THEN Fail
       ELSE /\ asn' = [asn EXCEPT !.N = @ + 1]
            /\ Done /\ UNCHANGED <<topic, asn2, atTable, roleTable>>

\* tm_topic_assertion_sort, by the numbers of the role topics: in some order.
Sorted(m, roles) ==
    FlattenSeq([k \in DOMAIN roles |-> SelectSeq(m, LAMBDA s : s.R = roles[k])])

\* The last of the memberships with the role of the one at i.
LastAlike(m, i) ==
    CHOOSE k \in i..Len(m) : /\ \A j \in i..k : m[j].R = m[i].R
                             /\ k < Len(m) => m[k + 1].R # m[i].R

\* The memberships with the same role as the one at i become one, whose player
\* is the set of their players.
GroupAt(m, i) ==
    IF i < Len(m) /\ m[i].R = m[i + 1].R
    THEN SubSeq(m, 1, i - 1)
         \o <<[R |-> m[i].R,
               x |-> SetTopic({m[j].x : j \in i..LastAlike(m, i)})]>>
         \o SubSeq(m, LastAlike(m, i) + 1, Len(m))
    ELSE m

Grouped(m) == FoldLeft(GroupAt, m, [i \in DOMAIN m |-> i])

Roles(m) == {m[i].R : i \in DOMAIN m}

WithMembers(a, m) ==
    [a EXCEPT !.N = Len(m),
              !.m = [i \in Slots |-> IF i <= Len(m) THEN m[i] ELSE NoMember]]

EndAssociation(e) ==
    /\ e.path = AssociationPath
    /\ \/ (asn.T = None \/ asn.N >= 2) /\ Fail
       \/ asn.T # None /\ asn.N < 2 /\ Abort
       \/ /\ asn.T # None /\ asn.N >= 2
          /\ \E roles \in SetToSeqs(Roles(SubSeq(asn.m, 1, asn.N))) :
               asn' = WithMembers(asn, Grouped(Sorted(SubSeq(asn.m, 1, asn.N), roles)))
          /\ Send(asn') /\ UNCHANGED <<topic, asn2, atTable, roleTable>>

\* The name is a subject of its own; it is also given to the topic.  When that
\* fails, there is the assert(0).
EndBaseNameString(e) ==
    /\ e.path = TopicPath \o <<"baseName", "baseNameString">>
    /\ \/ Fail
       \/ Abort
       \/ /\ asn' = Completed(asn, "role-basename", Locator(e.uri))
          /\ Done /\ UNCHANGED <<topic, asn2, atTable, roleTable>>

EndResourceData(e) ==
    /\ e.path = OccurrencePath \o <<"resourceData">>
    /\ \/ Fail
       \/ /\ asn' = Completed(asn, "role-occurrence", Address(e.uri))
          /\ Done /\ UNCHANGED <<topic, asn2, atTable, roleTable>>

EndItem(e) ==
    /\ e.path \in {TopicPath \o <<"baseName">>, OccurrencePath}
    /\ Fail \/ (Send(asn) /\ UNCHANGED data)

EndProperty(e) ==
    /\ e.path = TopicPath \o <<"property">>
    /\ Fail \/ (Done /\ UNCHANGED data)

EndPaths ==
    {MemberPath, AssociationPath, TopicPath \o <<"baseName">>, OccurrencePath,
     TopicPath \o <<"baseName", "baseNameString">>,
     OccurrencePath \o <<"resourceData">>, TopicPath \o <<"property">>}

xtm_end_element(e) ==
    \/ EndMember(e) \/ EndAssociation(e)
    \/ EndBaseNameString(e) \/ EndResourceData(e) \/ EndItem(e)
    \/ EndProperty(e)
    \/ e.path \notin EndPaths /\ Done /\ UNCHANGED data

=============================================================================
