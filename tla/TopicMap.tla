------------------------------ MODULE TopicMap ------------------------------
(***************************************************************************)
(* The topic map graph of src/src/topicmap.c: topics, the stores of all    *)
(* properties, and tm_topicmap_fully_merge, which makes topics one that    *)
(* have the same value for an identity property, until there are none.     *)
(*                                                                         *)
(* The library is single threaded.  An API call that loops over properties *)
(* or merge lists is a series of steps here, one per round of the loop, so *)
(* that what it leaves behind when it returns early can be seen; no other  *)
(* call starts before it has returned (phase "idle").                      *)
(***************************************************************************)
EXTENDS StoreOps, MergeLists

CONSTANTS
    PropOrder,   \* the properties, in the order of the models that define them
    Kind,        \* Kind[p]: what sort of property p is (StoreOps)
    Subjects,    \* the subjects that may be added: sequences of <<p, value>>
    Forms,       \* what may be asserted: a type and a function role -> player
    MaxCalls     \* bound: the number of API calls

ASidp == "a-sidp"
TSidp == "t-sidp"

Prop == ToSet(PropOrder)

\* The properties that are given values from outside, with the values.
Literals == UNION {ToSet(subject) : subject \in Subjects}

\* What these values are made of: locators and texts.
Things == UNION {l[2] : l \in Literals}

ASSUME TopicMapAssumption ==
    /\ Topic = 1..Cardinality(Topic)
    /\ PropOrder \in Seq(Prop) /\ PropOrder # <<>> /\ IsInjective(PropOrder)
    /\ Kind \in [Prop -> PropertyType]
    /\ MaxCalls \in Nat

\* Only the two properties of the core model have values that contain topics,
\* and these do not combine; what is given from outside is a set of things.
ASSUME KindAssumption ==
    /\ \A p \in Prop : Kind[p].topical <=> p \in {ASidp, TSidp}
    /\ \A p \in Prop : Kind[p].topical => ~Kind[p].combines
    /\ Subjects \subseteq Seq(Literals)
    /\ \A l \in Literals : l[1] \in Prop /\ ~Kind[l[1]].topical /\ l[2] # {}

\* The assertions over the topics in T.
AssertionsOver(T) == [type : T, members : UNION {[R -> T] : R \in SUBSET T}]

ASSUME FormsAssumption ==
    Forms # {} => {ASidp, TSidp} \subseteq Prop /\ Forms \subseteq AssertionsOver(Topic)

\* NoValue is no value.
ASSUME NoValueAssumption ==
    /\ \A S \in SUBSET Things : S # NoValue
    /\ Forms # {} => /\ NoValue \notin AssertionsOver(Topic)
                     /\ \A S \in SUBSET Topic : S # NoValue

VARIABLES
    stores,    \* stores[p]: the stores of property p
    last,      \* the last topic number handed out by the meta store
    disposed,  \* the topics marked in topicmap->disposed
    lists,     \* topicmap->merge_lists
    phase,     \* "idle", or the loop the current call is in
    at,        \* where that loop is: a property, a list and an element of it
    todo,      \* the properties still to be added, the vids still to be rewritten
    rc,        \* what the last call returned
    status,    \* "ok", "aborted" (an assert failed) or "undefined"
    calls,     \* the number of calls made
    given,     \* history: given[p][t], what t has been given for p by calls
    asserted,  \* history: the assertions made, with their assertion topics
    rep        \* history: rep[t], the topic that t has been merged into

core == <<stores, last, disposed, lists>>
control == <<phase, at, todo, rc, status, calls>>
history == <<given, asserted, rep>>
vars == <<core, control, history>>

Created == 1..last
Live == Created \ disposed
Idle == phase = "idle" /\ status = "ok" /\ calls < MaxCalls
Running(ph) == phase = ph /\ status = "ok"

Start == [prop |-> 1, list |-> 1, element |-> 2]

Init ==
    /\ stores = [p \in Prop |-> EmptyStore]
    /\ last = 0
    /\ disposed = {}
    /\ lists = <<>>
    /\ phase = "idle"
    /\ at = Start
    /\ todo = <<>>
    /\ rc = "ok"
    /\ status = "ok"
    /\ calls = 0
    /\ given = [p \in Prop |-> [t \in Topic |-> {}]]
    /\ asserted = {}
    /\ rep = [t \in Topic |-> t]

Failed == \E p \in Prop : stores'[p].aborted

-----------------------------------------------------------------------------
(* Adding subjects, properties and assertions. *)

\* _topicmap_create_topic
NewTopic == last + 1

\* tm_topicmap_add_subject: always a new topic; NULL gives an anonymous one.
AddSubject(subject) ==
    /\ Idle
    /\ NewTopic \in Topic
    /\ last' = NewTopic
    /\ phase' = IF subject = <<>> THEN "idle" ELSE "subject"
    /\ todo' = subject
    /\ calls' = calls + 1
    /\ rc' = "ok"
    /\ UNCHANGED <<stores, disposed, lists, at, status, history>>

\* Bound: the value store of p may hand out another vid.
MayStore(p) == stores[p].count < MaxVid

\* tm_topicmap_add_property_to_topic
AddProperty(t, p, val) ==
    /\ MayStore(p)
    /\ \E order \in PutOrders(stores[p], Kind[p], t, val) :
         stores' = [stores EXCEPT ![p] = Put(@, Kind[p], t, val, order)]
    /\ rc' = IF PutContradicts(stores[p], Kind[p], t, val)
             THEN "contradicting" ELSE "ok"
    /\ given' = IF rc' = "ok" /\ Kind[p].combines
                THEN [given EXCEPT ![p][t] = @ \cup val] ELSE given
    /\ status' = IF Failed THEN "aborted" ELSE "ok"

\* The loop of add_subject: the next property, or the return on an error.
AddSubjectProperty ==
    /\ Running("subject")
    /\ AddProperty(last, Head(todo)[1], Head(todo)[2])
    /\ todo' = IF rc' = "ok" THEN Tail(todo) ELSE <<>>
    /\ phase' = IF todo' = <<>> THEN "idle" ELSE "subject"
    /\ UNCHANGED <<last, disposed, lists, at, calls, asserted, rep>>

\* tm_topicmap_add_property_to_topic, called from outside.
AddPropertyToTopic(t, p, val) ==
    /\ Idle
    /\ t \in Live
    /\ AddProperty(t, p, val)
    /\ calls' = calls + 1
    /\ UNCHANGED <<last, disposed, lists, phase, at, todo, asserted, rep>>

\* tm_topicmap_add_topic_assertion: a-sidp for the assertion topic a, then
\* t-sidp for the type.  A second a-sidp for one topic runs into the assert(0)
\* of asidp_equal; the type may have another role set already, and then the
\* call fails when the a-sidp is there.  (An assertion with fewer than two
\* memberships or without a type is refused before anything is changed; the
\* roles of one assertion are distinct topics.)
AddAssertion(a, asidp) ==
    LET type    == asidp.type
        members == asidp.members
        roles   == DOMAIN members
    IN  /\ Idle
        /\ type \in Live
        /\ a \in Live \cup {NewTopic}
        /\ a \in Topic
        /\ \A r \in roles : r \in Live /\ members[r] \in Live
        /\ Cardinality(roles) >= 2
        /\ MayStore(ASidp) /\ MayStore(TSidp)
        /\ last' = IF a = NewTopic THEN NewTopic ELSE last
        /\ IF stores[ASidp].vid[a] # 0
           THEN status' = "aborted" /\ UNCHANGED <<stores, rc>>
           ELSE /\ stores' = [stores EXCEPT
                      ![ASidp] = Put(@, Kind[ASidp], a, asidp, <<>>),
                      ![TSidp] = Put(@, Kind[TSidp], type, roles, <<>>)]
                /\ rc' = IF PutContradicts(stores[TSidp], Kind[TSidp],
                                           type, roles)
                         THEN "contradicting" ELSE "ok"
                /\ status' = IF Failed THEN "aborted" ELSE "ok"
        /\ asserted' = IF status' = "ok"
                       THEN asserted \cup {[a |-> a, asidp |-> asidp]}
                       ELSE asserted
        /\ calls' = calls + 1
        /\ UNCHANGED <<disposed, lists, phase, at, todo, given, rep>>

-----------------------------------------------------------------------------
(* tm_topicmap_fully_merge *)

FullyMerge ==
    /\ Idle
    /\ phase' = "loop"
    /\ calls' = calls + 1
    /\ UNCHANGED <<core, at, todo, rc, status, history>>

\* The head of the while loop and its assert.  (The assert(0) after 200 rounds is
\* left out, as is the fixed size of topicmap->disposed.)
AllNormalized == \A p \in Prop : IsNormalized(Kind[p], stores[p])

Return(code) == phase' = "idle" /\ rc' = code

WhileNotNormalized ==
    /\ Running("loop")
    /\ at' = Start
    /\ IF AllNormalized THEN Return("ok") /\ UNCHANGED status
       ELSE IF lists # <<>>
       THEN status' = "aborted" /\ UNCHANGED <<phase, rc>>
       ELSE phase' = "normalize" /\ UNCHANGED <<rc, status>>
    /\ UNCHANGED <<core, todo, calls, history>>

\* property_stores has the newest store in front.
NormalizeOrder == Reverse(PropOrder)

\* What _mempropertystore_normalize does with an array: one of several topics
\* is handed to add_mergelist.
HandOver(acc, array) ==
    IF acc.freed \/ Len(array) <= 1 THEN acc ELSE AddMergeList(acc.lists, array)

\* It takes the arrays in the order of their vids.
HandedOver(p) ==
    FoldLeft(HandOver, [lists |-> lists, freed |-> FALSE], stores[p].topics)

NormalizeNext ==
    /\ Running("normalize")
    /\ LET p   == NormalizeOrder[at.prop]
           acc == IF IsNormalized(Kind[p], stores[p])
                  THEN [lists |-> lists, freed |-> FALSE] ELSE HandedOver(p)
       IN /\ stores' = [stores EXCEPT ![p] = NormalizeStore(Kind[p], @)]
          /\ lists' = acc.lists
          /\ status' = IF acc.freed THEN "undefined" ELSE "ok"
    /\ IF at.prop < Len(PropOrder)
       THEN at' = [at EXCEPT !.prop = @ + 1] /\ UNCHANGED phase
       ELSE /\ at' = Start
            /\ phase' = IF lists' = <<>> THEN "loop" ELSE "replace"
    /\ UNCHANGED <<last, disposed, todo, rc, calls, history>>

\* The loops over properties, merge lists and the elements behind the first.
MoreElements == at.element < Len(lists[at.list])
MoreLists == at.list < Len(lists)

\* A slip of MoreProps: the loop over the properties runs one too far.
OneMoreProp == at.prop <= Len(PropOrder)
MoreProps == at.prop < Len(PropOrder)

NextList ==
    IF MoreLists THEN [at EXCEPT !.list = @ + 1, !.element = 2]
    ELSE [prop |-> at.prop + 1, list |-> 1, element |-> 2]

\* _pstore_replace_topics
ReplaceNext ==
    /\ Running("replace")
    /\ LET p     == PropOrder[at.prop]
           stays == lists[at.list][1]
           disap == lists[at.list][at.element]
       IN IF ReplaceContradicts(stores[p], Kind[p], stays, disap)
          THEN /\ Return("contradicting")
               /\ at' = Start
               /\ UNCHANGED <<stores, status>>
          ELSE /\ MayStore(p)
               /\ \E order \in ReplaceOrders(stores[p], Kind[p], stays, disap) :
                    stores' = [stores EXCEPT ![p] =
                                  ReplaceTopic(@, Kind[p], stays, disap, order)]
               /\ status' = IF Failed THEN "aborted" ELSE "ok"
               /\ IF MoreElements
                  THEN at' = [at EXCEPT !.element = @ + 1] /\ UNCHANGED phase
                  ELSE IF MoreLists \/ MoreProps
                  THEN at' = NextList /\ UNCHANGED phase
                  ELSE at' = Start /\ phase' = "values"
               /\ UNCHANGED rc
    /\ UNCHANGED <<last, disposed, lists, todo, calls, history>>

\* What the value type's replaceTopics does to a value, set being the list.
Subst(set, t) == IF t \in ToSet(Tail(set)) THEN Head(set) ELSE t

TopicsIn(p, val) ==
    IF p = ASidp
    THEN {val.type} \cup DOMAIN val.members
         \cup {val.members[r] : r \in DOMAIN val.members}
    ELSE val

Substituted(p, set, val) ==
    IF p = ASidp
    THEN [type |-> Subst(set, val.type),
          members |-> [r \in {Subst(set, q) : q \in DOMAIN val.members} |->
              Subst(set, val.members[CHOOSE q \in DOMAIN val.members :
                                        Subst(set, q) = r])]]
    ELSE {Subst(set, t) : t \in val}

\* An a-sidp in which two roles become one is refused by the assert of
\* _make_array, a topic set in which two topics do by that of
\* topicset_replace_topics.
CannotSubstitute(p, set, val) ==
    LET distinct == IF p = ASidp THEN DOMAIN val.members ELSE val
    IN Cardinality(distinct \cap ToSet(set)) > 1

\* The vids a VALUE_INCLUDES_TOPIC scan finds for the topics of S.
Including(p, S) ==
    {v \in Vid : /\ stores[p].value[v] # NoValue
                 /\ TopicsIn(p, stores[p].value[v]) \cap S # {}}

\* _pstore_replace_topics_in_values: it first collects the vids to rewrite.  The
\* order in which the scans come upon them is not modelled: any order.
AfterList ==
    IF MoreLists \/ MoreProps THEN at' = NextList /\ phase' = "values"
    ELSE at' = Start /\ phase' = "dispose"

CollectVids ==
    /\ Running("values")
    /\ LET p    == PropOrder[at.prop]
           vids == IF Kind[p].topical
                   THEN Including(p, ToSet(Tail(lists[at.list]))) ELSE {}
       IN IF vids = {} THEN AfterList /\ UNCHANGED todo
          ELSE /\ todo' \in Orders(vids)
               /\ phase' = "rewrite"
               /\ UNCHANGED at
    /\ UNCHANGED <<core, rc, status, calls, history>>

\* One of them: substitution in the value, and its topics get the new value.
RewriteValue ==
    /\ Running("rewrite")
    /\ LET p   == PropOrder[at.prop]
           set == lists[at.list]
           v   == Head(todo)
           val == stores[p].value[v]
       IN IF CannotSubstitute(p, set, val)
          THEN status' = "aborted" /\ UNCHANGED stores
          ELSE /\ MayStore(p)
               /\ stores' = [stores EXCEPT ![p] =
                      ReplaceValue(@, Kind[p], v, Substituted(p, set, val))]
               /\ status' = IF stores'[p].aborted THEN "aborted" ELSE "ok"
    /\ todo' = Tail(todo)
    /\ IF todo' = <<>> THEN AfterList ELSE UNCHANGED <<at, phase>>
    /\ UNCHANGED <<last, disposed, lists, rc, calls, history>>

\* _dispose_topic with its asserts, for all but the first of every list; the
\* lists are then deleted and the while loop goes on.
Disappearing == UNION {ToSet(Tail(lists[i])) : i \in DOMAIN lists}

\* A topic named twice would be found disposed of the second time.
NamedOnce ==
    /\ \A i \in DOMAIN lists : IsInjective(lists[i])
    /\ \A i, j \in DOMAIN lists :
         i # j => ToSet(lists[i]) \cap ToSet(lists[j]) = {}

\* merge_lists after the cleanup; a slip would be to leave it as it was.
UncleanedLists == lists
CleanedLists == <<>>

MayDispose(t) ==
    /\ t \notin disposed
    /\ \A p \in Prop :
         /\ stores[p].vid[t] = 0
         /\ Kind[p].topical => Including(p, {t}) = {}

Dispose ==
    /\ Running("dispose")
    /\ IF NamedOnce /\ \A t \in Disappearing : MayDispose(t)
       THEN /\ disposed' = disposed \cup Disappearing
            /\ lists' = CleanedLists
            /\ phase' = "loop"
            /\ rep' = [t \in Topic |->
                  IF \E i \in DOMAIN lists : rep[t] \in ToSet(lists[i])
                  THEN Head(lists[CHOOSE i \in DOMAIN lists :
                                     rep[t] \in ToSet(lists[i])])
                  ELSE rep[t]]
            /\ UNCHANGED status
       ELSE status' = "aborted" /\ UNCHANGED <<disposed, lists, phase, rep>>
    /\ UNCHANGED <<stores, last, at, todo, rc, calls, given, asserted>>

-----------------------------------------------------------------------------

Call ==
    \/ \E subject \in Subjects : AddSubject(subject)
    \/ \E t \in Topic, l \in Literals : AddPropertyToTopic(t, l[1], l[2])
    \/ \E a \in Topic, asidp \in Forms : AddAssertion(a, asidp)
    \/ FullyMerge

MergeStep ==
    \/ WhileNotNormalized
    \/ NormalizeNext
    \/ ReplaceNext
    \/ CollectVids
    \/ RewriteValue
    \/ Dispose

Step == AddSubjectProperty \/ MergeStep

Next == Call \/ Step

Spec == Init /\ [][Next]_vars

\* A call that has begun runs on; nobody has to make a call.
FairSpec == Spec /\ WF_vars(Step)

-----------------------------------------------------------------------------

IsValueOf(p, val) ==
    IF p = ASidp
    THEN /\ val.type \in Created
         /\ TopicsIn(p, val) \subseteq Created
    ELSE IF p = TSidp THEN val \subseteq Created
    ELSE val \subseteq UNION {l[2] : l \in Literals}

\* Every variable has its type.
TypeOK ==
    /\ \A p \in Prop :
         /\ stores[p] \in StoreType(Range(stores[p].value))
         /\ \A v \in Vid : stores[p].value[v] # NoValue =>
                            IsValueOf(p, stores[p].value[v])
    /\ last \in 0..Cardinality(Topic)
    /\ disposed \subseteq Created
    /\ lists \in Seq(Seq(Created))
    /\ phase \in {"idle", "subject", "loop", "normalize", "replace", "values",
                  "rewrite", "dispose"}
    /\ at.prop \in DOMAIN PropOrder
    /\ rc \in {"ok", "contradicting"}
    /\ status \in {"ok", "aborted", "undefined"}
    /\ calls \in 0..MaxCalls
    /\ rep \in [Topic -> Topic]

\* At every step of every call, between the rounds of fully_merge too and
\* after a call that failed half way, the stores of each property agree with
\* each other: vid tables and topic arrays are inverse, no value is without a
\* topic, no locator in two sets, and a store called normalized is.
StoresSound ==
    status = "ok" =>
        \A p \in Prop : /\ Matching(stores[p])
                        /\ NoOrphans(stores[p])
                        /\ Distinct(stores[p], Kind[p])
                        /\ Unique(stores[p], Kind[p])

\* Nothing refers to a topic once it has been disposed of: no store has a
\* value for it, no assertion and no role set contains it, no merge list names
\* it, whatever is added and merged later.
DisposedIsGone ==
    status = "ok" =>
        \A t \in disposed :
            /\ \A p \in Prop : stores[p].vid[t] = 0
            /\ \A p \in Prop : Kind[p].topical => Including(p, {t}) = {}
            /\ \A i \in DOMAIN lists : t \notin ToSet(lists[i])

Merged == phase = "idle" /\ status = "ok" /\ lists = <<>> /\ AllNormalized

\* The finest partition that keeps topics together that share a locator.
Related(t, u) ==
    t = u \/ \E p \in Prop : given[p][t] \cap given[p][u] # {}

ClassClosed(S) == \A t \in S, u \in Created : Related(t, u) => u \in S

Classes ==
    {S \in SUBSET Created : S # {} /\ ClassClosed(S)
        /\ \A T \in SUBSET S : T # {} /\ ClassClosed(T) => T = S}

\* The topics of S and the others have nothing to do with each other: none has
\* become one of the other side, no merge list has topics of both, and no
\* topic of S shows a locator that was not given to a topic of S.
KeptApart(S) ==
    /\ \A t \in Created : rep[t] \in S <=> t \in S
    /\ \A i \in DOMAIN lists :
         ToSet(lists[i]) \subseteq S \/ ToSet(lists[i]) \cap S = {}
    /\ \A p \in Prop, t \in S : Kind[p].combines /\ stores[p].vid[t] # 0 =>
         stores[p].value[stores[p].vid[t]] \subseteq UNION {given[p][u] : u \in S}

\* At every step, in the middle of fully_merge too, topics that no chain of
\* shared locators connects are kept apart.  (For maps without assertions.)
UnrelatedStayApart ==
    status = "ok" => \A S \in SUBSET Created : ClassClosed(S) => KeptApart(S)

\* When fully_merge is done, two topics have become one exactly if a chain of
\* shared locators, over any properties and any order in which they were
\* given, leads from one to the other.  (For maps without assertions, whose
\* merging may call for more.)
MergedIffRelated ==
    Merged => {{t \in Created : rep[t] = u} : u \in Live} = Classes

\* The topic that stays shows all the locators that the topics merged into it
\* have been given, and no others.
LocatorsKept ==
    Merged =>
        \A p \in Prop, u \in Live : Kind[p].combines =>
            UNION {given[p][t] : t \in {s \in Created : rep[s] = u}}
              = IF stores[p].vid[u] = 0 THEN {}
                ELSE stores[p].value[stores[p].vid[u]]

\* An assertion once made is still there after merging, on the topic its
\* assertion topic has become, with every topic in it replaced by the one that
\* stays; where several assertion topics have become one, it is one of theirs.
Renamed(asidp) ==
    [type |-> rep[asidp.type],
     members |-> [r \in {rep[q] : q \in DOMAIN asidp.members} |->
         rep[asidp.members[CHOOSE q \in DOMAIN asidp.members : rep[q] = r]]]]

AssertionsKept ==
    Merged =>
        \A r \in asserted :
            /\ stores[ASidp].vid[rep[r.a]] # 0
            /\ \E s \in asserted :
                 /\ rep[s.a] = rep[r.a]
                 /\ stores[ASidp].value[stores[ASidp].vid[rep[r.a]]]
                      = Renamed(s.asidp)

\* The calls of a program that adds subjects and properties and merges never
\* run into an assert.
NoAssertFails == status # "aborted"

\* When an assert fails, fully_merge is called again after it has returned with
\* an error, or the value of an assertion or of a role set cannot be rewritten
\* (memstore/asidp.c:466, vt_topicset.c:147), or an assertion topic is given a
\* second assertion (asidp.c:127).  Those of _dispose_topic and those that the
\* stores make of each other never fail, and no other.
AbortExplained ==
    \/ phase = "loop" /\ lists # <<>>
    \/ LET p == PropOrder[at.prop]
       IN /\ phase = "rewrite"
          /\ CannotSubstitute(p, lists[at.list], stores[p].value[Head(todo)])
    \/ \E a \in Topic, asidp \in Forms :
          AddAssertion(a, asidp) /\ stores[ASidp].vid[a] # 0

AssertsExplained ==
    [][status = "ok" /\ status' = "aborted" => AbortExplained]_vars

\* "avoid endless loop in any case" (topicmap.c:544): every call returns, the
\* while loop of fully_merge after finitely many rounds.
CallsReturn == phase # "idle" ~> (phase = "idle" \/ status # "ok")

=============================================================================
