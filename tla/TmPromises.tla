----------------------------- MODULE TmPromises -----------------------------
(***************************************************************************)
(* What tm promises its user, stated over what was in the files: the facts *)
(* that their lines and statements state, and the topics, assertions and   *)
(* views that must come of them.                                           *)
(*                                                                         *)
(* A fact is a type and a function from roles to what plays them, which is *)
(* named as the file names it, by [is, text]: a topic model's topic by its *)
(* psi, a term by its name, a resource by its address, and the topics that *)
(* stand for a piece of text by that text.                                 *)
(***************************************************************************)
EXTENDS TmProgram

psi(name) == [is |-> "psi", text |-> {<<name>>}]
named(name) == [is |-> "named", text |-> name]
resource(uri) == [is |-> "resource", text |-> <<uri>>]
indicated(text) == [is |-> "indicated", text |-> <<text>>]
content(text) == [is |-> "content", text |-> <<text>>]

Fact(type, r1, p1, r2, p2) ==
    [type |-> psi(type), members |-> (psi(r1) :> p1) @@ (psi(r2) :> p2)]

-----------------------------------------------------------------------------
(* Thesaurus files. *)

ConfigOf(do) == SelectSeq(options.config, LAMBDA c : c.do = do)

\* The rule of a relation is the last in the config file, or the built-in one.
RuleOf ==
    LET own == ConfigOf("Map")
    IN [rel \in {own[i].rule.rel : i \in DOMAIN own} |->
            Last(SelectSeq(own, LAMBDA c : c.rule.rel = rel)).rule]
       @@ ("NT" :> NarrowerTerm) @@ ("HI" :> HasInstance)

Ignored == {ConfigOf("Ignore")[i].rel : i \in DOMAIN ConfigOf("Ignore")}

Blank(line) == line = <<>> \/ Head(line) = "#"
IsRelation(line) == Len(line) > 1 /\ Head(line) \in DOMAIN RuleOf \cup Ignored
IsTerm(line) == ~Blank(line) /\ ~IsRelation(line)

\* What the i-th line of a file speaks of: the term in the last line with one.
TermsBefore(text, i) == {j \in 1..(i - 1) : IsTerm(text[j])}
Speaks(text, i) ==
    text[CHOOSE j \in TermsBefore(text, i) : \A k \in TermsBefore(text, i) : k <= j]

LineFact(text, i) ==
    LET rule == RuleOf[Head(text[i])]
    IN Fact(rule.at, rule.active, named(Speaks(text, i)),
            rule.passive, named(Tail(text[i])))

Stating(text) ==
    {i \in DOMAIN text : IsRelation(text[i]) /\ Head(text[i]) \notin Ignored}

LineFacts(text) == {LineFact(text, i) : i \in Stating(text)}

LineNames(text) ==
    {text[i] : i \in {j \in DOMAIN text : IsTerm(text[j])}}
        \cup {Tail(text[i]) : i \in Stating(text)}

-----------------------------------------------------------------------------
(* RDF files. *)

Statements(p) ==
    UNION {{st \in ToSet(texts[k]) : st.predicate = p} : k \in DOMAIN texts}

HasName(who, text) ==
    Fact("at-basenamed-basename", "role-basenamed", who,
         "role-basename", indicated(text))
HasOccurrence(who, what) ==
    Fact("at-occurring-occurrence", "role-occurring", who,
         "role-occurrence", what)

StatementFacts ==
    {HasName(resource(st.subject), st.object) : st \in Statements("title")}
    \cup {HasOccurrence(resource(st.subject), content(st.object)) :
            st \in Statements("description")}
    \cup {HasName(named(<<st.object>>), st.object) : st \in Statements("subject")}
    \cup {HasOccurrence(named(<<st.object>>), resource(st.subject)) :
            st \in Statements("subject")}

\* Descriptions are not identified by their text: each statement makes one.
Descriptions(s, o) ==
    {<<k, i>> \in (DOMAIN texts) \X (1..options.length) :
        i \in DOMAIN texts[k] /\ texts[k][i] = [subject |-> s,
                                    predicate |-> "description", object |-> o]}

-----------------------------------------------------------------------------

Lines_ == options.mode = "lines"

Facts == IF Lines_ THEN UNION {LineFacts(texts[k]) : k \in DOMAIN texts}
         ELSE StatementFacts

\* The names given in the files, each with what it is given to.
Names ==
    IF Lines_ THEN {<<named(n), n>> : n \in UNION {LineNames(texts[k]) : k \in DOMAIN texts}}
    ELSE {<<resource(st.subject), <<st.object>>>> : st \in Statements("title")}
         \cup {<<named(<<st.object>>), <<st.object>>>> : st \in Statements("subject")}

Dates == IF Lines_ THEN {} ELSE Statements("date")

Players(fact) == {fact.members[r] : r \in DOMAIN fact.members}
Spoken ==
    UNION {{f.type} \cup DOMAIN f.members \cup Players(f) : f \in Facts}
        \cup {pair[1] : pair \in Names}
        \cup {resource(st.subject) : st \in Dates}

\* The topics of the map that are what is spoken of.
Denotes(who, t) ==
    CASE who.is = "psi" -> Value(t, "SubjectIndicators") # NoValue
                           /\ who.text \subseteq Value(t, "SubjectIndicators")
      [] who.is = "named" -> Value(t, "BaseNames") # NoValue
                             /\ who.text \in Value(t, "BaseNames")
      [] who.is = "resource" -> Value(t, "SubjectAddress") = who.text
      [] who.is = "indicated" -> Value(t, "IndicatorData") = who.text
      [] who.is = "content" -> Value(t, "SubjectData") = who.text

Topics(who) == {t \in Live : Denotes(who, t)}
TheTopic(who) == CHOOSE t \in Live : Denotes(who, t)

ModelTopic(t) ==
    \E m \in Complete : \E i \in DOMAIN SubjectsOf(m) : HasValues(t, SubjectsOf(m)[i])

\* The assertions of the map that say what a fact does.
Says(a, fact) ==
    LET asidp == GetProperty(a, ASidp)
    IN /\ Denotes(fact.type, asidp.type)
       /\ Cardinality(DOMAIN asidp.members) = Cardinality(DOMAIN fact.members)
       /\ \A r \in DOMAIN fact.members :
            \E q \in DOMAIN asidp.members :
                Denotes(r, q) /\ Denotes(fact.members[r], asidp.members[q])

Assertions == {a \in Live : GetProperty(a, ASidp) # NoValue}

\* All that was to be read has been read and merged into the map.
MergedReading ==
    /\ pc \in {"ask", "query", "dump"} /\ status = "ok"
    /\ options.merge /\ ~options.stdin

NamesOf(t) == {pair[2] : pair \in {q \in Names : Denotes(q[1], t)}}

\* When the files have been read, the map is what they say, of whatever lines
\* in whatever order, and in however many files: one topic for everything that
\* is spoken of, one assertion for every fact, descriptions excepted, a name
\* and a date where they were given, and nothing else.
MapAsWritten ==
    MergedReading =>
        /\ \A who \in Spoken : who.is # "content" => Cardinality(Topics(who)) = 1
        /\ \A a \in Assertions : \E f \in Facts : Says(a, f)
        /\ \A f \in Facts :
             Cardinality({a \in Assertions : Says(a, f)}) = 1
             \/ \E st \in Statements("description") :
                  f = HasOccurrence(resource(st.subject), content(st.object))
        /\ Lines_ \/ \A st \in Statements("description") :
             Cardinality({a \in Assertions :
                 Says(a, HasOccurrence(resource(st.subject), content(st.object)))})
               = Cardinality(Descriptions(st.subject, st.object))
        /\ \A t \in Live :
             /\ \/ t \in Assertions \/ ModelTopic(t)
                \/ \E who \in Spoken : Denotes(who, t)
             /\ NamesOf(t) = IF ~Known(Sam("BaseNames")) \/ Value(t, "BaseNames") = NoValue
                             THEN {} ELSE Value(t, "BaseNames")
        /\ \A st \in Dates :
             GetProperty(TheTopic(resource(st.subject)), Key(DC, "Date"))
               = <<st.object>>

-----------------------------------------------------------------------------
(* Views. *)

OrNoValue(names) == IF names = {} THEN NoValue ELSE names

FactsOf(type) == {f \in Facts : f.type = psi(type)}
WithPlayer(type, role, t) ==
    {f \in FactsOf(type) : psi(role) \in DOMAIN f.members
                             /\ Denotes(f.members[psi(role)], t)}

\* What is to be told of an occurrence: text, or a resource and its names.
Told(what) ==
    [data    |-> IF what.is = "content" THEN what.text ELSE NoValue,
     address |-> IF what.is = "resource" THEN what.text ELSE NoValue,
     title   |-> IF what.is = "content" THEN NoValue
                 ELSE OrNoValue(NamesOf(TheTopic(what)))]

IndexExpected ==
    {[names |-> NamesOf(TheTopic(named(<<st.object>>))), address |-> <<st.subject>>,
      title |-> Told(resource(st.subject)).title] :
        st \in {s \in Statements("subject") :
                  ~\E r \in Spoken : r.is = "resource"
                        /\ Denotes(r, TheTopic(named(<<s.object>>)))}}

IndexPrinted ==
    {[names |-> x.names, address |-> x.address, title |-> x.title] : x \in shown.printed}

HitsExpected(word) ==
    {NamesOf(t) : t \in {u \in Live : \E n \in NamesOf(u) : word \in ToSet(n)}}

OccurrencesExpected(t) ==
    {Told(f.members[psi("role-occurrence")]) :
        f \in WithPlayer("at-occurring-occurrence", "role-occurring", t)}

OccurrencesPrinted ==
    {[data |-> x.data, address |-> x.address, title |-> x.title] :
        x \in {y \in shown.printed : y.event = "occurrence"}}

TopicPrinted ==
    {[address |-> x.address, names |-> x.basenames] :
        x \in {y \in shown.printed : y.event = "topic"}}

TopicExpected(t) ==
    [address |-> IF \E r \in Spoken : r.is = "resource" /\ Denotes(r, t)
                 THEN (CHOOSE r \in Spoken : r.is = "resource" /\ Denotes(r, t)).text
                 ELSE NoValue,
     names |-> OrNoValue(NamesOf(t))]

PlayingsExpected(t, type, role, other) ==
    {OrNoValue(NamesOf(TheTopic(f.members[psi(other)]))) : f \in WithPlayer(type, role, t)}

PlayingsPrinted ==
    {x.basenames : x \in {y \in shown.printed : y.event = "role_playing"}}

\* The last value given for a parameter counts.
Given(params, name) == params[Max({i \in DOMAIN params : params[i][1] = name})][2]
Asked_(name) == Given(Parsed(shown.query).params, name)

AsWritten ==
    LET q == Parsed(shown.query)
    IN CASE q.view = "index" -> IndexPrinted = IF Lines_ THEN {} ELSE IndexExpected
         [] q.view = "hitlist" ->
              {x.names : x \in shown.printed} = HitsExpected(Asked_("query"))
         [] q.view = "topic" ->
              /\ TopicPrinted = {TopicExpected(Asked_("topic"))}
              /\ OccurrencesPrinted = OccurrencesExpected(Asked_("topic"))
         [] q.view = "role_playings" ->
              PlayingsPrinted = PlayingsExpected(Asked_("topic"), Asked_("at"),
                                                 Asked_("role"), Asked_("other_role"))

\* A question that has an answer.
WellAsked(q) ==
    CASE q.view = "index" -> TRUE
      [] q.view = "topic" -> HasParams(q.params, {"topic"}) /\ Given(q.params, "topic") > 0
      [] q.view = "hitlist" -> HasParams(q.params, {"query"})
      [] q.view = "role_playings" ->
           /\ HasParams(q.params, PlayingParams)
           /\ \A n \in PlayingParams \ {"topic"} :
                \E t \in Live : Denotes(psi(Given(q.params, n)), t)
      [] OTHER -> FALSE

Merges == options.merge /\ ~options.stdin

\* A view is printed when there is one to print: the standard model is loaded,
\* the question is complete and, for thesaurus files, what was read has been
\* merged.  It then reports everything that the files state about the topics
\* it is about and nothing else, whatever merging has made of their topics.
\* A list of the models has all those that were asked for.
ViewsReportAll ==
    shown # Nothing /\ status = "ok" /\ hasMap =>
        /\ shown.rc = "ok" <=>
             /\ shown.rc # "listed"
             /\ \E m \in Complete : m.name = SAM
             /\ WellAsked(Parsed(shown.query))
             /\ \/ Merges \/ ~Lines_
                \/ \A k \in DOMAIN texts : \A i \in DOMAIN texts[k] : Blank(texts[k][i])
        /\ shown.rc = "ok" /\ Merges => AsWritten
        /\ shown.rc = "listed" =>
             {Core} \cup {options.add[i] : i \in DOMAIN options.add}
                 \subseteq shown.printed

-----------------------------------------------------------------------------
(* How a run ends. *)

\* A model file that says something of a property that is not there.
Declared(name) ==
    LET f == File[name]
    IN {f[i].text : i \in {j \in 3..Len(f) :
          /\ f[j].is = "text"
          /\ f[j - 1].is = "start" /\ f[j - 1].el = "name"
          /\ f[j - 2].is = "start" /\ f[j - 2].el = "property"}}

ModelWrong(f) ==
    \E i \in DOMAIN f :
        /\ f[i].is = "start"
        /\ \/ f[i].el = "propval" /\ f[i].prop \notin Declared(f[i].model)
           \/ f[i].el = "valueType" /\ f[i + 1].text \notin ValueTypes

\* A relation before any term, or two for one type that differ in the roles.
LinesWrong(text) ==
    \/ \E i \in Stating(text) : TermsBefore(text, i) = {}
    \/ \E i, j \in Stating(text) :
         LET r == RuleOf[Head(text[i])]
             s == RuleOf[Head(text[j])]
         IN r.at = s.at /\ {r.active, r.passive} # {s.active, s.passive}

LacksRoles(type, names) ==
    \E f \in FactsOf(type) : \E n \in names : psi(n) \notin DOMAIN f.members

QueryWrong(q) ==
    CASE q.view \in {"index", "topic"} ->
           LacksRoles("at-occurring-occurrence", {"role-occurring", "role-occurrence"})
      [] q.view = "role_playings" ->
           Given(q.params, "topic") = 0
             \/ LacksRoles(Given(q.params, "at"), {Given(q.params, "other_role")})
      [] OTHER -> FALSE

\* The asserts that what the user gives can make fail.
InputWrong ==
    CASE parsers # <<>> -> ModelWrong(File[Top.file])
      [] pc = "prepare" -> Lines_ /\ \E i \in DOMAIN options.config :
                                       options.config[i].do = "unknown"
      [] pc = "read" -> Lines_ /\ LinesWrong(thesaurus.written)
      [] shown.rc = "aborted" -> QueryWrong(Parsed(shown.query))
      [] OTHER -> FALSE

ParsesRdfOnly == options.parseOnly /\ options.pm = "rdf_common"

\* However the options are combined, whatever is in the files and however the
\* models require each other, tm comes to its end or to the prompt again, with
\* its exit code or by an assert that is one about the input; the asserts in
\* which the library checks itself do not fail, and no freed list is read.  Not
\* claimed of -P with rdf_common: to "only process maps" (tm.c:411), it runs
\* into an assert in which omnivore checks rdf_common (omnivore.c:686).
RunsEnd ==
    ~ParsesRdfOnly =>
        []<>(\/ status = "ok" /\ (pc \in {"done", "exit"} \/ Waiting)
             \/ status = "aborted" /\ InputWrong)

\* Every variable has its type; the bounds of the model are not reached, and
\* a line never fills its buffer.
ProgramTypeOK ==
    /\ \A p \in Prop : stores[p] \in StoreType(Range(stores[p].value))
    /\ last \in 0..Cardinality(Topic) /\ calls \in 0..(MaxCalls - 1)
    /\ disposed \subseteq Created
    /\ status \in {"ok", "aborted", "undefined"}
    /\ openFiles \in 0..MaxOpen /\ Len(parsers) <= openFiles
    /\ answer.rc \in {"none", "ok", "failed"}
    /\ \A i \in DOMAIN parsers :
         /\ parsers[i].file \in DOMAIN File
         /\ parsers[i].at \in 1..(Len(File[parsers[i].file]) + 1)
    /\ ToSet(modelNames) \subseteq {models[i].name : i \in DOMAIN models}
    /\ \A i \in DOMAIN loads :
         loads[i].step \in {"enter", "lookup", "requires", "subjects", "merge"}
    /\ stage \in {"none", "config", "models", "dc", "ready", "failed"}
    /\ ToSet(made) \subseteq Created
    /\ handler \in {"none", "assert", "error"}
    /\ {ovError, hasMap} \subseteq BOOLEAN
    /\ Len(thesaurus.buf) < BufSize
    /\ thesaurus.current \in 0..last
    /\ Range(resources.table) \subseteq Created
    /\ pc \in {"start", "open", "models", "input", "prepare", "read", "merge",
               "end", "ask", "query", "dump", "close", "done",
               "exit"}
    /\ map \in 1..(IF options.stdin THEN 2 ELSE Len(options.maps) + 1)
    /\ Len(texts) <= map /\ typed \in 0..options.inputs

=============================================================================
