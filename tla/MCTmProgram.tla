---------------------------- MODULE MCTmProgram ----------------------------
(***************************************************************************)
(* tm with small models, thesaurus files of a few lines and RDF files of a *)
(* few statements.  SAM is the part of www-df/disclosures/SAM.xml that the *)
(* processing models use; its topics get the numbers 1 to 12.              *)
(***************************************************************************)
EXTENDS TmPromises

-----------------------------------------------------------------------------
(* Model files, as the events of the parser. *)

S(el) == <<[is |-> "start", el |-> el, model |-> "", prop |-> ""]>>
E == <<[is |-> "end"]>>
T(text) == <<[is |-> "text", text |-> text]>>

El(el, inner) == S(el) \o inner \o E
Leaf(el, text) == El(el, T(text))
Propval(model, prop, text) ==
    <<[is |-> "start", el |-> "propval", model |-> model, prop |-> prop]>>
        \o T(text) \o E
Psi_(name) == Propval("SAM", "SubjectIndicators", name)

PropertyEl(name, type, sidp) ==
    El("property",
       Leaf("name", name) \o Leaf("valueType", type) \o Leaf("sidp", sidp))
Combining(name) ==
    El("property",
       Leaf("name", name) \o Leaf("valueType", "TextSet") \o Leaf("sidp", "yes")
         \o Leaf("equality", "NOT_DISJOINT") \o Leaf("combination", "union"))

AssertionTypeEl(type, r1, r2) ==
    El("assertionType",
       Psi_(type) \o El("role", Psi_(r1)) \o El("role", Psi_(r2)))

Tma(name, inner) == El("tma", Leaf("name", name) \o inner)

SAMFile ==
    Tma("SAM",
        PropertyEl("SubjectAddress", "Text", "yes")
        \o Combining("SubjectIndicators")
        \o Combining("BaseNames")
        \o PropertyEl("SubjectData", "Text", "no")
        \o PropertyEl("IndicatorData", "Text", "yes")
        \o AssertionTypeEl("at-basenamed-basename", "role-basenamed",
                           "role-basename")
        \o AssertionTypeEl("at-occurring-occurrence", "role-occurring",
                           "role-occurrence")
        \o AssertionTypeEl("at-class-instance", "role-class", "role-instance")
        \o AssertionTypeEl("at-superclass-subclass", "role-superclass",
                           "role-subclass"))

\* DC and HIERARCHY as they are; then models that are wrong in some way.
MCFile ==
    [SAM    |-> SAMFile,
     DC     |-> Tma("DC", Leaf("require", "SAM")
                            \o PropertyEl("Date", "Text", "no")),
     H      |-> Tma("H", El("assertionType",
                            Leaf("name", "at-part-whole")
                            \o El("role", Leaf("name", "role-whole"))
                            \o El("role", Leaf("name", "role-part")))),
     Two    |-> Tma("Two", Leaf("require", "SAM") \o Leaf("require", "Lone")),
     Lone   |-> Tma("Lone", <<>>),
     Extra  |-> Tma("Extra", Leaf("require", "SAM")
                               \o El("topic", Psi_("at-class-instance"))
                               \o El("topic", Psi_("extra"))),
     Late   |-> Tma("Late", Leaf("require", "DC") \o Leaf("require", "Missing")),
     Loop   |-> Tma("Loop", Leaf("require", "Loop")),
     Bad    |-> Tma("Bad", Leaf("require", "SAM")
                             \o El("topic", Propval("SAM", "Nothing", "x"))),
     Typo   |-> Tma("Typo", Leaf("require", "SAM")
                              \o PropertyEl("P", "Number", "no")),
     Broken |-> S("tma") \o <<[is |-> "error"]>>,
     Tied   |-> Tma("Tied", PropertyEl("P", "Topic", "yes"))]

MCPropOrder ==
    <<"a-sidp", "t-sidp", "SAM::IndicatorData", "SAM::SubjectData",
      "SAM::BaseNames", "SAM::SubjectIndicators", "SAM::SubjectAddress",
      "DC::Date">>

MCKind ==
    [p \in ToSet(MCPropOrder) |->
        [sidp     |-> p \notin {"SAM::SubjectData", "DC::Date"},
         combines |-> p \in {"SAM::BaseNames", "SAM::SubjectIndicators"},
         topical  |-> p \in {"a-sidp", "t-sidp"}]]

-----------------------------------------------------------------------------
(* Queries: terms and resources of one file get the numbers from 13 on. *)

MCQueryOf ==
    ("VIEW index()" :> [view |-> "index", params |-> <<>>])
    @@ ("VIEW topic(topic=13)" :>
          [view |-> "topic", params |-> << <<"topic", 13>> >>])
    @@ ("VIEW topic(topic=1;topic=13)" :>
          [view |-> "topic", params |-> << <<"topic", 1>>, <<"topic", 13>> >>])
    @@ ("VIEW topic(topic=0)" :>
          [view |-> "topic", params |-> << <<"topic", 0>> >>])
    @@ ("VIEW hitlist(query=bus)" :>
          [view |-> "hitlist", params |-> << <<"query", "bus">> >>])
    @@ ("VIEW hitlist(q=bus)" :>
          [view |-> "hitlist", params |-> << <<"q", "bus">> >>])
    @@ ("VIEW role_playings(...)" :>
          [view |-> "role_playings",
           params |-> << <<"topic", 13>>, <<"at", "at-superclass-subclass">>,
                         <<"role", "role-superclass">>,
                         <<"other_role", "role-subclass">> >>])
    @@ ("VIEW role_playings(class)" :>
          [view |-> "role_playings",
           params |-> << <<"topic", 13>>, <<"at", "at-superclass-subclass">>,
                         <<"role", "role-superclass">>,
                         <<"other_role", "role-class">> >>])
    @@ ("VIEW role_playings(0)" :>
          [view |-> "role_playings",
           params |-> << <<"topic", 0>>, <<"at", "at-superclass-subclass">>,
                         <<"role", "role-superclass">>,
                         <<"other_role", "nobody">> >>])

Asked == {[is |-> "last", text |-> q] : q \in DOMAIN MCQueryOf}
SomeAsked(names) == {[is |-> "last", text |-> q] : q \in names}

-----------------------------------------------------------------------------
(* Command lines. *)

Base ==
    [df |-> "www-df", storage |-> "MemStore", add |-> <<>>, pm |-> "iso2788",
     mode |-> "lines", config |-> <<>>, readable |-> TRUE, maps |-> <<"file">>,
     stdin |-> FALSE, merge |-> TRUE, parseOnly |-> FALSE, interactive |-> FALSE,
     dump |-> FALSE, query |-> "", lines |-> {}, statements |-> {},
     typed |-> {}, length |-> 2, inputs |-> 1]

Lines == {<<"bus">>, <<"NT", "car">>, <<"NT", "bus">>}

Iso == [Base EXCEPT !.lines = Lines, !.query = "VIEW index()"]

Map_(rel, type, active, passive) ==
    [do |-> "Map", rule |-> IsoRule(rel, type, active, passive)]

\* BT is NT turned, ON makes its term an occurrence, and XX says nothing.
Config ==
    <<[do |-> "Require", model |-> "Extra"],
      Map_("BT", "at-superclass-subclass", "role-subclass", "role-superclass"),
      Map_("NT", "at-class-instance", "role-instance", "role-class"),
      Map_("NT", "at-class-instance", "role-class", "role-instance"),
      [do |-> "Ignore", rel |-> "XX"]>>

Configured ==
    [Iso EXCEPT !.config = Config,
                !.lines = {<<"bus">>, <<"BT", "car">>, <<"NT", "car">>,
                           <<"XX", "car">>}]

Odd(type, active, passive) ==
    [Iso EXCEPT !.config = <<Map_("ON", type, active, passive)>>,
                !.lines = {<<"bus">>, <<"ON", "car">>, <<"NT", "car">>},
                !.interactive = TRUE, !.length = 3,
                !.typed = SomeAsked({"VIEW index()", "VIEW topic(topic=13)",
                                     "VIEW role_playings(...)",
                                     "VIEW role_playings(class)"})]

St(s, p, o) == [subject |-> s, predicate |-> p, object |-> o]

Rdf ==
    [Base EXCEPT !.pm = "rdf_common", !.mode = "rdfxml",
                 !.query = "VIEW index()",
                 !.statements = {St("doc", "title", "bus"),
                                 St("doc", "description", "text"),
                                 St("doc", "subject", "bus"),
                                 St("doc", "subject", "car"),
                                 St("doc", "date", "1999"),
                                 St("page", "title", "bus"),
                                 St("page", "subject", "car"),
                                 St("doc", "creator", "me")}]

MCInvocations ==
    \* names that are not known, and maps that are not there
    {[Base EXCEPT !.df = "other"], [Base EXCEPT !.storage = "other"],
     [Base EXCEPT !.pm = "other"], [Base EXCEPT !.mode = "rdfxml"],
     [Base EXCEPT !.maps = <<"missing">>],
     [Iso EXCEPT !.maps = <<"url", "file">>, !.length = 1]}
    \cup
    \* models
    {[Base EXCEPT !.add = add, !.maps = <<>>, !.dump = TRUE,
                  !.query = "VIEW hitlist(query=bus)"] :
        add \in {<<>>, <<"Missing">>, <<"H">>, <<"H", "SAM">>, <<"SAM", "DC", "SAM">>, <<"Two">>,
                 <<"DC", "Extra">>, <<"Late">>, <<"Loop">>, <<"Bad">>,
                 <<"Typo">>, <<"Broken">>, <<"Tied">>}}
    \cup
    \* thesaurus files
    {[Iso EXCEPT !.length = 4, !.dump = TRUE],
     [Iso EXCEPT !.maps = <<"file", "file">>,
                 !.lines = {<<"bus">>, <<"NT", "car">>}],
     [Iso EXCEPT !.maps = <<"file", "file">>, !.merge = FALSE],
     [Iso EXCEPT !.stdin = TRUE],
     [Iso EXCEPT !.stdin = TRUE, !.merge = FALSE],
     [Iso EXCEPT !.parseOnly = TRUE, !.maps = <<"file", "file">>],
     [Iso EXCEPT !.lines = Lines \cup {<<"a", "long", "line", "indeed">>}],
     [Iso EXCEPT !.lines = Lines \cup {<<"#", "bus">>}, !.length = 3],
     [Configured EXCEPT !.length = 3],
     [Configured EXCEPT !.readable = FALSE],
     [Configured EXCEPT !.config = <<[do |-> "unknown"]>>],
     [Configured EXCEPT !.config = <<[do |-> "Require", model |-> "Late"]>>],
     Odd("at-superclass-subclass", "role-class", "role-subclass"),
     Odd("at-occurring-occurrence", "role-occurring", "role-occurrence"),
     Odd("at-occurring-occurrence", "role-subclass", "role-occurrence"),
     Odd("at-occurring-occurrence", "role-occurring", "role-subclass"),
     Odd("at-superclass-subclass", "nothing", "role-subclass"),
     [Iso EXCEPT !.interactive = TRUE, !.query = "", !.inputs = 2,
         !.add = <<"DC">>,
         !.typed = {[is |-> "command"], [is |-> "list"], [is |-> "quit"],
                    [is |-> "piece", text |-> "VIEW "]}
                   \cup Asked \cup {[is |-> "last", text |-> "index()"]}]}
    \cup
    \* RDF files
    {[Rdf EXCEPT !.interactive = TRUE, !.dump = TRUE,
         !.typed = SomeAsked({"VIEW index()", "VIEW topic(topic=13)",
                              "VIEW topic(topic=1;topic=13)",
                              "VIEW topic(topic=0)", "VIEW hitlist(query=bus)"})],
     [Rdf EXCEPT !.length = 3,
                 !.statements = {st \in @ : st.predicate # "date"
                                              /\ st.predicate # "creator"}],
     [Rdf EXCEPT !.maps = <<"file", "file">>, !.length = 1],
     [Rdf EXCEPT !.maps = <<"file", "file">>, !.length = 1, !.merge = FALSE],
     [Rdf EXCEPT !.stdin = TRUE, !.length = 1],
     [Rdf EXCEPT !.parseOnly = TRUE],
     [Rdf EXCEPT !.add = <<"DC">>, !.length = 1]}

=============================================================================
