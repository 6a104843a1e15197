----------------------------- MODULE RdfReading -----------------------------
(***************************************************************************)
(* RDF files: the handlers that src/src/omnivore.c gives to raptor, and    *)
(* the processing model of src/www-df/rdf_common.c, which knows four       *)
(* elements of Dublin Core.  A statement is a record [subject, predicate,  *)
(* object]; the predicates of one element are one here.                    *)
(***************************************************************************)
EXTENDS Reading

VARIABLE resources   \* struct data: r_table, and the topics found by _init

DC == "DC"

PSIs == {"at-class-instance", "role-class", "role-instance",
         "at-basenamed-basename", "role-basenamed", "role-basename",
         "at-occurring-occurrence", "role-occurring", "role-occurrence"}

NewResources == [table |-> <<>>, psi |-> <<>>, written |-> <<>>]

-----------------------------------------------------------------------------
(* _init *)

RdfInit ==
    /\ resources' = NewResources
    /\ stage' = IF hasMap THEN "dc" ELSE "ready"

RequireDC ==
    /\ Asking("dc")
    /\ RequireModel(DC)
    /\ UNCHANGED <<vars, tmadlVars, readingVars, resources>>

\* Each lookup is asserted to succeed, and each topic to be there.
LookupPSIs ==
    /\ Answered("dc")
    /\ IF AllIndicated(PSIs) = "ok"
       THEN /\ resources' = [resources EXCEPT !.psi = [n \in PSIs |-> The(n)]]
            /\ stage' = "ready"
            /\ UNCHANGED status
       ELSE status' = "aborted" /\ UNCHANGED <<resources, stage>>
    /\ result' = "none"
    /\ UNCHANGED <<core, phase, at, todo, rc, calls, history, tmadlVars, models,
                   modelNames, transactions, loads, ended, jobs, made, handler,
                   ovError, hasMap>>

-----------------------------------------------------------------------------
(* The handlers. *)

Sam(name) == Key(SAM, name)
Psi(name) == resources.psi[name]

\* The topic of a resource: the one in the table, or the first that is made.
HasTopic(uri) == uri \in DOMAIN resources.table
NewTopicFor(uri, more) ==
    IF HasTopic(uri) THEN <<>>
    ELSE <<Subject(<< <<Sam("SubjectAddress"), <<uri>> >> >> \o more),
           [do |-> "remember", key |-> uri]>>
TopicFor(uri) == IF HasTopic(uri) THEN resources.table[uri] ELSE -1
Behind(uri, k) == IF HasTopic(uri) THEN -k ELSE -(k + 1)

Text_(p, text) == << <<Sam(p), <<text>> >> >>

BaseNamed(t, basename) ==
    Assertion(Psi("at-basenamed-basename"),
           (Psi("role-basenamed") :> t) @@ (Psi("role-basename") :> basename))

Occurring(t, occurrence) ==
    Assertion(Psi("at-occurring-occurrence"),
           (Psi("role-occurring") :> t) @@ (Psi("role-occurrence") :> occurrence))

dc_title(s, o) ==
    NewTopicFor(s, <<>>)
    \o <<Property(TopicFor(s), Sam("BaseNames"), {<<o>>}),
         Subject(Text_("IndicatorData", o)),
         BaseNamed(TopicFor(s), Behind(s, 1))>>

dc_description(s, o) ==
    NewTopicFor(s, <<>>)
    \o <<Subject(Text_("SubjectData", o)),
         Occurring(TopicFor(s), Behind(s, 1))>>

dc_subject(s, o) ==
    NewTopicFor(s, <<>>)
    \o <<Subject(Text_("IndicatorData", o)),
         Subject(<< <<Sam("BaseNames"), {<<o>>}>> >>),
         BaseNamed(Behind(s, 2), Behind(s, 1)),
         Occurring(Behind(s, 2), TopicFor(s))>>

dc_date(s, o) ==
    LET date == Key(DC, "Date")
    IN IF HasTopic(s) THEN <<Property(TopicFor(s), date, <<o>>)>>
       ELSE NewTopicFor(s, << <<date, <<o>> >> >>)

JobsOf(st) ==
    CASE st.predicate = "title" -> dc_title(st.subject, st.object)
      [] st.predicate = "description" -> dc_description(st.subject, st.object)
      [] st.predicate = "subject" -> dc_subject(st.subject, st.object)
      [] st.predicate = "date" -> dc_date(st.subject, st.object)

HandledPredicates == {"title", "description", "subject", "date"}

RememberJob ==
    /\ NextJob("remember")
    /\ resources' = [resources EXCEPT !.table = (Head(jobs).key :> Last(made)) @@ @]
    /\ UNCHANGED <<vars, tmadlVars, loadVars, made, stage, handler, ovError,
                   hasMap>>

-----------------------------------------------------------------------------
(* _raptor_statement_hdl and the error handlers. *)

\* Without a map the handlers return 1, which is no success but for dates, and
\* the assert on the error string fails.
Statement(st) ==
    /\ Ready
    /\ IF st.predicate \notin HandledPredicates
          \/ (~hasMap /\ st.predicate = "date")
       THEN Handle(<<>>, "error") /\ UNCHANGED status
       ELSE IF ~hasMap
       THEN status' = "aborted" /\ UNCHANGED <<jobs, made, handler>>
       ELSE /\ Handle(JobsOf(st),
                      IF st.predicate = "date" THEN "error" ELSE "assert")
            /\ UNCHANGED status
    /\ resources' = [resources EXCEPT !.written = Append(@, st)]
    /\ UNCHANGED <<core, phase, at, todo, rc, calls, history, tmadlVars,
                   loadVars, stage, ovError, hasMap>>

\* A warning of raptor is taken as an error too.
RaptorComplains ==
    /\ Ready
    /\ SetError
    /\ UNCHANGED <<vars, tmadlVars, loadVars, resources, stage, jobs, made,
                   handler, hasMap>>

RdfStep ==
    \/ RequireDC
    \/ LookupPSIs
    \/ RememberJob

=============================================================================
