------------------------------- MODULE Views -------------------------------
(***************************************************************************)
(* Views: tm_topicmap_query of src/src/topicmap.c, the parameters of       *)
(* src/src/params.c, the four view handlers of src/www-df/view_*.c, and    *)
(* the callbacks of src/apps/tm.c that print what a handler reports.       *)
(*                                                                         *)
(* A view handler reports events to the caller as it looks them up, and    *)
(* may fail in between.  The order in which topics are reported is that of *)
(* the stores and is left out: a view is rc and the set of its events.     *)
(***************************************************************************)
EXTENDS TopicQueries

FailedView(code) == [rc |-> code, events |-> {}]

-----------------------------------------------------------------------------
(* src/src/params.c: a list that is pushed, searched from its front. *)

NoParam == ""

Param(params, name) ==
    LET given_ == SelectSeq(params, LAMBDA p : p[1] = name)
    IN IF given_ = <<>> THEN NoParam ELSE Last(given_)[2]

HasParams(params, names) == \A n \in names : \E i \in DOMAIN params : params[i][1] = n

-----------------------------------------------------------------------------

SamP(name) == Key(SAM, name)
Value(t, name) == GetProperty(t, SamP(name))

\* getPlayer of the value type, 0 when the role is not there.
Player(a, role) ==
    LET members == GetProperty(a, ASidp).members
    IN IF role \in DOMAIN members THEN members[role] ELSE 0

OccurrenceTopics ==
    {"at-basenamed-basename", "role-basenamed", "role-basename",
     "at-occurring-occurrence", "role-occurring", "role-occurrence"}

Occurrences == Scanned(Single(ASidp, "HAS_TYPE", The("at-occurring-occurrence")))

\* What is told of an occurrence: the first base name is its title.  The field
\* of is the assertion that the event is reported for, which it does not name.
Occurrence(entry, a) ==
    LET o == Player(a, The("role-occurrence"))
    IN [event |-> "occurrence", of |-> a, entry |-> entry,
        data |-> Value(o, "SubjectData"),
        address |-> Value(o, "SubjectAddress"),
        title |-> Value(o, "BaseNames")]

-----------------------------------------------------------------------------
(* view_index.c *)

\* The topics that have occurrences and are no resources themselves.
Entries ==
    {t \in {Player(a, The("role-occurring")) : a \in Occurrences} :
        Value(t, "SubjectAddress") = NoValue}

Entry(t) == [event |-> "entry", topic |-> t, basenames |-> Value(t, "BaseNames")]

OccurrencesOf(t) == {a \in Occurrences : Player(a, The("role-occurring")) = t}

\* An occurrence without one of the two roles gives a topic 0, for which
\* get_property fails an assert.
LacksRole(as, role) == \E a \in as : Player(a, The(role)) = 0

Index ==
    IF AllIndicated(OccurrenceTopics) # "ok"
    THEN FailedView(AllIndicated(OccurrenceTopics))
    ELSE IF \/ LacksRole(Occurrences, "role-occurring")
            \/ \E t \in Entries :
                 LacksRole(OccurrencesOf(t), "role-occurrence")
    THEN FailedView("aborted")
    ELSE [rc |-> "ok",
          events |-> {[event |-> "index", count |-> Cardinality(Entries)]}
                     \cup {Entry(t) : t \in Entries}
                     \cup UNION {{Occurrence(t, a) : a \in OccurrencesOf(t)} :
                                  t \in Entries}]

-----------------------------------------------------------------------------
(* view_topic.c: the parameter must be a positive number, and it is taken as  *)
(* the number of a topic.                                                     *)

TopicOccurrences(t) ==
    Scanned(Both(Single(ASidp, "HAS_TYPE", The("at-occurring-occurrence")),
                   Single(ASidp, "HAS_PLAYER_PAIR",
                          <<The("role-occurring"), t>>)))

TopicView(t) ==
    [rc |-> "ok",
     events |-> {[event |-> "topic", topic |-> t,
                  address |-> Value(t, "SubjectAddress"),
                  indicators |-> Value(t, "SubjectIndicators"),
                  basenames |-> Value(t, "BaseNames")]}
                \cup {Occurrence(t, a) : a \in TopicOccurrences(t)}]

Topic_(params) ==
    IF AllIndicated(OccurrenceTopics) # "ok"
    THEN FailedView(AllIndicated(OccurrenceTopics))
    ELSE IF ~HasParams(params, {"topic"}) THEN FailedView("parameter expected")
    ELSE IF Param(params, "topic") <= 0 THEN FailedView("parse error")
    ELSE IF LacksRole(TopicOccurrences(Param(params, "topic")), "role-occurrence")
    THEN FailedView("aborted")
    ELSE TopicView(Param(params, "topic"))

-----------------------------------------------------------------------------
(* view_role_playings.c *)

PlayingParams == {"topic", "at", "role", "other_role"}

Playings(t, type, role) ==
    Scanned(Both(Single(ASidp, "HAS_TYPE", type),
                   Single(ASidp, "HAS_PLAYER_PAIR", <<role, t>>)))

Playing(a, other) ==
    LET player == Player(a, other)
    IN [event |-> "role_playing", of |-> a, topic |-> player,
        basenames |-> Value(player, "BaseNames")]

\* A topic 0, given or played, runs into an assert of get_property.
RolePlayings(params) ==
    LET named == {Param(params, n) : n \in PlayingParams \ {"topic"}}
        t     == Param(params, "topic")
        type  == The(Param(params, "at"))
        role  == The(Param(params, "role"))
        other == The(Param(params, "other_role"))
        found == Playings(t, type, role)
    IN IF AllIndicated({"at-basenamed-basename", "role-basenamed",
                        "role-basename"}) # "ok"
       THEN FailedView("topic not found")
       ELSE IF ~HasParams(params, PlayingParams)
       THEN FailedView("parameter expected")
       ELSE IF AllIndicated(named) # "ok" THEN FailedView(AllIndicated(named))
       ELSE IF t = 0 \/ \E a \in found : Player(a, other) = 0
       THEN FailedView("aborted")
       ELSE [rc |-> "ok",
             events |-> {[event |-> "role_playings", topic |-> t,
                          player |-> Value(t, "BaseNames"),
                          role |-> Value(role, "BaseNames"),
                          other |-> Value(other, "BaseNames")]}
                        \cup {Playing(a, other) : a \in found}]

-----------------------------------------------------------------------------
(* view_hitlist.c *)

Hitlist(params) ==
    IF AllIndicated(OccurrenceTopics) # "ok"
    THEN FailedView(AllIndicated(OccurrenceTopics))
    ELSE IF ~HasParams(params, {"query"}) THEN FailedView("parameter expected")
    ELSE [rc |-> "ok",
          events |->
             {[event |-> "hitlist", query |-> Param(params, "query")]}
             \cup {[event |-> "topic", topic |-> t,
                    basenames |-> Value(t, "BaseNames")] :
                   t \in Scanned(Single(SamP("BaseNames"), "LIKE",
                                          Param(params, "query")))}]

-----------------------------------------------------------------------------
(* lookup_viewhandler and tm_topicmap_query.  A query is what the text has    *)
(* been found to be, [view, params]; view "" stands for a text that is not    *)
(* "VIEW name(parameters)".                                                   *)

ViewHandlers == {"index", "topic", "role_playings", "hitlist"}

View(query) ==
    IF query.view \notin ViewHandlers THEN FailedView("syntax")
    ELSE CASE query.view = "index" -> Index
           [] query.view = "topic" -> Topic_(query.params)
           [] query.view = "role_playings" -> RolePlayings(query.params)
           [] query.view = "hitlist" -> Hitlist(query.params)

-----------------------------------------------------------------------------
(* The callbacks of src/apps/tm.c for text output, encoding "plain".          *)

\* index_start: a line for every occurrence that has an address, with the base
\* names of the entry reported last; data comes before an address.
IndexLines(events) ==
    {[of |-> o.of, names |-> e.basenames, address |-> o.address, title |-> o.title] :
        o \in {x \in events : /\ x.event = "occurrence"
                              /\ x.address # NoValue /\ x.data = NoValue},
        e \in {x \in events : x.event = "entry"}}

EntryLines(events) ==
    UNION {IndexLines({e} \cup {o \in events : o.event = "occurrence"
                                                  /\ o.entry = e.topic}) :
           e \in {x \in events : x.event = "entry"}}

\* hitlist_start: a line for every topic, as all have base names.
HitLines(events) ==
    {[of |-> x.topic, names |-> x.basenames] :
        x \in {y \in events : y.event = "topic" /\ y.basenames # NoValue}}

\* _find_view_handler: the views that are printed in a way of their own.
OwnCallbacks == {"index", "hitlist"}

\* vstart: the other views are printed as they are reported.  What is called
\* at the end of an event prints nothing.
Printed(view, events) ==
    IF view \notin OwnCallbacks THEN events
    ELSE CASE view = "index" -> EntryLines(events)
           [] view = "hitlist" -> HitLines(events)

=============================================================================
