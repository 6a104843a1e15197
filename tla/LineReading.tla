---------------------------- MODULE LineReading ----------------------------
(***************************************************************************)
(* Thesaurus files: the line parser of src/src/omnivore.c and the          *)
(* processing model of src/www-df/iso2788.c.                               *)
(*                                                                         *)
(* A line is a sequence of words.  One whose first word is a relation      *)
(* ("NT": a narrower term, "HI": an instance) says something of the term   *)
(* that was named last; any other line names a term and makes it current.  *)
(* A config file may require models and define or ignore relations.        *)
(***************************************************************************)
EXTENDS Reading

CONSTANT BufSize     \* the line buffer, in words
ASSUME LineAssumption == BufSize \in Nat

VARIABLE thesaurus   \* struct iso2788data, and the buffer of the line parser

IsoRule(rel, type, active, passive) ==
    [rel |-> rel, at |-> type, active |-> active, passive |-> passive]

\* The table of rules; they are pushed, so that the last is found first.
NarrowerTerm ==
    IsoRule("NT", "at-superclass-subclass", "role-superclass", "role-subclass")
HasInstance == IsoRule("HI", "at-class-instance", "role-class", "role-instance")

\* tm_line_parser_new
NewBuffer == <<>>

NewThesaurus(config) ==
    [config |-> config, models |-> <<SAM>>, rules |-> <<HasInstance, NarrowerTerm>>,
     ignores |-> {}, current |-> 0, buf |-> NewBuffer, written |-> <<>>]

-----------------------------------------------------------------------------
(* _init and _read_config *)

\* The config file, if one is named, must be readable.
IsoInit(config, readable) ==
    /\ thesaurus' = NewThesaurus(config)
    /\ stage' = IF ~hasMap THEN "ready" ELSE IF readable THEN "config" ELSE "failed"

Command == Head(thesaurus.config)

ConfigLine ==
    /\ Asking("config")
    /\ thesaurus.config # <<>>
    /\ \/ /\ Command.do = "Require"
          /\ RequireModel(Command.model)
          /\ UNCHANGED <<thesaurus, status>>
       \/ /\ Command.do = "Map"
          /\ thesaurus' = [thesaurus EXCEPT !.config = Tail(@),
                                            !.rules = <<Command.rule>> \o @]
          /\ UNCHANGED <<loadVars, status>>
       \/ /\ Command.do = "Ignore"
          /\ thesaurus' = [thesaurus EXCEPT !.config = Tail(@),
                                            !.ignores = @ \cup {Command.rel}]
          /\ UNCHANGED <<loadVars, status>>
       \/ /\ Command.do = "unknown"
          /\ status' = "aborted"
          /\ UNCHANGED <<loadVars, thesaurus>>
    /\ UNCHANGED <<core, phase, at, todo, rc, calls, history, tmadlVars,
                   readingVars>>

ConfigRequired ==
    /\ Answered("config")
    /\ thesaurus' = [thesaurus EXCEPT !.config = Tail(@)]
    /\ result' = "none"
    /\ UNCHANGED <<vars, tmadlVars, readingVars, models, modelNames,
                   transactions, loads, ended>>

ConfigRead ==
    /\ Asking("config")
    /\ thesaurus.config = <<>>
    /\ stage' = "models"
    /\ UNCHANGED <<vars, tmadlVars, loadVars, thesaurus, jobs, made, handler,
                   ovError, hasMap>>

ModelsRequired ==
    /\ Asking("models")
    /\ thesaurus.models # <<>>
    /\ RequireModel(Head(thesaurus.models))
    /\ UNCHANGED <<vars, tmadlVars, readingVars, thesaurus>>

ModelRequired ==
    /\ Answered("models")
    /\ thesaurus' = [thesaurus EXCEPT !.models = Tail(@)]
    /\ result' = "none"
    /\ UNCHANGED <<vars, tmadlVars, readingVars, models, modelNames,
                   transactions, loads, ended>>

RuleTopics(r) == {r.at, r.active, r.passive}

RuleWithTopics(r) ==
    [rel |-> r.rel, type |-> The(r.at), active |-> The(r.active),
     passive |-> The(r.passive)]

RulesLookedUp ==
    /\ Asking("models")
    /\ thesaurus.models = <<>>
    /\ IF AllIndicated(UNION {RuleTopics(r) : r \in Range(thesaurus.rules)}) = "ok"
       THEN /\ thesaurus' = [thesaurus EXCEPT !.rules =
                   [i \in DOMAIN @ |-> RuleWithTopics(@[i])]]
            /\ stage' = "ready"
       ELSE stage' = "failed" /\ UNCHANGED thesaurus
    /\ UNCHANGED <<vars, tmadlVars, loadVars, jobs, made, handler, ovError,
                   hasMap>>

-----------------------------------------------------------------------------
(* _handle and _handle_line *)

\* A term: its name, and the locator that is made of it.
ItemOf(name) == <<"items">> \o name

Term(name) ==
    << <<Key(SAM, "BaseNames"), {name}>>,
       <<Key(SAM, "SubjectIndicators"), {ItemOf(name)}>> >>

RulesFor(rel) == SelectSeq(thesaurus.rules, LAMBDA r : r.rel = rel)

\* A slip of Relation: the roles are confused.
RelationBackwards(rule, other) ==
    <<Subject(Term(other)),
      Assertion(rule.type, (rule.passive :> thesaurus.current)
                            @@ (rule.active :> -1))>>

Relation(rule, other) ==
    <<Subject(Term(other)),
      Assertion(rule.type, (rule.passive :> -1)
                            @@ (rule.active :> thesaurus.current))>>

NamesTerm(line) ==
    Len(line) = 1 \/ (Head(line) \notin thesaurus.ignores
                        /\ RulesFor(Head(line)) = <<>>)

States(line) == Len(line) > 1 /\ ~NamesTerm(line)
                    /\ Head(line) \notin thesaurus.ignores

Rule(line) == Head(RulesFor(Head(line)))

IsComment(line) == line = <<>> \/ Head(line) = "#"

\* Nothing is done for blank lines and comments.  A relation needs a current
\* term.
HandleLine(line) ==
    IF ~hasMap \/ IsComment(line) THEN Handle(<<>>, "assert") /\ UNCHANGED status
    ELSE IF NamesTerm(line)
    THEN Handle(<<Subject(Term(line)), [do |-> "current"]>>, "assert")
         /\ UNCHANGED status
    ELSE IF ~States(line) THEN Handle(<<>>, "assert") /\ UNCHANGED status
    ELSE IF thesaurus.current = 0
    THEN status' = "aborted" /\ UNCHANGED <<jobs, made, handler>>
    ELSE Handle(Relation(Rule(line), Tail(line)), "assert") /\ UNCHANGED status

CurrentJob ==
    /\ NextJob("current")
    /\ thesaurus' = [thesaurus EXCEPT !.current = made[1]]
    /\ UNCHANGED <<vars, tmadlVars, loadVars, made, stage, handler, ovError,
                   hasMap>>

-----------------------------------------------------------------------------
(* tm_line_parser_handle_chunk: characters go to the buffer, and a newline    *)
(* hands it over; how lines are split over chunks does not matter.            *)

\* A slip of Fits: one character too many.
FitsExactly(buf) == Len(buf) <= BufSize

Fits(buf) == Len(buf) < BufSize

Characters(words) ==
    /\ Ready
    /\ IF Fits(thesaurus.buf \o words)
       THEN /\ thesaurus' = [thesaurus EXCEPT !.buf = @ \o words]
            /\ UNCHANGED ovError
       ELSE SetError /\ UNCHANGED thesaurus
    /\ UNCHANGED <<vars, tmadlVars, loadVars, stage, jobs, made, handler, hasMap>>

\* written is the history of the lines handed over.
Newline ==
    /\ Ready
    /\ HandleLine(thesaurus.buf)
    /\ thesaurus' = [thesaurus EXCEPT !.buf = NewBuffer,
                                      !.written = Append(@, thesaurus.buf)]
    /\ UNCHANGED <<core, phase, at, todo, rc, calls, history, tmadlVars,
                   loadVars, stage, ovError, hasMap>>

IsoStep ==
    \/ ConfigLine
    \/ ConfigRequired
    \/ ConfigRead
    \/ ModelsRequired
    \/ ModelRequired
    \/ RulesLookedUp
    \/ CurrentJob

=============================================================================
