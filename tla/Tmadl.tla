------------------------------- MODULE Tmadl -------------------------------
(***************************************************************************)
(* How the disclosure framework finds a model: src/www-df/df.c opens the   *)
(* file that stands for the model's name and src/www-df/tmadl_parse.c      *)
(* reads it with expat.                                                    *)
(*                                                                         *)
(* expat calls start, char_data and end for what is in the file, and every *)
(* callback is an action.  At the end of a require element the callback    *)
(* itself looks the required model up, so that parsers are nested: parsers *)
(* is the stack of them, and a parser below the top waits in its callback. *)
(* Blank text between elements is left out, and so are descriptions.       *)
(***************************************************************************)
EXTENDS TopicMap

CONSTANTS
    File,        \* File[name]: what is in the file that stands for name
    MaxOpen      \* the number of files that can be open at a time

\* An event of a file is [is |-> "start", el, model, prop] (the attributes of
\* propval), [is |-> "text", text], [is |-> "end"] or [is |-> "error"], the
\* place where the file is not well-formed.
ASSUME TmadlAssumption == MaxOpen \in Nat

VARIABLES
    parsers,     \* the stack of struct user_data, the running one last
    answer,      \* what the last lookup of a model has returned
    openFiles    \* the number of open files

tmadlVars == <<parsers, answer, openFiles>>

\* The table of src/src/tm.c, for tm_lookup_valuetype.
ValueTypes == {"Topic", "TopicSet", "Text", "Integer", "TextSet", "ASIDP"}

SAM == "SAM"

Key(model, name) == IF model = "RM-Core" THEN name ELSE model \o "::" \o name

NoAnswer == [rc |-> "none"]
Failure == [rc |-> "failed"]
Found(model) == [rc |-> "ok", model |-> model]

-----------------------------------------------------------------------------
(* src/src/model.c *)

NoProperty == [name |-> ""]

OwnProperty(model, name) ==
    SelectSeq(model.properties, LAMBDA p : p.name = name)

FirstOf(list) == IF list = <<>> THEN NoProperty ELSE Head(list)

\* tm_model_get_property: a property of the model itself or of one it requires.
ModelProperty(model, name, prop) ==
    LET required == SelectSeq(model.require, LAMBDA m : m.name = name)
    IN IF name = model.name THEN FirstOf(OwnProperty(model, prop))
       ELSE IF required = <<>> THEN NoProperty
       ELSE FirstOf(OwnProperty(Head(required), prop))

-----------------------------------------------------------------------------
(* lookup_model and _from_file *)

EmptyModel ==
    [name |-> "", properties |-> <<>>, atypes |-> <<>>, require |-> <<>>,
     subjects |-> <<>>]

NewParser(name) ==
    [file |-> name, at |-> 1, elements |-> <<>>, text |-> "", failed |-> FALSE,
     model |-> EmptyModel, property |-> NoProperty,
     assertionType |-> [subject |-> <<>>, roles |-> <<>>],
     role |-> [subject |-> <<>>], topic |-> [subject |-> <<>>],
     propval |-> [model |-> "", prop |-> ""]]

LookupModel(name) ==
    IF name \in DOMAIN File /\ openFiles < MaxOpen
    THEN /\ parsers' = Append(parsers, NewParser(name))
         /\ openFiles' = openFiles + 1
         /\ answer' = NoAnswer
    ELSE answer' = Failure /\ UNCHANGED <<parsers, openFiles>>

\* The parser that runs, and the next event in its file.
Top == Last(parsers)
Event == File[Top.file][Top.at]
AtEvent(is) ==
    /\ parsers # <<>> /\ status = "ok" /\ ~Top.failed
    /\ Top.at <= Len(File[Top.file])
    /\ Event.is = is

TopBecomes(parser) ==
    parsers' = [parsers EXCEPT ![Len(parsers)] = [parser EXCEPT !.at = @ + 1]]

-----------------------------------------------------------------------------
(* The callbacks.  TM_NEW leaves what it makes empty. *)

Started(parser, ev) ==
    LET p == [parser EXCEPT !.text = "", !.elements = Append(@, ev.el)]
    IN CASE ev.el = "tma" -> [p EXCEPT !.model = EmptyModel]
         [] ev.el = "property" ->
              [p EXCEPT !.property =
                  [name |-> "", model |-> p.model.name, valueType |-> "",
                   sidp |-> FALSE, combination |-> "", equality |-> ""]]
         [] ev.el = "assertionType" ->
              [p EXCEPT !.assertionType = [subject |-> <<>>, roles |-> <<>>]]
         [] ev.el \in {"role", "topic"} -> [p EXCEPT ![ev.el].subject = <<>>]
         [] ev.el = "propval" ->
              [p EXCEPT !.propval = [model |-> ev.model, prop |-> ev.prop]]
         [] OTHER -> p

Start_ ==
    /\ AtEvent("start")
    /\ TopBecomes(Started(Top, Event))
    /\ UNCHANGED <<answer, openFiles>>

TextElements == {"sidp", "combination", "equality", "name", "description",
                 "require", "propval", "valueType"}

CharData ==
    /\ AtEvent("text")
    /\ TopBecomes(IF Last(Top.elements) \in TextElements
                  THEN [Top EXCEPT !.text = @ \o Event.text] ELSE Top)
    /\ UNCHANGED <<answer, openFiles>>

Code == Last(Top.elements)
Outer == IF Len(Top.elements) > 1 THEN Top.elements[Len(Top.elements) - 1]
         ELSE "unknown"

\* What the value types make of a string; texts are sequences of words, these
\* have one.  A set of texts is in brackets in the file and has one member.
TextFromString(text) == <<text>>
TextSetFromString(text) == {<<text>>}

FromString(type, text) ==
    IF type = "TextSet" THEN TextSetFromString(text) ELSE TextFromString(text)

Subjected == {"assertionType", "role", "topic"}

WithPropval(p, outer, key, val) ==
    [p EXCEPT ![outer].subject = Append(@, <<key, val>>)]

PropertyOfPropval(p) == ModelProperty(p.model, p.propval.model, p.propval.prop)

\* The texts of a property's elements; sidp is yes or something else.
EndProperty(p, code) ==
    CASE code = "name" -> [p EXCEPT !.property.name = p.text]
      [] code = "combination" -> [p EXCEPT !.property.combination = p.text]
      [] code = "equality" -> [p EXCEPT !.property.equality = p.text]
      [] code = "valueType" -> [p EXCEPT !.property.valueType = p.text]
      [] code = "sidp" -> [p EXCEPT !.property.sidp = (p.text = "yes")]
      [] OTHER -> p

Ended(p, code, outer) ==
    CASE code = "name" /\ outer = "tma" -> [p EXCEPT !.model.name = p.text]
      [] outer = "property" -> EndProperty(p, code)
      [] code = "name" /\ outer \in {"assertionType", "role"} ->
           WithPropval(p, outer, Key(SAM, "SubjectIndicators"), {<<p.text>>})
      [] code = "propval" /\ outer \in Subjected ->
           WithPropval(p, outer, Key(p.propval.model, p.propval.prop),
                       FromString(PropertyOfPropval(p).valueType, p.text))
      [] code = "property" ->
           [p EXCEPT !.model.properties = <<p.property>> \o @]
      [] code = "role" -> [p EXCEPT !.assertionType.roles = <<p.role>> \o @]
      [] code = "assertionType" ->
           [p EXCEPT !.model.atypes = <<p.assertionType>> \o @]
      [] code = "topic" ->
           [p EXCEPT !.model.subjects = <<p.topic.subject>> \o @]
      [] OTHER -> p

\* The asserts of the callback: a propval names a property that is there, and
\* the library has the value type.
EndAsserts(p, code, outer) ==
    /\ code = "propval" /\ outer \in Subjected
           => PropertyOfPropval(p) # NoProperty
    /\ code = "valueType" /\ outer = "property" => p.text \in ValueTypes

Left(p) == [p EXCEPT !.text = "", !.elements = Front(@)]

End_ ==
    /\ AtEvent("end")
    /\ Code # "require"
    /\ IF EndAsserts(Top, Code, Outer)
       THEN TopBecomes(Left(Ended(Top, Code, Outer))) /\ UNCHANGED status
       ELSE status' = "aborted" /\ UNCHANGED parsers
    /\ UNCHANGED <<answer, openFiles>>

\* The end of a require element looks the model up, and goes on when it has it.
EndRequire ==
    /\ AtEvent("end")
    /\ Code = "require"
    /\ answer = NoAnswer
    /\ LookupModel(Top.text)

RequireAnswered ==
    /\ AtEvent("end")
    /\ Code = "require"
    /\ answer # NoAnswer
    /\ TopBecomes(IF answer.rc = "ok"
                  THEN [Left(Top) EXCEPT !.model.require = <<answer.model>> \o @]
                  ELSE [Top EXCEPT !.failed = TRUE])
    /\ answer' = NoAnswer
    /\ UNCHANGED openFiles

\* tm_create_tma_from_file returns.  Once a callback has failed the others do
\* nothing; a file whose parse has failed is not closed.
ParserReturns ==
    /\ parsers # <<>> /\ status = "ok"
    /\ IF Top.failed
       THEN answer' = Failure /\ UNCHANGED openFiles
       ELSE /\ Top.at > Len(File[Top.file])
            /\ answer' = Found(Top.model)
            /\ openFiles' = openFiles - 1
    /\ parsers' = Front(parsers)

NotWellFormed ==
    /\ AtEvent("error")
    /\ answer' = Failure
    /\ parsers' = Front(parsers)
    /\ UNCHANGED openFiles

\* What a parser does; of the topic map it only changes the status.
ParserStep ==
    \/ End_
    \/ /\ UNCHANGED status
       /\ \/ Start_
          \/ CharData
          \/ EndRequire
          \/ RequireAnswered
          \/ ParserReturns
          \/ NotWellFormed

=============================================================================
