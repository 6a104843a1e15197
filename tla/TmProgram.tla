----------------------------- MODULE TmProgram -----------------------------
(***************************************************************************)
(* The command line program src/apps/tm.c: main, prompt and the functions  *)
(* they call, for one invocation with the memory stores and one of the     *)
(* processing models iso2788 and rdf_common.                               *)
(*                                                                         *)
(* main is one thread; pc names the part of it that has been reached.      *)
(* Everything of the library that it uses is a step of one of the modules  *)
(* this one extends.  tk_err_exit ends the program at "exit".              *)
(***************************************************************************)
EXTENDS LineReading, RdfReading, Views

CONSTANTS
    Invocations,   \* the command lines, with the files that are named there
    QueryOf        \* the queries, by their text

\* A command line is a record:
\*   df, storage   the names given, or the defaults
\*   add           the models of the options -A, in the order they are given
\*   pm, mode, config, readable   -p, -i, and the file named by -a
\*   maps          what each name is: "file", "url", or "missing"
\*   stdin, merge, parseOnly, interactive, dump   -I, not -M, -P, -Q, -d
\*   query         the text of -q, or ""
\*   lines, statements, typed   what there may be in a file and what is typed
\*   length, inputs   bounds: the lines or statements in one file, and the
\*                 lines that are typed

VARIABLES
    options,    \* the command line
    pc,         \* where main is
    addLeft,    \* the models still to be required
    map,        \* the number of the file that is read
    texts,      \* history: what has been read from each file that was finished
    qbuf,       \* the query typed so far
    typed,      \* the number of lines typed
    shown       \* what the last query has returned and printed

programVars == <<options, pc, addLeft, map, texts, qbuf, typed, shown>>
library == <<vars, tmadlVars, loadVars>>
readers == <<readingVars, thesaurus, resources>>

Nothing == [query |-> "", rc |-> "none", printed |-> {}]

ProgramInit ==
    /\ Init
    /\ LoadInit
    /\ ReadingInit
    /\ thesaurus = NewThesaurus(<<>>)
    /\ resources = NewResources
    /\ options \in Invocations
    /\ pc = "start"
    /\ addLeft = <<>>
    /\ map = 1
    /\ texts = <<>>
    /\ qbuf = ""
    /\ typed = 0
    /\ shown = Nothing

At(where) == pc = where /\ status = "ok"

\* Nothing of the library is running.
Quiet == phase = "idle" /\ loads = <<>> /\ parsers = <<>> /\ handler = "none"

-----------------------------------------------------------------------------
(* main up to the input: tm_init, the storage, and the models of -A. *)

KnownNames == options.df = "www-df" /\ (options.parseOnly \/ options.storage = "MemStore")

Begin ==
    /\ At("start")
    /\ IF ~KnownNames
       THEN pc' = "exit" /\ UNCHANGED <<loadVars, hasMap>>
       ELSE IF options.parseOnly
       THEN pc' = "input" /\ hasMap' = FALSE /\ UNCHANGED loadVars
       ELSE pc' = "open" /\ Open /\ UNCHANGED hasMap
    /\ UNCHANGED <<vars, tmadlVars, thesaurus, resources, stage, jobs, made,
                   handler, ovError, options, addLeft, map, texts, qbuf, typed,
                   shown>>

ResultTaken ==
    /\ result' = "none"
    /\ UNCHANGED <<models, modelNames, transactions, loads, ended>>

\* The models in the meta store are required by tm_topicmap_open.  The list of
\* -A is pushed, so that the last option comes first.
Opened ==
    /\ At("open") /\ Quiet /\ result = "ok"
    /\ pc' = "models"
    /\ addLeft' = LoadModelList \o Reverse(options.add)
    /\ ResultTaken
    /\ UNCHANGED <<vars, tmadlVars, readers, options, map, texts, qbuf, typed,
                   shown>>

GivenModel ==
    /\ At("models") /\ Quiet /\ result = "none"
    /\ IF addLeft = <<>> THEN pc' = "input" /\ UNCHANGED loadVars
       ELSE RequireModel(Head(addLeft)) /\ UNCHANGED pc
    /\ UNCHANGED <<vars, tmadlVars, readers, options, addLeft, map, texts, qbuf,
                   typed, shown>>

GivenAnswered ==
    /\ At("models") /\ Quiet /\ result # "none"
    /\ IF result = "ok"
       THEN addLeft' = Tail(addLeft) /\ ResultTaken /\ UNCHANGED pc
       ELSE pc' = "exit" /\ UNCHANGED <<addLeft, loadVars>>
    /\ UNCHANGED <<vars, tmadlVars, readers, options, map, texts, qbuf, typed,
                   shown>>

-----------------------------------------------------------------------------
(* The loop over the files, or the standard input; tm_omnivore_prepare. *)

ProcModels == {"iso2788", "rdf_common"}

\* tm_omnivore_set_procmodel: it fails for a name the framework does not know.
ProcModelSet == options.pm \in ProcModels

\* The handlers a processing model has, by the mode they are for.
LineHandlers == {"iso2788"}
StatementHandlers == {"rdf_common"}

HasHandler(pm, mode) ==
    \/ mode = "lines" /\ pm \in LineHandlers
    \/ mode = "rdfxml" /\ pm \in StatementHandlers

MoreInput == IF options.stdin THEN map = 1 ELSE map <= Len(options.maps)

NextInput ==
    /\ At("input") /\ Quiet
    /\ IF ~MoreInput
       THEN /\ pc' = IF hasMap THEN "ask" ELSE "done"
            /\ UNCHANGED <<map, stage, thesaurus, resources>>
       ELSE IF ~options.stdin /\ options.maps[map] = "url"
       THEN map' = map + 1 /\ UNCHANGED <<pc, stage, thesaurus, resources>>
       ELSE /\ UNCHANGED map
            /\ IF \/ ~options.stdin /\ options.maps[map] = "missing"
                  \/ ~ProcModelSet
               THEN pc' = "exit" /\ UNCHANGED <<stage, thesaurus, resources>>
               ELSE /\ pc' = "prepare"
                    /\ IF options.pm = "iso2788"
                       THEN /\ IsoInit(options.config, options.readable)
                            /\ UNCHANGED resources
                       ELSE RdfInit /\ UNCHANGED thesaurus
    /\ UNCHANGED <<library, jobs, made, handler, ovError, hasMap, options,
                   addLeft, texts, qbuf, typed, shown>>

Prepared ==
    /\ At("prepare") /\ Quiet
    /\ stage \in {"ready", "failed"}
    /\ IF stage = "ready" /\ HasHandler(options.pm, options.mode)
       THEN /\ pc' = "read"
            /\ IF hasMap THEN StartTransaction("map") ELSE UNCHANGED transactions
       ELSE pc' = "exit" /\ UNCHANGED transactions
    /\ UNCHANGED <<vars, tmadlVars, models, modelNames, loads, result, ended,
                   readers, options, addLeft, map, texts, qbuf, typed, shown>>

-----------------------------------------------------------------------------
(* Reading one file. *)

ReadingLines == At("read") /\ options.mode = "lines" /\ Ready

ReadCharacters ==
    /\ ReadingLines
    /\ Len(thesaurus.written) < options.length
    /\ thesaurus.buf = <<>>
    /\ \E words \in options.lines : Characters(words)
    /\ UNCHANGED <<resources, programVars>>

ReadNewline ==
    /\ ReadingLines
    /\ Len(thesaurus.written) < options.length
    /\ Newline
    /\ UNCHANGED <<resources, programVars>>

ReadStatement ==
    /\ At("read") /\ options.mode = "rdfxml" /\ Ready
    /\ Len(resources.written) < options.length
    /\ \/ \E st \in options.statements : Statement(st)
       \/ resources.written = <<>> /\ RaptorComplains
    /\ UNCHANGED <<thesaurus, programVars>>

ParseFailed ==
    /\ At("read") /\ Quiet /\ ovError
    /\ pc' = "exit"
    /\ UNCHANGED <<library, readers, options, addLeft, map, texts, qbuf, typed,
                   shown>>

Written == IF options.mode = "lines" THEN thesaurus.written ELSE resources.written

\* Omnivore_delete, with the parser and the data of the processing model.
OmnivoreDelete ==
    /\ stage' = "none"
    /\ thesaurus' = NewThesaurus(<<>>)
    /\ resources' = NewResources

\* The end of the file: a line without a newline at its end is left where it
\* is.  Files are merged into the map, unless -M is given; what is read from
\* the standard input is not merged, and its transaction ends without -M only.
EndOfInput ==
    /\ At("read") /\ Ready
    /\ texts' = Append(texts, Written)
    /\ OmnivoreDelete
    /\ IF hasMap /\ options.merge /\ ~options.stdin
       THEN FullyMerge /\ pc' = "merge"
       ELSE UNCHANGED vars /\ pc' = "end"
    /\ UNCHANGED <<tmadlVars, loadVars, jobs, made, handler, ovError, hasMap,
                   options, addLeft, map, qbuf, typed, shown>>

Merged_ ==
    /\ At("merge") /\ Quiet
    /\ pc' = IF rc = "ok" THEN "end" ELSE "exit"
    /\ UNCHANGED <<library, readers, options, addLeft, map, texts, qbuf, typed,
                   shown>>

FileDone ==
    /\ At("end")
    /\ IF hasMap /\ (~options.stdin \/ options.merge) THEN EndTransaction("map")
       ELSE UNCHANGED <<transactions, ended, status>>
    /\ map' = map + 1
    /\ pc' = "input"
    /\ result' = "none"
    /\ UNCHANGED <<core, phase, at, todo, rc, calls, history, tmadlVars, models,
                   modelNames, loads, readers, options, addLeft, texts, qbuf,
                   typed, shown>>

-----------------------------------------------------------------------------
(* Queries: prompt, the option -q, and the dump. *)

Parsed(text) ==
    IF text \in DOMAIN QueryOf THEN QueryOf[text] ELSE [view |-> "", params |-> <<>>]

\* An error is printed, and the program goes on.
RunQuery(text) ==
    \E v \in {View(Parsed(text))} :
        /\ shown' = [query |-> text, rc |-> v.rc,
                     printed |-> Printed(Parsed(text).view, v.events)]
        /\ status' = IF v.rc = "aborted" THEN "aborted" ELSE "ok"

\* tm_topicmap_get_models, for the commands \l and \s.
Listed ==
    [query |-> "", rc |-> "listed",
     printed |-> {models[i].name : i \in DOMAIN models}]

\* A line that is typed: a command behind a backslash, or a piece of a query,
\* the last of which ends with a semicolon.  Pieces are joined as they are.
TypeLine ==
    /\ At("ask") /\ options.interactive
    /\ typed < options.inputs
    /\ typed' = typed + 1
    /\ \E line \in options.typed :
         \/ /\ line.is = "quit"
            /\ pc' = "query"
            /\ UNCHANGED <<qbuf, shown, status>>
         \/ /\ line.is = "command"
            /\ UNCHANGED <<pc, qbuf, shown, status>>
         \/ /\ line.is = "list"
            /\ shown' = Listed
            /\ UNCHANGED <<pc, qbuf, status>>
         \/ /\ line.is = "piece"
            /\ qbuf' = qbuf \o line.text
            /\ UNCHANGED <<pc, shown, status>>
         \/ /\ line.is = "last"
            /\ RunQuery(qbuf \o line.text)
            /\ qbuf' = ""
            /\ UNCHANGED pc
    /\ UNCHANGED <<core, phase, at, todo, rc, calls, history, tmadlVars,
                   loadVars, readers, options, addLeft, map, texts>>

AskNoMore ==
    /\ At("ask")
    /\ pc' = "query"
    /\ UNCHANGED <<library, readers, options, addLeft, map, texts, qbuf, typed,
                   shown>>

PromptEnds == options.interactive /\ AskNoMore
PromptSkipped == ~options.interactive /\ AskNoMore

Query ==
    /\ At("query")
    /\ pc' = "dump"
    /\ IF options.query = "" THEN UNCHANGED <<shown, status>>
       ELSE RunQuery(options.query)
    /\ UNCHANGED <<core, phase, at, todo, rc, calls, history, tmadlVars,
                   loadVars, readers, options, addLeft, map, texts, qbuf, typed>>

\* _complete, for the text encoding.
Dump ==
    /\ At("dump")
    /\ status' = IF options.dump /\ ~DumpAsserts THEN "aborted" ELSE "ok"
    /\ pc' = "close"
    /\ UNCHANGED <<core, phase, at, todo, rc, calls, history, tmadlVars,
                   loadVars, readers, options, addLeft, map, texts, qbuf, typed,
                   shown>>

\* tm_topicmap_close and tm_topicmap_delete: with the map go its stores, its
\* models and the transactions that were never ended.
CloseMap ==
    /\ At("close")
    /\ pc' = "done"
    /\ hasMap' = FALSE
    /\ stores' = [p \in Prop |-> EmptyStore]
    /\ last' = 0 /\ disposed' = {}
    /\ models' = <<>> /\ modelNames' = <<>> /\ transactions' = <<>>
    /\ UNCHANGED <<lists, control, history, tmadlVars, loads,
                   result, ended, thesaurus, resources, stage, jobs, made,
                   handler, ovError, options, addLeft, map, texts, qbuf, typed,
                   shown>>

Terminated ==
    /\ pc \in {"done", "exit"} \/ status # "ok"
    /\ UNCHANGED <<library, readers, programVars>>

-----------------------------------------------------------------------------
(* The program is one thread: it goes on as long as it can, and the input it  *)
(* reads has an end.  Nobody has to type anything at the prompt.              *)

LibraryStep ==
    \/ (MapStep \/ ReadStep \/ LoadStep) /\ UNCHANGED <<readers, programVars>>
    \/ MapJob /\ UNCHANGED <<thesaurus, resources, programVars>>
    \/ (HandlerReturns \/ RequireFailed)
         /\ UNCHANGED <<thesaurus, resources, programVars>>
    \/ IsoStep /\ UNCHANGED <<resources, programVars>>
    \/ RdfStep /\ UNCHANGED <<thesaurus, programVars>>

MainStep ==
    \/ Begin
    \/ Opened
    \/ GivenModel
    \/ GivenAnswered
    \/ NextInput
    \/ Prepared
    \/ ReadCharacters
    \/ ReadNewline
    \/ ReadStatement
    \/ ParseFailed
    \/ EndOfInput
    \/ Merged_
    \/ FileDone
    \/ PromptSkipped
    \/ Query
    \/ Dump
    \/ CloseMap

ProgramNext ==
    \/ LibraryStep
    \/ MainStep
    \/ TypeLine
    \/ PromptEnds
    \/ Terminated

programState == <<library, readers, programVars>>

Waiting == pc = "ask" /\ options.interactive
Stopped == pc \in {"done", "exit"} \/ status # "ok" \/ Waiting

\* Weak fairness of the steps that are not the user's.  ENABLED is written out,
\* as TLC is slow to evaluate it: there is such a step unless tm has stopped
\* (that there is one otherwise is the absence of deadlocks).
Goes == []<>Stopped \/ []<><<ProgramNext>>_programState

ProgramSpec == ProgramInit /\ [][ProgramNext]_programState /\ Goes

=============================================================================
