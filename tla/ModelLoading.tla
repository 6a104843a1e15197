---------------------------- MODULE ModelLoading ----------------------------
(***************************************************************************)
(* How models come into a topic map: tm_topicmap_open,                     *)
(* tm_topicmap_require_model and _load_model of src/src/topicmap.c, the    *)
(* transactions around them, and the list of models in the meta store of   *)
(* the memory stores (src/stores/memstore/metastore.c).                    *)
(*                                                                         *)
(* require_model calls itself for the models that a model requires, so     *)
(* that loads is the stack of the calls that have begun.  A call that      *)
(* fails makes all that wait for it fail, each leaving its transaction.    *)
(*                                                                         *)
(* _load_model makes the topics of a model with add_subject and ends with  *)
(* fully_merge, whose result it ignores; both run as in TopicMap.          *)
(***************************************************************************)
EXTENDS Tmadl

VARIABLES
    models,        \* topicmap->models
    modelNames,    \* the list in the meta store
    transactions,  \* topicmap->transactions: who has started each
    loads,         \* the calls of require_model, the innermost last
    result,        \* what the last outermost call has returned, "none": not yet
    ended          \* history: who ended a transaction, and who had started it

loadVars == <<models, modelNames, transactions, loads, result, ended>>

Core == "RM-Core"

CoreProperty(name, type) ==
    [name |-> name, model |-> Core, valueType |-> type, sidp |-> TRUE,
     combination |-> "", equality |-> ""]

coremodel ==
    [EmptyModel EXCEPT
        !.name = Core,
        !.properties = <<CoreProperty(ASidp, "ASIDP"),
                         CoreProperty(TSidp, "TopicSet")>>]

\* The table of src/stores/memstore/descriptor.c: what has a value store.
StoredTypes == {"Text", "Integer", "TextSet", "TopicSet", "ASIDP"}

-----------------------------------------------------------------------------
(* Transactions: a stack of src/src/stack.c, with its top at the end.  To pop  *)
(* an empty one is an assert.                                                  *)

NewStack == <<>>
StackEmpty == transactions = <<>>
Push(who) == transactions' = Append(transactions, who)
Pop == transactions' = Front(transactions)

StartTransaction(who) == Push(who)

EndTransaction(who) ==
    IF StackEmpty
    THEN status' = "aborted" /\ UNCHANGED <<transactions, ended>>
    ELSE /\ Pop
         /\ ended' = ended \cup {<<who, Last(transactions)>>}
         /\ UNCHANGED status

-----------------------------------------------------------------------------
(* The list of models in the meta store: the last one added comes first.  That *)
(* of the memory store does not outlive the topic map.                         *)

NoModels == <<>>
AddModel(name) == modelNames' = <<name>> \o modelNames
LoadModelList == NoModels

-----------------------------------------------------------------------------

LoadInit ==
    /\ parsers = <<>> /\ answer = NoAnswer /\ openFiles = 0
    /\ models = <<>>
    /\ modelNames = NoModels
    /\ transactions = NewStack
    /\ loads = <<>>
    /\ result = "none"
    /\ ended = {}

Loaded(name) == \E i \in DOMAIN models : models[i].name = name

\* get_model_by_name and tm_model_get_property: p can be found, and then has
\* its stores.
Known(p) ==
    \E m \in Range(models) :
        \E q \in Range(m.properties) : Key(m.name, q.name) = p

\* What property_store_new and value_store_new make of a property.
KindOf(q) ==
    [sidp     |-> q.sidp,
     combines |-> q.equality = "NOT_DISJOINT" /\ q.combination = "union",
     topical  |-> q.valueType \in {"ASIDP", "TopicSet"}]

-----------------------------------------------------------------------------
(* require_model *)

Load == Last(loads)
InLoad(step) ==
    /\ loads # <<>> /\ status = "ok" /\ parsers = <<>> /\ phase = "idle"
    /\ Load.step = step
LoadBecomes(load) == loads' = [loads EXCEPT ![Len(loads)] = load]

NewLoad(name) ==
    [name |-> name, step |-> "enter", model |-> EmptyModel,
     requires |-> <<>>, subjects |-> <<>>]

\* The call from outside.
RequireModel(name) ==
    /\ loads' = <<NewLoad(name)>>
    /\ result' = "none"
    /\ UNCHANGED <<models, modelNames, transactions, ended>>

\* A call returns to the one that waits for it, an error to the outermost.
LoadReturns(code) ==
    /\ loads' = IF code = "ok" THEN Front(loads) ELSE <<>>
    /\ result' = IF loads' = <<>> THEN code ELSE "none"

\* A slip of HaveIt: the transaction is started before the model is looked for.
HaveItLate ==
    /\ LoadReturns("ok")
    /\ StartTransaction(Load.name)
    /\ UNCHANGED <<parsers, answer, openFiles>>

HaveIt ==
    /\ LoadReturns("ok")
    /\ UNCHANGED <<transactions, parsers, answer, openFiles>>

Enter ==
    /\ InLoad("enter")
    /\ IF Loaded(Load.name) THEN HaveIt
       ELSE /\ StartTransaction(Load.name)
            /\ LoadBecomes([Load EXCEPT !.step = "lookup"])
            /\ LookupModel(Load.name)
            /\ UNCHANGED result
    /\ UNCHANGED <<core, control, history, models, modelNames, ended>>

\* A slip of Required: only the first of the required models is loaded.
RequiredFirst(model) ==
    IF model.require = <<>> THEN <<>> ELSE <<Head(model.require).name>>

Required(model) ==
    [i \in DOMAIN model.require |-> model.require[i].name]

LookedUp ==
    /\ InLoad("lookup")
    /\ answer # NoAnswer
    /\ IF answer.rc # "ok" THEN LoadReturns(answer.rc)
       ELSE /\ LoadBecomes([Load EXCEPT !.step = "requires",
                                        !.model = answer.model,
                                        !.requires = Required(answer.model)])
            /\ UNCHANGED result
    /\ answer' = NoAnswer
    /\ UNCHANGED <<core, control, history, models, modelNames, transactions,
                   ended, parsers, openFiles>>

RequireNext ==
    /\ InLoad("requires")
    /\ Load.requires # <<>>
    /\ loads' = Append([loads EXCEPT ![Len(loads)].requires = Tail(@)],
                       NewLoad(Head(Load.requires)))
    /\ UNCHANGED <<core, control, history, tmadlVars, models, modelNames,
                   transactions, result, ended>>

-----------------------------------------------------------------------------
(* _load_model *)

\* The topics a model brings: assertion types, each with its roles, and others.
SubjectsOf(model) ==
    FoldLeft(LAMBDA all, a :
                all \o <<a.subject>>
                    \o [i \in DOMAIN a.roles |-> a.roles[i].subject],
             <<>>, model.atypes)
    \o model.subjects

HasStores(model) ==
    \A q \in Range(model.properties) : q.valueType \in StoredTypes

OpenStores ==
    /\ InLoad("requires")
    /\ Load.requires = <<>>
    /\ IF HasStores(Load.model)
       THEN /\ models' = Append(models, Load.model)
            /\ LoadBecomes([Load EXCEPT !.step = "subjects",
                                        !.subjects = SubjectsOf(Load.model)])
            /\ rc' = "ok"
            /\ UNCHANGED result
       ELSE LoadReturns("no value store") /\ UNCHANGED <<models, rc>>
    /\ UNCHANGED <<core, phase, at, todo, status, calls, history, tmadlVars,
                   modelNames, transactions, ended>>

AddNext ==
    /\ InLoad("subjects")
    /\ rc = "ok"
    /\ Load.subjects # <<>>
    /\ AddSubject(Head(Load.subjects))
    /\ LoadBecomes([Load EXCEPT !.subjects = Tail(@)])
    /\ UNCHANGED <<tmadlVars, models, modelNames, transactions, result, ended>>

AddFailed ==
    /\ InLoad("subjects")
    /\ rc # "ok"
    /\ LoadReturns(rc)
    /\ rc' = "ok"
    /\ UNCHANGED <<core, phase, at, todo, status, calls, history, tmadlVars,
                   models, modelNames, transactions, ended>>

MergeLoaded ==
    /\ InLoad("subjects")
    /\ rc = "ok"
    /\ Load.subjects = <<>>
    /\ FullyMerge
    /\ LoadBecomes([Load EXCEPT !.step = "merge"])
    /\ UNCHANGED <<tmadlVars, models, modelNames, transactions, result, ended>>

\* Behind _load_model: the name goes to the meta store and the transaction
\* ends.  tm_topicmap_open does neither for the library's own model.
LoadDone ==
    /\ InLoad("merge")
    /\ IF Load.name = Core
       THEN UNCHANGED <<modelNames, transactions, ended, status>>
       ELSE /\ AddModel(Load.model.name)
            /\ EndTransaction(Load.name)
    /\ LoadReturns("ok")
    /\ UNCHANGED <<core, phase, at, todo, rc, calls, history, tmadlVars, models>>

\* tm_topicmap_open: the library's own model, and then those of LoadModelList.
Open ==
    /\ loads' = <<[NewLoad(Core) EXCEPT !.model = coremodel,
                                        !.step = "requires"]>>
    /\ result' = "none"
    /\ UNCHANGED <<models, modelNames, transactions, ended>>

LoadStep ==
    \/ Enter
    \/ LookedUp
    \/ RequireNext
    \/ OpenStores
    \/ AddNext
    \/ AddFailed
    \/ MergeLoaded
    \/ LoadDone

-----------------------------------------------------------------------------
(* The calls on topics check that the property is one of a loaded model. *)

AddKnownProperty ==
    /\ Running("subject")
    /\ Known(Head(todo)[1])
    /\ AddSubjectProperty

AddUnknownProperty ==
    /\ Running("subject")
    /\ ~Known(Head(todo)[1])
    /\ todo' = <<>>
    /\ phase' = "idle"
    /\ rc' = "not loaded"
    /\ UNCHANGED <<core, at, status, calls, history>>

\* The steps of a running call on the topic map, and of a running parser.
MapStep ==
    /\ AddKnownProperty \/ AddUnknownProperty \/ MergeStep
    /\ UNCHANGED <<tmadlVars, loadVars>>

ReadStep ==
    /\ ParserStep
    /\ UNCHANGED <<core, phase, at, todo, rc, calls, history, loadVars>>

-----------------------------------------------------------------------------

\* A model whose require_model has returned TM_OK, and the library's own.
Complete == {m \in Range(models) : m.name = Core \/ m.name \in ToSet(modelNames)}

HasValues(t, subject) ==
    \A i \in DOMAIN subject :
        LET s == stores[subject[i][1]]
        IN /\ s.vid[t] # 0
           /\ IF Kind[subject[i][1]].combines
              THEN subject[i][2] \subseteq s.value[s.vid[t]]
              ELSE subject[i][2] = s.value[s.vid[t]]

\* Between the calls a model that has been loaded is there as its file says,
\* however its loading was interleaved with that of the models it requires and
\* whatever failed later: it is listed once, behind all that it requires, its
\* properties have the stores their elements ask for, and for every topic it
\* defines there is one with those properties, also after merges.  A model that
\* is listed without being loaded is being loaded, or its loading has failed and
\* the outermost call has said so: nobody goes on as if it were there.
LoadedModelsComplete ==
    phase = "idle" /\ status = "ok" =>
        /\ \A i, j \in DOMAIN models : models[i].name = models[j].name => i = j
        /\ \A m \in Range(models) \ Complete :
             m.name \in {loads[i].name : i \in DOMAIN loads}
                \/ result \notin {"none", "ok"}
        /\ \A m \in Complete :
             /\ \A r \in Range(m.require) :
                  \E i, j \in DOMAIN models :
                      i < j /\ models[i].name = r.name /\ models[j] = m
             /\ \A q \in Range(m.properties) :
                  KindOf(q) = Kind[Key(m.name, q.name)]
             /\ \A i \in DOMAIN SubjectsOf(m) :
                  \E t \in Live : HasValues(t, SubjectsOf(m)[i])

\* A transaction is ended by the call that has started it, though those that
\* failed leave theirs on the stack; as long as no call has failed, the stack
\* names exactly those that are under way.
TransactionsPaired ==
    /\ \A pair \in ended : pair[1] = pair[2]
    /\ loads # <<>> /\ status = "ok" =>
         LET begun == SelectSeq(loads, LAMBDA l : l.step # "enter" /\ l.name # Core)
         IN /\ Len(begun) <= Len(transactions)
            /\ SubSeq(transactions, Len(transactions) - Len(begun) + 1,
                      Len(transactions)) = [i \in DOMAIN begun |-> begun[i].name]

=============================================================================
