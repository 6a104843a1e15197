------------------------------ MODULE Reading ------------------------------
(***************************************************************************)
(* What the processing models iso2788 and rdf_common have in common: they  *)
(* are set up by omnivore, which requires models, and their handlers make  *)
(* a series of calls on the topic map for one line or one statement.       *)
(*                                                                         *)
(* A call is a job, [do |-> "subject", subject], [do |-> "property",       *)
(* topic, prop, val], [do |-> "assert", type, members] or what the handler *)
(* does in between, [do |-> "remember", key] and [do |-> "current"].  A    *)
(* topic -k in a job is the k-th topic made by the handler.                *)
(***************************************************************************)
EXTENDS TopicQueries

VARIABLES
    stage,    \* how far the processing model's init has come
    jobs,     \* what the running handler has still to do
    made,     \* the topics it has made
    handler,  \* "none", or what the handler does when a call fails
    ovError,  \* omnivore's error string has been set
    hasMap    \* there is a topic map; without one input is only parsed

readingVars == <<stage, jobs, made, handler, ovError, hasMap>>

ReadingInit ==
    /\ stage = "none"
    /\ jobs = <<>> /\ made = <<>>
    /\ handler = "none"
    /\ ovError = FALSE
    /\ hasMap = TRUE

Ready == stage = "ready" /\ handler = "none" /\ status = "ok" /\ ~ovError

\* tm_omnivore_set_error: Omnivore_parse returns 0 from then on.
SetError == ovError' = TRUE

\* Setting up waits for the models it has asked for.
Asking(s) == stage = s /\ status = "ok" /\ loads = <<>> /\ result = "none"
Answered(s) == stage = s /\ status = "ok" /\ loads = <<>> /\ result = "ok"

RequireFailed ==
    /\ status = "ok" /\ loads = <<>>
    /\ stage \in {"config", "models", "dc"}
    /\ result \notin {"none", "ok"}
    /\ stage' = "failed"
    /\ UNCHANGED <<vars, tmadlVars, loadVars, jobs, made, handler, ovError,
                   hasMap>>

-----------------------------------------------------------------------------
(* A handler and its calls. *)

Subject(subject) == [do |-> "subject", subject |-> subject]
Property(t, p, val) == [do |-> "property", topic |-> t, prop |-> p, val |-> val]
Assertion(type, members) == [do |-> "assert", type |-> type, members |-> members]

Handle(js, onError) ==
    /\ jobs' = js
    /\ made' = <<>>
    /\ handler' = IF js = <<>> THEN "none" ELSE onError

Meant(t) == IF t < 0 THEN made[-t] ELSE t

CanWork == handler # "none" /\ phase = "idle" /\ status = "ok" /\ rc = "ok"

NextJob(do) == CanWork /\ jobs # <<>> /\ Head(jobs).do = do /\ jobs' = Tail(jobs)

SubjectJob ==
    /\ NextJob("subject")
    /\ AddSubject(Head(jobs).subject)
    /\ made' = Append(made, last')

PropertyJob ==
    LET job == Head(jobs)
    IN /\ NextJob("property")
       /\ IF Known(job.prop)
          THEN AddPropertyToTopic(Meant(job.topic), job.prop, job.val)
          ELSE /\ rc' = "not loaded"
               /\ UNCHANGED <<core, phase, at, todo, status, calls, history>>
       /\ UNCHANGED made

\* The assertion gets a topic of its own, as its A is 0.
AssertJob ==
    LET job == Head(jobs)
    IN /\ NextJob("assert")
       /\ AddAssertion(NewTopic,
              [type |-> job.type,
               members |-> [r \in DOMAIN job.members |-> Meant(job.members[r])]])
       /\ UNCHANGED made

MapJob ==
    /\ SubjectJob \/ PropertyJob \/ AssertJob
    /\ UNCHANGED <<tmadlVars, loadVars, stage, handler, ovError, hasMap>>

\* The last call has returned, or one has failed: the handler sets omnivore's
\* error and returns, or an assert in it fails.
HandlerReturns ==
    /\ handler # "none" /\ phase = "idle" /\ status = "ok"
    /\ rc # "ok" \/ jobs = <<>>
    /\ status' = IF rc # "ok" /\ handler = "assert" THEN "aborted" ELSE "ok"
    /\ ovError' = (rc # "ok")
    /\ handler' = "none"
    /\ jobs' = <<>>
    /\ made' = <<>>
    /\ rc' = "ok"
    /\ UNCHANGED <<core, phase, at, todo, calls, history, tmadlVars, loadVars,
                   stage, hasMap>>

=============================================================================
