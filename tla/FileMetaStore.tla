--------------------------- MODULE FileMetaStore ---------------------------
(***************************************************************************)
(* The meta store of the file store (src/stores/filestore/metastore.c,     *)
(* metapage.c): the list of models on page 1 and the topic numbers on page *)
(* 2 of the file "meta", which it reaches through PageCache as its only    *)
(* client.  A call fetches a page, works on it and drops it.  The result   *)
(* of the fetch is not looked at: after a failed one the page is NULL and  *)
(* the next function fails its assert.                                     *)
(*                                                                         *)
(* A page is [count, cells], the number in its header and the cells behind *)
(* it; cells stands for the names of models, or for the free list.  The    *)
(* ends of the pages are far away and left out.                            *)
(***************************************************************************)
EXTENDS PageCache, Functions

CONSTANT Name   \* names of models

VARIABLES
    text,      \* text[n][v]: what is on page n in version v, on disk or cached
    creating,  \* the pages that open has yet to create, of a new file
    job,       \* the call that is going on, and how far it has come
    stopped,   \* an assert of the meta store has ended the process
    given,     \* history: the topics handed out and not disposed of
    twice,     \* history: a topic has been handed out while it was in use
    added,     \* history: the models added
    kept       \* history: given and added when flush last returned ok

metaVars == <<text, creating, job, stopped, given, twice, added, kept>>

ModelPage == 1
TopicPage == 2

NoJob == [call |-> "none", step |-> "none", arg |-> 0]
EmptyPage == [count |-> 0, cells |-> <<>>]

MetaInit ==
    /\ text = <<>>
    /\ creating = 3
    /\ job = NoJob
    /\ stopped = FALSE
    /\ given = {}
    /\ twice = FALSE
    /\ added = {}
    /\ kept = [given |-> {}, added |-> {}]

Idle == Ready /\ ~stopped /\ creating = 0 /\ job = NoJob

-----------------------------------------------------------------------------
(* _filemetastore_open: three pages are made when the file is new. *)

OpenCreates ==
    /\ ~stopped
    /\ creating > 0
    /\ CreatePage
    /\ creating' = creating - 1
    /\ text' = Append(text, [v \in {0} |-> EmptyPage])
    /\ UNCHANGED <<job, stopped, given, twice, added, kept>>

\* The write fails: the number of the page has not been set, and the assert on
\* it fails, at the latest that of the next page.
OpenFails ==
    /\ ~stopped
    /\ creating > 0
    /\ failures < MaxFailures
    /\ failures' = failures + 1
    /\ stopped' = TRUE
    /\ UNCHANGED <<disk, items, clients, open, call, history, text, creating,
                   job, given, twice, added, kept>>

-----------------------------------------------------------------------------
(* The four calls. *)

\* A slip of TakeFree: the cell of the topic is not set to 0.
TakeFreeLeft(page) == page
TakeFree(page) == [page EXCEPT !.cells = Front(@)]

\* tm_metapage_get_new_topic: the last of the free list, or a number more.
NewTopic(page) ==
    IF page.cells # <<>> THEN Last(page.cells) ELSE page.count + 1
WithNewTopic(page) ==
    IF page.cells # <<>> THEN TakeFree(page)
    ELSE [page EXCEPT !.count = @ + 1]

\* tm_metapage_dispose_topic
WithFree(page, topic) == [page EXCEPT !.cells = Append(@, topic)]

\* tm_metapage_add_modelname
WithName(page, name) ==
    [count |-> page.count + 1, cells |-> Append(page.cells, name)]

PageOf(call_) ==
    IF call_ \in {"get_new_topic", "dispose_topic"} THEN TopicPage ELSE ModelPage

\* A call begins.  Only topics in use are disposed of, and a model is added
\* once.  MaxVersion bounds the calls.
Begin(call_, arg) ==
    /\ Idle
    /\ PageOf(call_) \in Pages => latest[PageOf(call_)] < MaxVersion
    /\ job' = [call |-> call_, step |-> "fetch", arg |-> arg]
    /\ UNCHANGED <<vars, text, creating, stopped, given, twice, added, kept>>

Calls ==
    \/ Begin("get_new_topic", 0)
    \/ Begin("load_model_list", 0)
    \/ \E t \in given : Begin("dispose_topic", t)
    \/ \E name \in Name \ added : Begin("add_model", name)

Working(step) == Ready /\ ~stopped /\ job.step = step

FetchForJob ==
    /\ Working("fetch")
    /\ \E c \in Client : Fetch(c, PageOf(job.call))
    /\ job' = [job EXCEPT !.step = "work"]
    /\ UNCHANGED <<text, creating, stopped, given, twice, added, kept>>

\* The page is NULL: the fetch has failed, or the file ends before the page.
NoPageForJob ==
    /\ \/ Working("work") /\ \A c \in Client : held[c] = 0
       \/ Working("fetch") /\ PageOf(job.call) \notin Pages
    /\ stopped' = TRUE
    /\ UNCHANGED <<vars, text, creating, job, given, twice, added, kept>>

Rewritten(n, page) ==
    text' = [text EXCEPT ![n] =
                 [v \in {latest'[n], disk[n]} |->
                     IF v = latest'[n] THEN page ELSE text[n][v]]]

WorkOnPage ==
    /\ Working("work")
    /\ \E c \in {d \in Client : held[d] # 0} :
         LET n    == PageOf(job.call)
             page == text[n][items[held[c]].version]
         IN \/ /\ job.call = "load_model_list"
               /\ UNCHANGED <<vars, text, given, twice, added>>
            \/ /\ job.call = "get_new_topic"
               /\ Change(c)
               /\ Rewritten(n, WithNewTopic(page))
               /\ given' = given \cup {NewTopic(page)}
               /\ twice' = (twice \/ NewTopic(page) \in given)
               /\ UNCHANGED added
            \/ /\ job.call = "dispose_topic"
               /\ Change(c)
               /\ Rewritten(n, WithFree(page, job.arg))
               /\ given' = given \ {job.arg}
               /\ UNCHANGED <<twice, added>>
            \/ /\ job.call = "add_model"
               /\ Change(c)
               /\ Rewritten(n, WithName(page, job.arg))
               /\ added' = added \cup {job.arg}
               /\ UNCHANGED <<given, twice>>
    /\ job' = [job EXCEPT !.step = "drop"]
    /\ UNCHANGED <<creating, stopped, kept>>

DropForJob ==
    /\ Working("drop")
    /\ \E c \in Client : Drop(c)
    /\ job' = NoJob
    /\ UNCHANGED <<text, creating, stopped, given, twice, added, kept>>

-----------------------------------------------------------------------------
(* _filemetastore_close, and the end of the process. *)

CloseFlushes ==
    /\ Idle
    /\ Flush
    /\ kept' = IF rc' = "flushed"
               THEN [given |-> given, added |-> added] ELSE kept
    /\ text' = [n \in Pages |-> Restrict(text[n], {disk'[n], latest[n]})]
    /\ UNCHANGED <<creating, job, stopped, given, twice, added>>

CloseCloses ==
    /\ Idle
    /\ Close
    /\ UNCHANGED metaVars

\* The process ends, in the middle of a call or after close, and another one
\* opens the file.  It counts on what was there at the last good flush, less
\* the topics that have been disposed of since.  A file that exists is not
\* looked at: when open was cut short, pages are missing for good.
NewProcess ==
    /\ Crash
    /\ text' = [n \in Pages |-> Restrict(text[n], {disk[n]})]
    /\ creating' = 0
    /\ job' = NoJob
    /\ stopped' = FALSE
    /\ given' = given \cap kept.given
    /\ added' = added \cap kept.added
    /\ kept' = [given |-> given', added |-> added']
    /\ UNCHANGED twice

MetaNext ==
    \/ OpenCreates
    \/ OpenFails
    \/ Calls
    \/ FetchForJob
    \/ NoPageForJob
    \/ WorkOnPage
    \/ DropForJob
    \/ CloseFlushes
    \/ CloseCloses
    \/ NewProcess

MetaSpec == Init /\ MetaInit /\ [][MetaNext]_<<vars, metaVars>>

-----------------------------------------------------------------------------

Shown(n) == text[n][latest[n]].cells

\* Over crashes, failed reads and new processes, a topic number is not handed
\* out again while it is in use, what has been added to the list of models is
\* in it, and an assert of the meta store fails only when a system call has
\* failed or the first open was cut short.  Not so when a write has failed,
\* since the page then counts as written (unwritten).
MetaStoreKept ==
    /\ ~unwritten =>
         /\ ~twice
         /\ added # {} => added \subseteq ToSet(Shown(ModelPage))
         /\ given # {} => given \cap ToSet(Shown(TopicPage)) = {}
    /\ stopped => failures > 0 \/ Len(disk) < 3

=============================================================================
