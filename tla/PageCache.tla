----------------------------- MODULE PageCache -----------------------------
(***************************************************************************)
(* The file of the file store with its page cache                          *)
(* (src/stores/filestore/tmfile.c, page.c).  A client fetches a page,      *)
(* which gives it a pointer into the cache and counts it as a user of that *)
(* item, changes the page in place and drops it.  Pages reach the disk     *)
(* when their item is given to another page and when the cache is flushed. *)
(* Any read or write may fail; a failed one transfers nothing.  The        *)
(* process may crash; what has been written stays.                         *)
(*                                                                         *)
(* What is in a page is modelled by its version: the number of times it    *)
(* has been changed.                                                       *)
(***************************************************************************)
EXTENDS Integers, Sequences, FiniteSets, SequencesExt

CONSTANTS Client,       \* the users of the file that hold a page at a time
          PMax,         \* cache.pmax, the number of items of the cache
          MaxPages,     \* bound: pages created
          MaxVersion,   \* bound: changes of one page
          MaxFailures   \* bound: reads and writes that fail

ASSUME PageCacheAssumption ==
    /\ PMax \in Nat \ {0} /\ MaxPages \in Nat
    /\ MaxVersion \in Nat /\ MaxFailures \in Nat
    /\ IsFiniteSet(Client)

VARIABLES
    disk,      \* disk[n]: the version of page n in the file
    items,     \* the used items of the cache: page, version, changed, usecount
    held,      \* held[c]: the item that c has a pointer to (0: none)
    asked,     \* asked[c]: the page that c has asked for and believes to hold
    open,      \* is_open
    rc,        \* what the last call returned
    status,    \* "ok", "full" (the assert of fetch_page) or "aborted"
    failures,  \* the number of reads and writes that have failed
    latest,    \* history: latest[n], the last version a client has made
    flushed,   \* history: flushed[n], the version when flush last returned ok
    stolen,    \* history: an item in use has been given to another page
    strayed,   \* history: a client has changed a page it did not ask for
    unwritten  \* history: a write has failed

call == <<rc, status>>
clients == <<held, asked>>
history == <<latest, flushed, stolen, strayed, unwritten>>
vars == <<disk, items, clients, open, call, failures, history>>

Pages == 1..Len(disk)

Init ==
    /\ disk = <<>>
    /\ items = <<>>
    /\ held = [c \in Client |-> 0]
    /\ asked = [c \in Client |-> 0]
    /\ open = TRUE
    /\ rc = "ok"
    /\ status = "ok"
    /\ failures = 0
    /\ latest = <<>>
    /\ flushed = <<>>
    /\ stolen = FALSE
    /\ strayed = FALSE
    /\ unwritten = FALSE

Ready == open /\ status = "ok"

\* The outcomes of a system call: it succeeds, or fails and is counted.
Outcomes == IF failures < MaxFailures THEN {TRUE, FALSE} ELSE {TRUE}

-----------------------------------------------------------------------------

\* tm_file_create_page: straight to the end of the file, not to the cache.
CreatePage ==
    /\ Ready
    /\ Len(disk) < MaxPages
    /\ disk' = Append(disk, 0)
    /\ latest' = Append(latest, 0)
    /\ flushed' = Append(flushed, 0)
    /\ rc' = "ok"
    /\ UNCHANGED <<items, clients, open, status, failures>>
    /\ UNCHANGED <<stolen, strayed, unwritten>>

\* _writepage: the changed flag is cleared first, and stays cleared when the
\* write fails.
ClearFlag(item) == [item EXCEPT !.changed = FALSE]

Writes(item) == item.changed

Written(item, ok) ==
    IF Writes(item) /\ ok THEN [disk EXCEPT ![item.page] = item.version] ELSE disk

Read(n, from) == [page |-> n, version |-> from[n], changed |-> FALSE, use |-> 1]

CachedAt(n) == {i \in DOMAIN items : items[i].page = n}

Holds(c, i, n) ==
    /\ held' = [held EXCEPT ![c] = i]
    /\ asked' = [asked EXCEPT ![c] = n]
    /\ rc' = "ok"

Failed ==
    /\ failures' = failures + 1
    /\ rc' = "esys"
    /\ UNCHANGED clients

\* A slip of FetchHit: the user is not counted.
FetchHitUncounted(c, n) ==
    /\ \E i \in CachedAt(n) : Holds(c, i, n)
    /\ UNCHANGED <<disk, items, status, failures, stolen, unwritten>>

\* Step 1 of tm_file_fetch_page: the page is in the cache.
FetchHit(c, n) ==
    /\ \E i \in CachedAt(n) :
         /\ items' = [items EXCEPT ![i].use = @ + 1]
         /\ Holds(c, i, n)
    /\ UNCHANGED <<disk, status, failures, stolen, unwritten>>

\* A slip of HasRoom: one item more than there are.
HasRoomForOneMore == Len(items) <= PMax
HasRoom == Len(items) < PMax

\* Step 2: there is room in the cache.
FetchToRoom(c, n) ==
    /\ CachedAt(n) = {}
    /\ HasRoom
    /\ \E ok \in Outcomes :
         IF ok THEN /\ items' = Append(items, Read(n, disk))
                    /\ Holds(c, Len(items) + 1, n)
                    /\ UNCHANGED failures
         ELSE Failed /\ UNCHANGED items
    /\ UNCHANGED <<disk, status, stolen, unwritten>>

\* The item that is thrown out, by the test in the code: the first in use.
Victims ==
    {i \in DOMAIN items : /\ items[i].use # 0
                          /\ \A j \in 1..(i - 1) : items[j].use = 0}

\* Step 3: one page is thrown out, written first if it has changed.
FetchByEviction(c, n) ==
    /\ CachedAt(n) = {}
    /\ ~HasRoom
    /\ \E i \in Victims, okWrite, okRead \in Outcomes :
         /\ Writes(items[i]) \/ okWrite
         /\ disk' = Written(items[i], okWrite)
         /\ unwritten' = (unwritten \/ ~okWrite)
         /\ IF okWrite /\ okRead
            THEN /\ items' = [items EXCEPT ![i] = Read(n, disk')]
                 /\ stolen' = (stolen \/ items[i].use # 0)
                 /\ Holds(c, i, n)
                 /\ UNCHANGED failures
            ELSE /\ items' = [items EXCEPT ![i] = ClearFlag(@)]
                 /\ Failed
                 /\ UNCHANGED stolen
    /\ UNCHANGED status

\* The assert after the search for an item.
FetchFromFull(c, n) ==
    /\ CachedAt(n) = {}
    /\ ~HasRoom
    /\ Victims = {}
    /\ status' = "full"
    /\ UNCHANGED <<disk, items, clients, rc, failures, stolen, unwritten>>

Fetch(c, n) ==
    /\ Ready
    /\ held[c] = 0
    /\ n \in Pages
    /\ \/ FetchHit(c, n)
       \/ FetchToRoom(c, n)
       \/ FetchByEviction(c, n)
       \/ FetchFromFull(c, n)
    /\ UNCHANGED <<open, latest, flushed, strayed>>

\* A slip of Change: the page is changed and the flag forgotten.
ChangeUnflagged(c) ==
    /\ Ready
    /\ held[c] # 0
    /\ latest[asked[c]] < MaxVersion
    /\ latest' = [latest EXCEPT ![asked[c]] = @ + 1]
    /\ items' = [items EXCEPT ![held[c]].version = latest'[asked[c]]]
    /\ strayed' = (strayed \/ items[held[c]].page # asked[c])
    /\ UNCHANGED <<disk, clients, open, call, failures, flushed, stolen, unwritten>>

\* What the page modules do with a page they hold: change it, in place, and
\* set the changed flag.  They do not look which page the item is by now.
Change(c) ==
    /\ Ready
    /\ held[c] # 0
    /\ latest[asked[c]] < MaxVersion
    /\ latest' = [latest EXCEPT ![asked[c]] = @ + 1]
    /\ items' = [items EXCEPT ![held[c]].version = latest'[asked[c]],
                              ![held[c]].changed = TRUE]
    /\ strayed' = (strayed \/ items[held[c]].page # asked[c])
    /\ UNCHANGED <<disk, clients, open, call, failures, flushed, stolen, unwritten>>

\* tm_file_drop_page, with its assert.
Drop(c) ==
    /\ Ready
    /\ held[c] # 0
    /\ IF items[held[c]].use > 0
       THEN items' = [items EXCEPT ![held[c]].use = @ - 1] /\ UNCHANGED status
       ELSE status' = "aborted" /\ UNCHANGED items
    /\ held' = [held EXCEPT ![c] = 0]
    /\ asked' = [asked EXCEPT ![c] = 0]
    /\ rc' = "ok"
    /\ UNCHANGED <<disk, open, failures, history>>

\* A slip of FlushReach: the loop leaves out the last item.
FlushAllButLast(k) == k - 1

\* The loop of tm_file_flush_cache has come as far as item k.
FlushReach(k) == k

\* tm_file_flush_cache: items 1..k are written; the write of item k + 1, if
\* there is one, fails, and the function returns.
Flush ==
    /\ Ready
    /\ \E k \in 0..Len(items) :
         LET done == k = Len(items)
             last == FlushReach(k)
             Gone(i) == i <= last \/ (~done /\ i = k + 1)
         IN /\ ~done => Writes(items[k + 1]) /\ FALSE \in Outcomes
            /\ disk' = [n \in Pages |->
                   IF \E i \in 1..last : items[i].page = n /\ Writes(items[i])
                   THEN items[CHOOSE i \in 1..last : items[i].page = n].version
                   ELSE disk[n]]
            /\ items' = [i \in DOMAIN items |->
                            IF Gone(i) THEN ClearFlag(items[i]) ELSE items[i]]
            /\ IF done
               THEN /\ rc' = "flushed"
                    /\ flushed' = latest
                    /\ UNCHANGED <<failures, unwritten>>
               ELSE /\ rc' = "esys"
                    /\ failures' = failures + 1
                    /\ unwritten' = TRUE
                    /\ UNCHANGED flushed
    /\ UNCHANGED <<clients, open, status, latest, stolen, strayed>>

\* tm_file_close, as _filemetastore_close calls it: after a flush that returned
\* ok, when no page is held.  Its asserts look at every item.  The items stay
\* in the cache.
Close ==
    /\ Ready
    /\ rc = "flushed"
    /\ \A c \in Client : held[c] = 0
    /\ IF \A i \in DOMAIN items : items[i].use = 0 /\ ~items[i].changed
       THEN open' = FALSE /\ UNCHANGED status
       ELSE status' = "aborted" /\ UNCHANGED open
    /\ rc' = "ok"
    /\ UNCHANGED <<disk, items, clients, failures, history>>

Reopen ==
    /\ ~open /\ status = "ok"
    /\ open' = TRUE
    /\ UNCHANGED <<disk, items, clients, call, failures, history>>

\* The process ends, at any point between two calls, and a new one begins
\* with an empty cache and what is in the file.
Crash ==
    /\ items' = <<>>
    /\ held' = [c \in Client |-> 0]
    /\ asked' = [c \in Client |-> 0]
    /\ open' = TRUE
    /\ rc' = "ok"
    /\ status' = "ok"
    /\ latest' = disk
    /\ UNCHANGED <<disk, failures, flushed, stolen, strayed, unwritten>>

Next ==
    \/ CreatePage
    \/ \E c \in Client, n \in Pages : Fetch(c, n)
    \/ \E c \in Client : Change(c) \/ Drop(c)
    \/ Flush
    \/ Close
    \/ Reopen
    \/ Crash

Spec == Init /\ [][Next]_vars

-----------------------------------------------------------------------------

Item == [page : Pages, version : 0..MaxVersion, changed : BOOLEAN, use : Nat]

\* Every variable has its type, and the cache does not outgrow its items.
TypeOK ==
    /\ disk \in Seq(0..MaxVersion)
    /\ items \in Seq(Item) /\ Len(items) <= PMax
    /\ held \in [Client -> 0..Len(items)]
    /\ asked \in [Client -> 0..Len(disk)]
    /\ open \in BOOLEAN
    /\ rc \in {"ok", "esys", "flushed"}
    /\ status \in {"ok", "full", "aborted"}
    /\ failures \in 0..MaxFailures
    /\ latest \in [Pages -> 0..MaxVersion]
    /\ flushed \in [Pages -> 0..MaxVersion]
    /\ stolen \in BOOLEAN /\ strayed \in BOOLEAN
    /\ unwritten \in BOOLEAN

\* Whoever asks for a page sees the last change anybody made to it, in the
\* cache or, when it is not there, on disk; no page is in the cache twice; an
\* item not marked as changed is what is on disk.  Evictions included, as long
\* as nobody has changed a page that is not the one it asked for.
LatestIsSeen ==
    ~strayed /\ ~unwritten =>
        \A n \in Pages :
            /\ Cardinality(CachedAt(n)) <= 1
            /\ CachedAt(n) = {} => disk[n] = latest[n]
            /\ \A i \in CachedAt(n) :
                 /\ items[i].version = latest[n]
                 /\ ~items[i].changed => disk[n] = latest[n]

\* What was in a page when flush last returned ok is never lost again, by a
\* later crash, a later failed read or an eviction.
FlushedSurvives ==
    ~strayed /\ ~unwritten => \A n \in Pages : disk[n] >= flushed[n]

\* The usecount of an item is the number of clients that have a pointer to it,
\* so that drop and close find what their asserts say.
HoldersCounted ==
    ~stolen =>
        /\ \A i \in DOMAIN items :
             items[i].use = Cardinality({c \in Client : held[c] = i})
        /\ status # "aborted"

\* "usecount > 0 means also 'is locked'" (tmfile.c:30): as long as a client
\* holds a page, the item it points to is that page.
HeldIsLocked ==
    \A c \in Client : held[c] # 0 => items[held[c]].page = asked[c]

=============================================================================
