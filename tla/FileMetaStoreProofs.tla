------------------------ MODULE FileMetaStoreProofs ------------------------
(***************************************************************************)
(* The invariants of PageCache, for any number of clients, items, pages    *)
(* and failures, and that the meta store of the file store keeps its       *)
(* topics and models, for any size of the cache, any number of calls,      *)
(* failures and processes.  The invariant of the cache has four layers,    *)
(* each of which rests on the ones before it: types, the pages in the      *)
(* cache, what is in them, and who uses them.  Every step of the meta      *)
(* store is a step of PageCache (OpenFails apart), so the invariants of    *)
(* the cache hold in it, and with one client that holds one page at a time *)
(* nothing is ever thrown out of the cache.                                *)
(***************************************************************************)
EXTENDS FileMetaStore, TLAPS, FiniteSetTheorems, SequenceTheorems

\* A client that has a pointer into the cache knows the page it asked for.
HoldsWhatItAsked == \A c \in Client : held[c] = 0 <=> asked[c] = 0

TypeInv == TypeOK /\ HoldsWhatItAsked

\* What FetchHit takes for granted: it uses the first item with the page.
NoPageTwice ==
    \A i, j \in DOMAIN items : items[i].page = items[j].page => i = j

\* Items, disk and the clients' changes agree.  A page is behind on disk only
\* while an item holds it and is marked, and never behind the last flush.
Coherent ==
    /\ \A i \in DOMAIN items :
         /\ items[i].version = latest[items[i].page]
         /\ ~items[i].changed => disk[items[i].page] = items[i].version
    /\ \A n \in Pages : CachedAt(n) = {} => disk[n] = latest[n]
    /\ \A n \in Pages : flushed[n] <= disk[n] /\ disk[n] <= latest[n]

\* After a flush that returned ok, with nobody left to change a page, no item
\* is marked: what tm_file_close asserts.
CleanWhenFlushed ==
    rc = "flushed" /\ (\A c \in Client : held[c] = 0) =>
        \A i \in DOMAIN items : items[i].changed = FALSE

UsersInv == HoldersCounted /\ CleanWhenFlushed

Users(i) == {c \in Client : held[c] = i}

CacheInv == NoPageTwice /\ (~strayed /\ ~unwritten => Coherent)

-----------------------------------------------------------------------------
(* Items of the cache *)

\* A function on the first n numbers is a sequence of that length.
LEMMA FunctionIsSeq ==
    ASSUME NEW S, NEW n \in Nat, NEW f \in [1..n -> S]
    PROVE  f \in Seq(S) /\ Len(f) = n
<1>1. f \in Seq(S)
  OBVIOUS
<1> QED BY <1>1

\* Each item of a cache of the right type has the fields of an item.
LEMMA ItemFields ==
    ASSUME TypeOK, NEW i \in DOMAIN items
    PROVE  /\ items[i] \in Item
           /\ items[i].page \in Pages /\ items[i].version \in 0..MaxVersion
           /\ items[i].changed \in BOOLEAN /\ items[i].use \in Nat
<1>1. items[i] \in Item
  BY ElementOfSeq DEF TypeOK
<1> QED BY <1>1 DEF Item

\* One item is replaced by another: the others stay.
LEMMA ItemReplaced ==
    ASSUME TypeOK, NEW i \in DOMAIN items, NEW x \in Item
    PROVE  LET new == [items EXCEPT ![i] = x]
           IN /\ new \in Seq(Item) /\ Len(new) = Len(items)
              /\ DOMAIN new = DOMAIN items
              /\ new[i] = x
              /\ \A j \in DOMAIN items : j # i => new[j] = items[j]
<1>1. items \in Seq(Item) /\ DOMAIN items = 1..Len(items)
  BY DEF TypeOK
<1> QED BY <1>1, ExceptSeq, Zenon

\* Clearing the changed flag of an item leaves the rest of it.
LEMMA FlagCleared ==
    ASSUME NEW x \in Item
    PROVE  /\ ClearFlag(x) \in Item
           /\ ClearFlag(x).page = x.page /\ ClearFlag(x).version = x.version
           /\ ClearFlag(x).use = x.use /\ ClearFlag(x).changed = FALSE
BY DEF ClearFlag, Item

\* _writepage puts the version of the item on its page, if anything.
LEMMA PageWritten ==
    ASSUME TypeOK, NEW i \in DOMAIN items, NEW ok \in BOOLEAN
    PROVE  LET new == Written(items[i], ok)
           IN /\ new \in Seq(0..MaxVersion) /\ Len(new) = Len(disk)
              /\ \A n \in Pages :
                   new[n] = IF items[i].changed /\ ok /\ n = items[i].page
                            THEN items[i].version ELSE disk[n]
<1>1. items[i].page \in 1..Len(disk) /\ items[i].version \in 0..MaxVersion
  BY ItemFields DEF Pages
<1>2. disk \in Seq(0..MaxVersion)
  BY DEF TypeOK
<1>3. CASE items[i].changed /\ ok
  <2>1. Written(items[i], ok) = [disk EXCEPT ![items[i].page] = items[i].version]
    BY <1>3 DEF Written, Writes
  <2>2. \A n \in Pages :
          Written(items[i], ok)[n] = IF n = items[i].page THEN items[i].version ELSE disk[n]
    BY <1>1, <1>2, <2>1, ExceptSeq DEF Pages
  <2>3. Written(items[i], ok) \in Seq(0..MaxVersion) /\ Len(Written(items[i], ok)) = Len(disk)
    BY <1>1, <1>2, <2>1, ExceptSeq
  <2>4. \A n \in Pages :
          items[i].changed /\ ok /\ n = items[i].page <=> n = items[i].page
    BY <1>3
  <2> QED BY <2>2, <2>3, <2>4
<1>4. CASE ~(items[i].changed /\ ok)
  BY <1>2, <1>4 DEF Written, Writes
<1> QED BY <1>3, <1>4

\* The versions of a page, on disk and for the clients.
LEMMA PageVersions ==
    ASSUME TypeOK, NEW n \in Pages
    PROVE  /\ disk[n] \in 0..MaxVersion /\ disk[n] \in Nat
           /\ latest[n] \in 0..MaxVersion /\ latest[n] \in Nat
           /\ flushed[n] \in 0..MaxVersion /\ flushed[n] \in Nat
<1>1. disk[n] \in 0..MaxVersion
  BY ElementOfSeq DEF TypeOK, Pages
<1>2. latest[n] \in 0..MaxVersion /\ flushed[n] \in 0..MaxVersion
  BY DEF TypeOK
<1> QED BY <1>1, <1>2, PageCacheAssumption

\* A page that has been read is an item with one user.
LEMMA PageRead ==
    ASSUME NEW n \in Pages, NEW from \in Seq(0..MaxVersion), Len(from) = Len(disk)
    PROVE  /\ Read(n, from) \in Item
           /\ Read(n, from).page = n /\ Read(n, from).version = from[n]
           /\ Read(n, from).changed = FALSE /\ Read(n, from).use = 1
<1>1. from[n] \in 0..MaxVersion
  BY ElementOfSeq DEF Pages
<1> QED BY <1>1 DEF Read, Item

\* A system call succeeds or fails, and fails only as often as it may.
LEMMA OutcomeFails ==
    ASSUME TypeOK, NEW ok \in Outcomes
    PROVE  /\ ok \in BOOLEAN
           /\ ~ok => failures < MaxFailures /\ failures + 1 \in 0..MaxFailures
<1>1. CASE failures < MaxFailures
  <2>1. Outcomes = {TRUE, FALSE}
    BY <1>1 DEF Outcomes
  <2>2. ok \in BOOLEAN
    BY <2>1
  <2>3. failures + 1 \in 0..MaxFailures
    BY <1>1, PageCacheAssumption DEF TypeOK
  <2> QED BY <1>1, <2>2, <2>3
<1>2. CASE ~(failures < MaxFailures)
  <2>1. Outcomes = {TRUE}
    BY <1>2 DEF Outcomes
  <2>2. ok = TRUE
    BY <2>1
  <2> QED BY <2>2
<1> QED BY <1>1, <1>2

\* As long as no page is created, pages and items stay what they are.
LEMMA SamePages ==
    ASSUME Len(disk') = Len(disk)
    PROVE  Pages' = Pages /\ Item' = Item
BY DEF Pages, Item

-----------------------------------------------------------------------------
(* Types *)

\* A new process has an empty cache.
LEMMA InitTypes == Init => TypeInv
<1> SUFFICES ASSUME Init PROVE TypeInv
  OBVIOUS
<1>1. disk \in Seq(0..MaxVersion) /\ items \in Seq(Item) /\ Len(items) = 0 /\ Len(disk) = 0
  BY DEF Init
<1>2. latest \in [Pages -> 0..MaxVersion] /\ flushed \in [Pages -> 0..MaxVersion]
  BY <1>1 DEF Init, Pages
<1>3. 0 \in 0..Len(items) /\ 0 \in 0..Len(disk) /\ failures \in 0..MaxFailures
      /\ Len(items) <= PMax
  BY <1>1, PageCacheAssumption DEF Init
<1>4. /\ held \in [Client -> 0..Len(items)] /\ asked \in [Client -> 0..Len(disk)]
      /\ HoldsWhatItAsked
  BY <1>3 DEF Init, HoldsWhatItAsked
<1> QED BY <1>1, <1>2, <1>3, <1>4 DEF Init, TypeInv, TypeOK

\* tm_file_create_page: there is a page more for everything that is by page.
LEMMA CreateTypes ==
    ASSUME TypeInv, CreatePage
    PROVE  TypeInv'
<1> USE DEF TypeInv, TypeOK, HoldsWhatItAsked
<1>1. /\ disk' \in Seq(0..MaxVersion) /\ Len(disk') = Len(disk) + 1
  BY PageCacheAssumption, AppendProperties DEF CreatePage
<1>2. Len(disk) \in Nat /\ Pages' = 1..(Len(disk) + 1)
  BY <1>1 DEF Pages
<1>3. Item \subseteq Item'
  BY <1>2 DEF Item, Pages
<1>4. items' \in Seq(Item')
  BY <1>3, SeqMonotonic DEF CreatePage
<1>5. /\ latest \in Seq(0..MaxVersion) /\ Len(latest) = Len(disk)
      /\ flushed \in Seq(0..MaxVersion) /\ Len(flushed) = Len(disk)
  BY <1>2, FunctionIsSeq DEF Pages
<1>6. /\ latest' \in Seq(0..MaxVersion) /\ Len(latest') = Len(disk) + 1
      /\ flushed' \in Seq(0..MaxVersion) /\ Len(flushed') = Len(disk) + 1
  BY <1>5, PageCacheAssumption, AppendProperties DEF CreatePage
<1>7. latest' \in [Pages' -> 0..MaxVersion] /\ flushed' \in [Pages' -> 0..MaxVersion]
  BY <1>6, <1>2, LenProperties
<1>8. held' = held /\ asked' = asked /\ items' = items
  BY DEF CreatePage, clients
<1>9. asked' \in [Client -> 0..Len(disk')]
  BY <1>8, <1>1, <1>2
<1> QED BY <1>1, <1>4, <1>7, <1>8, <1>9 DEF CreatePage

\* The first step of tm_file_fetch_page: a user more for the item.
LEMMA HitTypes ==
    ASSUME TypeInv, NEW c \in Client, NEW n \in Pages, FetchHit(c, n),
           UNCHANGED <<open, latest, flushed, strayed>>
    PROVE  TypeInv'
<1> USE DEF TypeInv
<1>1. PICK i \in CachedAt(n) : /\ items' = [items EXCEPT ![i].use = @ + 1]
                               /\ Holds(c, i, n)
  BY DEF FetchHit
<1>2. i \in DOMAIN items
  BY <1>1 DEF CachedAt
<1> DEFINE x == [items[i] EXCEPT !.use = @ + 1]
<1>3. x \in Item
  BY <1>2, ItemFields DEF Item
<1>4. items' = [items EXCEPT ![i] = x]
  BY <1>1
<1>5. items' \in Seq(Item) /\ Len(items') = Len(items)
  BY <1>2, <1>3, <1>4, ItemReplaced
<1>6. disk' = disk /\ Pages' = Pages /\ Item' = Item
  BY SamePages DEF FetchHit
<1>7. i \in 1..Len(items) /\ n \in 1..Len(disk)
  BY <1>2, ItemFields DEF TypeOK, Pages
<1>8. held' \in [Client -> 0..Len(items')] /\ asked' \in [Client -> 0..Len(disk')]
      /\ HoldsWhatItAsked'
  BY <1>1, <1>5, <1>6, <1>7 DEF TypeOK, Holds, HoldsWhatItAsked
<1> QED BY <1>1, <1>5, <1>6, <1>8 DEF TypeOK, FetchHit, Holds

\* The second step: an item more.
LEMMA RoomTypes ==
    ASSUME TypeInv, NEW c \in Client, NEW n \in Pages, FetchToRoom(c, n),
           UNCHANGED <<open, latest, flushed, strayed>>
    PROVE  TypeInv'
<1> USE DEF TypeInv
<1>1. PICK ok \in Outcomes :
        IF ok THEN /\ items' = Append(items, Read(n, disk))
                   /\ Holds(c, Len(items) + 1, n)
                   /\ UNCHANGED failures
        ELSE Failed /\ UNCHANGED items
  BY DEF FetchToRoom
<1>2. disk' = disk /\ Pages' = Pages /\ Item' = Item
  BY SamePages DEF FetchToRoom
<1>3. items \in Seq(Item) /\ Len(items) \in Nat /\ Len(items) < PMax /\ PMax \in Nat
      /\ n \in 1..Len(disk)
  BY PageCacheAssumption DEF TypeOK, FetchToRoom, HasRoom, Pages
<1>4. CASE ok
  <2>1. items' = Append(items, Read(n, disk)) /\ Holds(c, Len(items) + 1, n)
        /\ failures' = failures
    BY <1>1, <1>4
  <2>2. Read(n, disk) \in Item
    BY PageRead DEF TypeOK
  <2>3. items' \in Seq(Item) /\ Len(items') = Len(items) + 1
    BY <1>3, <2>1, <2>2, AppendProperties
  <2>4. held' \in [Client -> 0..Len(items')] /\ asked' \in [Client -> 0..Len(disk')]
        /\ HoldsWhatItAsked'
    BY <1>2, <1>3, <2>1, <2>3 DEF TypeOK, Holds, HoldsWhatItAsked
  <2>5. Len(items') <= PMax
    BY <1>3, <2>3
  <2> QED BY <1>2, <2>1, <2>3, <2>4, <2>5 DEF TypeOK, FetchToRoom, Holds
<1>5. CASE ~ok
  <2>1. Failed /\ items' = items
    BY <1>1, <1>5
  <2>2. failures' \in 0..MaxFailures
    BY <1>5, <2>1, OutcomeFails DEF Failed
  <2> QED BY <1>2, <2>1, <2>2 DEF TypeOK, FetchToRoom, Failed, clients, HoldsWhatItAsked
<1> QED BY <1>4, <1>5

\* The third step: an item is written, and given to the page.
LEMMA EvictionTypes ==
    ASSUME TypeInv, NEW c \in Client, NEW n \in Pages, FetchByEviction(c, n),
           UNCHANGED <<open, latest, flushed, strayed>>
    PROVE  TypeInv'
<1> USE DEF TypeInv
<1>1. PICK i \in Victims, okWrite \in Outcomes, okRead \in Outcomes :
        /\ disk' = Written(items[i], okWrite)
        /\ unwritten' = (unwritten \/ ~okWrite)
        /\ IF okWrite /\ okRead
           THEN /\ items' = [items EXCEPT ![i] = Read(n, disk')]
                /\ stolen' = (stolen \/ items[i].use # 0)
                /\ Holds(c, i, n)
                /\ UNCHANGED failures
           ELSE /\ items' = [items EXCEPT ![i] = ClearFlag(@)]
                /\ Failed
                /\ UNCHANGED stolen
  BY DEF FetchByEviction
<1>2. i \in DOMAIN items /\ okWrite \in BOOLEAN /\ okRead \in BOOLEAN
  BY <1>1 DEF Victims, Outcomes
<1>3. disk' \in Seq(0..MaxVersion) /\ Len(disk') = Len(disk)
  BY <1>1, <1>2, PageWritten
<1>4. Pages' = Pages /\ Item' = Item
  BY <1>3, SamePages
<1>5. i \in 1..Len(items) /\ n \in 1..Len(disk)
  BY <1>2, ItemFields DEF TypeOK, Pages
<1>6. CASE okWrite /\ okRead
  <2>0. items' = [items EXCEPT ![i] = Read(n, disk')] /\ Holds(c, i, n)
        /\ stolen' = (stolen \/ items[i].use # 0) /\ failures' = failures
    BY <1>1, <1>6
  <2>1. items' \in Seq(Item) /\ Len(items') = Len(items)
    BY <1>2, <1>3, <2>0, PageRead, ItemReplaced
  <2>2. held' \in [Client -> 0..Len(items')] /\ asked' \in [Client -> 0..Len(disk')]
        /\ HoldsWhatItAsked'
    BY <1>3, <1>5, <2>0, <2>1 DEF TypeOK, Holds, HoldsWhatItAsked
  <2>3. stolen' \in BOOLEAN /\ unwritten' \in BOOLEAN
    BY <1>1, <2>0
  <2> QED BY <1>3, <1>4, <2>0, <2>1, <2>2, <2>3 DEF TypeOK, FetchByEviction, Holds
<1>7. CASE ~(okWrite /\ okRead)
  <2>0. items' = [items EXCEPT ![i] = ClearFlag(items[i])] /\ Failed /\ stolen' = stolen
    BY <1>1, <1>7
  <2>1. items' \in Seq(Item) /\ Len(items') = Len(items)
    BY <1>2, <2>0, FlagCleared, ItemFields, ItemReplaced
  <2>2. failures' \in 0..MaxFailures
    BY <1>7, <2>0, OutcomeFails DEF Failed
  <2>3. held' = held /\ asked' = asked /\ rc' = "esys" /\ stolen' = stolen
        /\ unwritten' \in BOOLEAN
    BY <1>1, <2>0 DEF Failed, clients
  <2>4. status' = status /\ HoldsWhatItAsked'
    BY <2>3 DEF FetchByEviction, HoldsWhatItAsked
  <2> QED BY <1>3, <1>4, <2>1, <2>2, <2>3, <2>4 DEF TypeOK
<1> QED BY <1>6, <1>7

\* The three steps and the assert together.
LEMMA FetchTypes ==
    ASSUME TypeInv, NEW c \in Client, NEW n \in Pages, Fetch(c, n)
    PROVE  TypeInv'
<1>1. UNCHANGED <<open, latest, flushed, strayed>>
  BY DEF Fetch
<1>2. CASE FetchFromFull(c, n)
  <2>1. disk' = disk /\ Pages' = Pages /\ Item' = Item
    BY <1>2, SamePages DEF FetchFromFull
  <2> QED BY <1>1, <1>2, <2>1
          DEF FetchFromFull, TypeInv, TypeOK, HoldsWhatItAsked, clients
<1> QED BY <1>1, <1>2, HitTypes, RoomTypes, EvictionTypes DEF Fetch

\* A client that holds an item has asked for a page.
LEMMA HeldItem ==
    ASSUME TypeInv, NEW c \in Client, held[c] # 0
    PROVE  held[c] \in DOMAIN items /\ asked[c] \in Pages
BY DEF TypeInv, TypeOK, HoldsWhatItAsked, Pages

\* What a change makes of the item: the next version, marked as changed.
LEMMA ItemChanged ==
    ASSUME TypeInv, NEW c \in Client, Change(c)
    PROVE  LET x == [items[held[c]] EXCEPT !.version = latest[asked[c]] + 1,
                                           !.changed = TRUE]
           IN /\ items' = [items EXCEPT ![held[c]] = x]
              /\ x \in Item /\ x.page = items[held[c]].page
              /\ x.version = latest[asked[c]] + 1 /\ x.changed = TRUE
              /\ x.use = items[held[c]].use
              /\ latest' = [latest EXCEPT ![asked[c]] = latest[asked[c]] + 1]
              /\ latest' \in [Pages -> 0..MaxVersion]
<1> DEFINE h == held[c]
           v == latest[asked[c]] + 1
           x == [items[h] EXCEPT !.version = v, !.changed = TRUE]
<1>1. h \in DOMAIN items /\ asked[c] \in Pages
  BY HeldItem DEF Change
<1>2. latest \in [Pages -> 0..MaxVersion] /\ v \in 0..MaxVersion
  BY <1>1, PageCacheAssumption DEF Change, TypeInv, TypeOK
<1>3. latest' = [latest EXCEPT ![asked[c]] = v]
  BY DEF Change
<1>4. latest'[asked[c]] = v /\ latest' \in [Pages -> 0..MaxVersion]
  BY <1>1, <1>2, <1>3
<1>5. items' = [items EXCEPT ![h].version = v, ![h].changed = TRUE]
  BY <1>4 DEF Change
<1>6. items' = [items EXCEPT ![h] = x]
  BY <1>1, <1>5
<1>7. items[h] \in Item
  BY <1>1, ItemFields DEF TypeInv
<1>8. x \in Item /\ x.page = items[h].page /\ x.version = v /\ x.changed = TRUE
      /\ x.use = items[h].use
  BY <1>2, <1>7 DEF Item
<1> QED BY <1>3, <1>4, <1>6, <1>8

\* A change in place.
LEMMA ChangeTypes ==
    ASSUME TypeInv, NEW c \in Client, Change(c)
    PROVE  TypeInv'
<1>1. held[c] \in DOMAIN items
  BY HeldItem DEF Change
<1> DEFINE x == [items[held[c]] EXCEPT !.version = latest[asked[c]] + 1, !.changed = TRUE]
<1>0. x \in Item /\ items' = [items EXCEPT ![held[c]] = x]
  BY ItemChanged
<1>2. items' \in Seq(Item) /\ Len(items') = Len(items)
  BY <1>0, <1>1, ItemReplaced, Zenon DEF TypeInv
<1>3. disk' = disk /\ Pages' = Pages /\ Item' = Item
  BY SamePages DEF Change
<1>4. latest' \in [Pages -> 0..MaxVersion]
  BY ItemChanged
<1> QED BY <1>2, <1>3, <1>4
        DEF Change, TypeInv, TypeOK, HoldsWhatItAsked, clients, call

\* tm_file_drop_page: a user less, or the assert.
LEMMA DropTypes ==
    ASSUME TypeInv, NEW c \in Client, Drop(c)
    PROVE  TypeInv'
<1> DEFINE x == [items[held[c]] EXCEPT !.use = @ - 1]
<1>1. held[c] \in DOMAIN items
  BY HeldItem DEF Drop
<1>2. items' \in Seq(Item) /\ Len(items') = Len(items)
      /\ status' \in {"ok", "full", "aborted"}
  <2>1. CASE items[held[c]].use > 0
    <3>1. x \in Item
      BY <1>1, <2>1, ItemFields DEF Item, TypeInv
    <3>2. items' = [items EXCEPT ![held[c]] = x] /\ status' = status
      BY <2>1 DEF Drop
    <3> QED BY <1>1, <3>1, <3>2, ItemReplaced DEF TypeInv, TypeOK
  <2>2. CASE ~(items[held[c]].use > 0)
    BY <2>2 DEF Drop, TypeInv, TypeOK
  <2> QED BY <2>1, <2>2
<1>3. disk' = disk /\ Pages' = Pages /\ Item' = Item
  BY SamePages DEF Drop
<1>4. /\ held' \in [Client -> 0..Len(items')] /\ asked' \in [Client -> 0..Len(disk')]
      /\ HoldsWhatItAsked'
  BY <1>2, <1>3 DEF Drop, TypeInv, TypeOK, HoldsWhatItAsked
<1> QED BY <1>2, <1>3, <1>4 DEF Drop, TypeInv, TypeOK, history

\* tm_file_flush_cache keeps pages and items, whatever it writes.
LEMMA FlushTypes ==
    ASSUME TypeInv, Flush
    PROVE  TypeInv'
<1> DEFINE Done(k, i) == i <= k \/ (k # Len(items) /\ i = k + 1)
<1>1. PICK k \in 0..Len(items) :
        /\ k # Len(items) => FALSE \in Outcomes
        /\ disk' = [n \in Pages |->
               IF \E i \in 1..k : items[i].page = n /\ Writes(items[i])
               THEN items[CHOOSE i \in 1..k : items[i].page = n].version
               ELSE disk[n]]
        /\ items' = [i \in DOMAIN items |->
                        IF Done(k, i) THEN ClearFlag(items[i]) ELSE items[i]]
        /\ IF k = Len(items)
           THEN rc' = "flushed" /\ flushed' = latest /\ UNCHANGED <<failures, unwritten>>
           ELSE /\ rc' = "esys" /\ failures' = failures + 1
                /\ unwritten' = TRUE /\ UNCHANGED flushed
  BY DEF Flush, FlushReach
<1>2. items \in Seq(Item) /\ DOMAIN items = 1..Len(items) /\ Len(items) \in Nat
  BY DEF TypeInv, TypeOK
<1>3. Len(disk) \in Nat /\ disk \in [Pages -> 0..MaxVersion]
  BY LenProperties DEF TypeInv, TypeOK, Pages
<1>4. \A n \in Pages : disk'[n] \in 0..MaxVersion
  <2> SUFFICES ASSUME NEW n \in Pages,
                      NEW j \in 1..k, items[j].page = n, Writes(items[j])
               PROVE  items[CHOOSE i \in 1..k : items[i].page = n].version \in 0..MaxVersion
    BY <1>1, <1>3
  <2> DEFINE i0 == CHOOSE i \in 1..k : items[i].page = n
  <2>1. i0 \in 1..k
    OBVIOUS
  <2>2. i0 \in DOMAIN items
    BY <1>2, <2>1
  <2> QED BY <2>2, ItemFields DEF TypeInv
<1>5. disk' \in [1..Len(disk) -> 0..MaxVersion]
  BY <1>1, <1>4 DEF Pages
<1>6. disk' \in Seq(0..MaxVersion) /\ Len(disk') = Len(disk)
  BY <1>3, <1>5, FunctionIsSeq
<1>7. \A i \in DOMAIN items : items'[i] \in Item
  BY <1>1, FlagCleared, ItemFields DEF TypeInv
<1>8. items' \in [1..Len(items) -> Item]
  BY <1>1, <1>2, <1>7
<1>9. items' \in Seq(Item) /\ Len(items') = Len(items)
  BY <1>2, <1>8, FunctionIsSeq
<1>10. Pages' = Pages /\ Item' = Item
  BY <1>6, SamePages
<1>11. /\ rc' \in {"ok", "esys", "flushed"} /\ failures' \in 0..MaxFailures
       /\ flushed' \in [Pages -> 0..MaxVersion] /\ unwritten' \in BOOLEAN
  <2>1. CASE k = Len(items)
    BY <1>1, <2>1 DEF TypeInv, TypeOK
  <2>2. CASE k # Len(items)
    BY <1>1, <2>2, OutcomeFails DEF TypeInv, TypeOK
  <2> QED BY <2>1, <2>2
<1> QED BY <1>6, <1>9, <1>10, <1>11
        DEF Flush, TypeInv, TypeOK, HoldsWhatItAsked, clients

\* A new process begins with an empty cache, and with what is on disk.
LEMMA CrashTypes ==
    ASSUME TypeInv, Crash
    PROVE  TypeInv'
<1>1. disk' = disk /\ Pages' = Pages /\ Item' = Item
  BY SamePages DEF Crash
<1>2. latest' \in [Pages -> 0..MaxVersion] /\ Len(disk) \in Nat
  BY LenProperties DEF Crash, TypeInv, TypeOK, Pages
<1>3. items' \in Seq(Item) /\ Len(items') = 0
  BY DEF Crash
<1>4. /\ held' \in [Client -> 0..Len(items')] /\ asked' \in [Client -> 0..Len(disk')]
      /\ HoldsWhatItAsked'
  BY <1>1, <1>2, <1>3 DEF Crash, HoldsWhatItAsked
<1> QED BY <1>1, <1>2, <1>3, <1>4, PageCacheAssumption DEF Crash, TypeInv, TypeOK

\* Closing and opening the file change neither pages nor items.
LEMMA CloseTypes ==
    ASSUME TypeInv, Close \/ Reopen \/ UNCHANGED vars
    PROVE  TypeInv'
<1>1. /\ disk' = disk /\ items' = items /\ held' = held /\ asked' = asked
      /\ failures' = failures /\ latest' = latest /\ flushed' = flushed
      /\ stolen' = stolen /\ strayed' = strayed /\ unwritten' = unwritten
  BY DEF Close, Reopen, vars, clients, history
<1>2. Pages' = Pages /\ Item' = Item
  BY <1>1, SamePages
<1>3. open' \in BOOLEAN /\ rc' \in {"ok", "esys", "flushed"}
      /\ status' \in {"ok", "full", "aborted"}
  BY DEF Close, Reopen, vars, call, TypeInv, TypeOK
<1> QED BY <1>1, <1>2, <1>3 DEF TypeInv, TypeOK, HoldsWhatItAsked

\* Every step keeps the types.
LEMMA NextTypes ==
    ASSUME TypeInv, [Next]_vars
    PROVE  TypeInv'
BY CreateTypes, FetchTypes, ChangeTypes, DropTypes, FlushTypes, CrashTypes, CloseTypes
   DEF Next

\* The types hold throughout, over any calls, failures and crashes.
LEMMA Typing == Spec => []TypeInv
BY InitTypes, NextTypes, PTL DEF Spec

-----------------------------------------------------------------------------
(* What is in the cache and on disk *)

\* A hit leaves all items as they are but for one user more.
LEMMA HitEffect ==
    ASSUME TypeInv, NEW c \in Client, NEW n \in Pages, FetchHit(c, n)
    PROVE  \E i \in CachedAt(n) :
             /\ Holds(c, i, n)
             /\ DOMAIN items' = DOMAIN items
             /\ \A j \in DOMAIN items :
                  /\ items'[j].page = items[j].page /\ items'[j].version = items[j].version
                  /\ items'[j].changed = items[j].changed
                  /\ items'[j].use = IF j = i THEN items[j].use + 1 ELSE items[j].use
<1>1. PICK i \in CachedAt(n) : /\ items' = [items EXCEPT ![i].use = @ + 1]
                               /\ Holds(c, i, n)
  BY DEF FetchHit
<1> DEFINE x == [items[i] EXCEPT !.use = @ + 1]
<1>2. i \in DOMAIN items
  BY <1>1 DEF CachedAt
<1>3. items[i] \in Item
  BY <1>2, ItemFields DEF TypeInv
<1>4. /\ x \in Item /\ x.page = items[i].page /\ x.version = items[i].version
      /\ x.changed = items[i].changed /\ x.use = items[i].use + 1
  BY <1>3 DEF Item
<1>5. items' = [items EXCEPT ![i] = x]
  BY <1>1
<1>6. /\ DOMAIN items' = DOMAIN items /\ items'[i] = x
      /\ \A j \in DOMAIN items : j # i => items'[j] = items[j]
  BY <1>2, <1>4, <1>5, ItemReplaced DEF TypeInv
<1> QED BY <1>1, <1>4, <1>6

\* With room, the page becomes the last item, or nothing happens.
LEMMA RoomEffect ==
    ASSUME TypeInv, NEW c \in Client, NEW n \in Pages, FetchToRoom(c, n)
    PROVE  /\ CachedAt(n) = {} /\ disk' = disk /\ unwritten' = unwritten
           /\ \/ /\ Holds(c, Len(items) + 1, n)
                 /\ DOMAIN items' = DOMAIN items \cup {Len(items) + 1}
                 /\ Len(items) + 1 \notin DOMAIN items
                 /\ \A j \in DOMAIN items : items'[j] = items[j]
                 /\ items'[Len(items) + 1] = Read(n, disk)
              \/ items' = items /\ Failed
<1> DEFINE m == Len(items) + 1
<1>1. PICK ok \in Outcomes :
        IF ok THEN /\ items' = Append(items, Read(n, disk))
                   /\ Holds(c, m, n)
                   /\ UNCHANGED failures
        ELSE Failed /\ UNCHANGED items
  BY DEF FetchToRoom
<1>2. CachedAt(n) = {} /\ disk' = disk /\ unwritten' = unwritten
  BY DEF FetchToRoom
<1>3. CASE ok
  <2>1. items' = Append(items, Read(n, disk)) /\ Holds(c, m, n)
    BY <1>1, <1>3
  <2>2. items \in Seq(Item) /\ Len(items) \in Nat /\ DOMAIN items = 1..Len(items)
    BY DEF TypeInv, TypeOK
  <2>3. Read(n, disk) \in Item
    BY PageRead DEF TypeInv, TypeOK
  <2>4. /\ items' \in Seq(Item) /\ Len(items') = m
        /\ \A j \in DOMAIN items : items'[j] = items[j]
        /\ items'[m] = Read(n, disk)
    BY <2>1, <2>2, <2>3, AppendProperties
  <2>5. DOMAIN items' = 1..m
    BY <2>4, LenProperties
  <2>6. DOMAIN items' = DOMAIN items \cup {m} /\ m \notin DOMAIN items
    BY <2>2, <2>5
  <2> QED BY <1>2, <2>1, <2>4, <2>6
<1>4. CASE ~ok
  BY <1>1, <1>2, <1>4
<1> QED BY <1>3, <1>4

\* An eviction: one item in use is clean afterwards, with its page written
\* unless a write has failed.  It holds the new page, or what it held before.
LEMMA EvictionEffect ==
    ASSUME TypeInv, NEW c \in Client, NEW n \in Pages, FetchByEviction(c, n)
    PROVE  /\ CachedAt(n) = {} /\ Pages' = Pages
           /\ \E i \in DOMAIN items :
                /\ DOMAIN items' = DOMAIN items
                /\ \A j \in DOMAIN items : j # i => items'[j] = items[j]
                /\ items'[i].changed = FALSE
                /\ ~unwritten' =>
                     /\ ~unwritten
                     /\ \A m \in Pages :
                          disk'[m] = IF items[i].changed /\ m = items[i].page
                                     THEN items[i].version ELSE disk[m]
                /\ \/ /\ items'[i].page = n /\ items'[i].version = disk'[n]
                      /\ Holds(c, i, n) /\ stolen'
                   \/ /\ items'[i].page = items[i].page
                      /\ items'[i].version = items[i].version
                      /\ items'[i].use = items[i].use
                      /\ Failed /\ stolen' = stolen
<1>1. PICK i \in Victims, okWrite \in Outcomes, okRead \in Outcomes :
        /\ disk' = Written(items[i], okWrite)
        /\ unwritten' = (unwritten \/ ~okWrite)
        /\ IF okWrite /\ okRead
           THEN /\ items' = [items EXCEPT ![i] = Read(n, disk')]
                /\ stolen' = (stolen \/ items[i].use # 0)
                /\ Holds(c, i, n)
                /\ UNCHANGED failures
           ELSE /\ items' = [items EXCEPT ![i] = ClearFlag(@)]
                /\ Failed
                /\ UNCHANGED stolen
  BY DEF FetchByEviction
<1>2. /\ i \in DOMAIN items /\ items[i].use # 0
      /\ okWrite \in BOOLEAN /\ okRead \in BOOLEAN
  BY <1>1, OutcomeFails DEF Victims, TypeInv
<1>3. /\ disk' \in Seq(0..MaxVersion) /\ Len(disk') = Len(disk)
      /\ \A m \in Pages :
           disk'[m] = IF items[i].changed /\ okWrite /\ m = items[i].page
                      THEN items[i].version ELSE disk[m]
  BY <1>1, <1>2, PageWritten DEF TypeInv
<1>4. ~unwritten' =>
        /\ ~unwritten
        /\ \A m \in Pages : disk'[m] = IF items[i].changed /\ m = items[i].page
                                       THEN items[i].version ELSE disk[m]
  <2> SUFFICES ASSUME ~unwritten'
               PROVE  /\ ~unwritten
                      /\ \A m \in Pages :
                           disk'[m] = IF items[i].changed /\ m = items[i].page
                                      THEN items[i].version ELSE disk[m]
    OBVIOUS
  <2>1. ~unwritten /\ okWrite
    BY <1>1
  <2>2. \A m \in Pages : items[i].changed /\ okWrite /\ m = items[i].page
                        <=> items[i].changed /\ m = items[i].page
    BY <2>1
  <2> QED BY <1>3, <2>1, <2>2
<1>5. CASE okWrite /\ okRead
  <2>1. items' = [items EXCEPT ![i] = Read(n, disk')] /\ Holds(c, i, n) /\ stolen'
    BY <1>1, <1>2, <1>5
  <2>2. /\ Read(n, disk') \in Item
        /\ Read(n, disk').page = n /\ Read(n, disk').version = disk'[n]
        /\ Read(n, disk').changed = FALSE
    BY <1>3, PageRead
  <2>3. /\ DOMAIN items' = DOMAIN items /\ items'[i] = Read(n, disk')
        /\ \A j \in DOMAIN items : j # i => items'[j] = items[j]
    BY <1>2, <2>1, <2>2, ItemReplaced DEF TypeInv
  <2>4. CachedAt(n) = {} /\ Pages' = Pages
    BY <1>3, SamePages DEF FetchByEviction
  <2> QED BY <1>2, <1>4, <2>1, <2>2, <2>3, <2>4
<1>6. CASE ~(okWrite /\ okRead)
  <2>1. items' = [items EXCEPT ![i] = ClearFlag(items[i])] /\ Failed /\ stolen' = stolen
    BY <1>1, <1>6
  <2>2. /\ ClearFlag(items[i]) \in Item
        /\ ClearFlag(items[i]).page = items[i].page
        /\ ClearFlag(items[i]).version = items[i].version
        /\ ClearFlag(items[i]).use = items[i].use
        /\ ClearFlag(items[i]).changed = FALSE
    BY <1>2, FlagCleared, ItemFields DEF TypeInv
  <2>3. /\ DOMAIN items' = DOMAIN items /\ items'[i] = ClearFlag(items[i])
        /\ \A j \in DOMAIN items : j # i => items'[j] = items[j]
    BY <1>2, <2>1, <2>2, ItemReplaced DEF TypeInv
  <2>4. CachedAt(n) = {} /\ Pages' = Pages
    BY <1>3, SamePages DEF FetchByEviction
  <2> QED BY <1>2, <1>4, <2>1, <2>2, <2>3, <2>4
<1> QED BY <1>5, <1>6

\* A change gives the held item the latest version of the page the client
\* asked for, and marks it.
LEMMA ChangeEffect ==
    ASSUME TypeInv, NEW c \in Client, Change(c)
    PROVE  LET h == held[c]
               n == asked[c]
           IN /\ h \in DOMAIN items /\ n \in Pages
              /\ DOMAIN items' = DOMAIN items
              /\ \A j \in DOMAIN items : j # h => items'[j] = items[j]
              /\ items'[h].page = items[h].page /\ items'[h].use = items[h].use
              /\ items'[h].version = latest'[n] /\ items'[h].changed = TRUE
              /\ latest'[n] = latest[n] + 1
              /\ \A m \in Pages : m # n => latest'[m] = latest[m]
<1> DEFINE h == held[c]
           n == asked[c]
           x == [items[h] EXCEPT !.version = latest[n] + 1, !.changed = TRUE]
<1>1. h \in DOMAIN items /\ n \in Pages
  BY HeldItem DEF Change
<1>2. /\ items' = [items EXCEPT ![h] = x]
      /\ x \in Item /\ x.page = items[h].page
      /\ x.version = latest[n] + 1 /\ x.changed = TRUE /\ x.use = items[h].use
      /\ latest' = [latest EXCEPT ![n] = latest[n] + 1]
  BY ItemChanged
<1>3. latest \in [Pages -> 0..MaxVersion]
  BY DEF TypeInv, TypeOK
<1>4. latest'[n] = latest[n] + 1 /\ \A m \in Pages : m # n => latest'[m] = latest[m]
  BY <1>1, <1>2, <1>3
<1>5. /\ DOMAIN items' = DOMAIN items /\ items'[h] = x
      /\ \A j \in DOMAIN items : j # h => items'[j] = items[j]
  BY <1>1, <1>2, ItemReplaced, Zenon DEF TypeInv
<1> QED BY <1>1, <1>2, <1>4, <1>5

\* A drop takes a user from the item, if it has one.
LEMMA DropEffect ==
    ASSUME TypeInv, NEW c \in Client, Drop(c)
    PROVE  /\ held[c] \in DOMAIN items /\ DOMAIN items' = DOMAIN items
           /\ \A j \in DOMAIN items :
                /\ items'[j].page = items[j].page /\ items'[j].version = items[j].version
                /\ items'[j].changed = items[j].changed
                /\ items'[j].use = IF j = held[c] /\ items[j].use > 0
                                   THEN items[j].use - 1 ELSE items[j].use
           /\ items[held[c]].use > 0 => status' = status
<1> DEFINE h == held[c]
           x == [items[h] EXCEPT !.use = @ - 1]
<1>1. h \in DOMAIN items
  BY HeldItem DEF Drop
<1>2. items[h] \in Item
  BY <1>1, ItemFields DEF TypeInv
<1>3. CASE items[h].use > 0
  <2>1. /\ x \in Item /\ x.page = items[h].page /\ x.version = items[h].version
        /\ x.changed = items[h].changed /\ x.use = items[h].use - 1
    BY <1>2, <1>3 DEF Item
  <2>2. items' = [items EXCEPT ![h] = x] /\ status' = status
    BY <1>3 DEF Drop
  <2>3. /\ DOMAIN items' = DOMAIN items /\ items'[h] = x
        /\ \A j \in DOMAIN items : j # h => items'[j] = items[j]
    BY <1>1, <2>1, <2>2, ItemReplaced DEF TypeInv
  <2> QED BY <1>1, <1>3, <2>1, <2>2, <2>3
<1>4. CASE ~(items[h].use > 0)
  BY <1>1, <1>4 DEF Drop
<1> QED BY <1>3, <1>4

\* A flush writes all items that are marked and clears the marks, unless one
\* of the writes fails.
LEMMA FlushEffect ==
    ASSUME TypeInv, NoPageTwice, Flush
    PROVE  /\ Pages' = Pages /\ DOMAIN items' = DOMAIN items
           /\ \A j \in DOMAIN items :
                /\ items'[j].page = items[j].page /\ items'[j].version = items[j].version
                /\ items'[j].use = items[j].use
           /\ \/ unwritten' /\ rc' = "esys"
              \/ /\ unwritten' = unwritten /\ rc' = "flushed" /\ flushed' = latest
                 /\ \A j \in DOMAIN items : items'[j].changed = FALSE
                 /\ \A j \in DOMAIN items :
                      items[j].changed => disk'[items[j].page] = items[j].version
                 /\ \A n \in Pages :
                      (\A j \in DOMAIN items : items[j].page = n => ~items[j].changed)
                        => disk'[n] = disk[n]
<1> DEFINE Done(k, i) == i <= k \/ (k # Len(items) /\ i = k + 1)
<1>1. PICK k \in 0..Len(items) :
        /\ disk' = [n \in Pages |->
               IF \E i \in 1..k : items[i].page = n /\ Writes(items[i])
               THEN items[CHOOSE i \in 1..k : items[i].page = n].version
               ELSE disk[n]]
        /\ items' = [i \in DOMAIN items |->
                        IF Done(k, i) THEN ClearFlag(items[i]) ELSE items[i]]
        /\ IF k = Len(items)
           THEN rc' = "flushed" /\ flushed' = latest /\ UNCHANGED <<failures, unwritten>>
           ELSE /\ rc' = "esys" /\ failures' = failures + 1
                /\ unwritten' = TRUE /\ UNCHANGED flushed
  BY DEF Flush, FlushReach
<1>2. DOMAIN items = 1..Len(items) /\ Len(items) \in Nat
  BY DEF TypeInv, TypeOK
<1>3. Pages' = Pages
  <2>1. disk' \in Seq(0..MaxVersion) /\ disk \in Seq(0..MaxVersion) /\ DOMAIN disk' = Pages
    BY <1>1, FlushTypes DEF TypeInv, TypeOK
  <2>2. DOMAIN disk' = 1..Len(disk')
    BY <2>1
  <2> QED BY <2>1, <2>2 DEF Pages
<1>4. /\ DOMAIN items' = DOMAIN items
      /\ \A j \in DOMAIN items :
           /\ items'[j].page = items[j].page /\ items'[j].version = items[j].version
           /\ items'[j].use = items[j].use
           /\ Done(k, j) => items'[j].changed = FALSE
  BY <1>1, FlagCleared, ItemFields DEF TypeInv
<1>5. CASE k # Len(items)
  BY <1>1, <1>3, <1>4, <1>5
<1>6. CASE k = Len(items)
  <2>1. unwritten' = unwritten /\ rc' = "flushed" /\ flushed' = latest
    BY <1>1, <1>6
  <2>2. \A j \in DOMAIN items : items'[j].changed = FALSE
    BY <1>2, <1>4, <1>6
  <2>3. ASSUME NEW j \in DOMAIN items, items[j].changed
        PROVE  disk'[items[j].page] = items[j].version
    <3> DEFINE n == items[j].page
               first == CHOOSE i \in 1..k : items[i].page = n
    <3>1. j \in 1..k /\ n \in Pages /\ Writes(items[j])
      BY <1>2, <1>6, <2>3, ItemFields DEF Writes, TypeInv
    <3>2. disk'[n] = items[first].version
      BY <1>1, <3>1
    <3>3. first \in 1..k /\ items[first].page = n
      BY <3>1
    <3>4. first = j
      BY <1>2, <1>6, <3>3 DEF NoPageTwice
    <3> QED BY <3>2, <3>4
  <2>4. ASSUME NEW n \in Pages,
               \A j \in DOMAIN items : items[j].page = n => ~items[j].changed
        PROVE  disk'[n] = disk[n]
    BY <1>1, <1>2, <1>6, <2>4 DEF Writes
  <2> QED BY <1>3, <1>4, <2>1, <2>2, <2>3, <2>4
<1> QED BY <1>5, <1>6

-----------------------------------------------------------------------------
(* No page twice, and the latest version is where it is looked for *)

\* An empty cache shows what is on disk.
LEMMA InitCache == Init => CacheInv
BY DEF Init, CacheInv, NoPageTwice, Coherent, CachedAt, Pages

\* A new page has never been changed, and is not in the cache.
LEMMA CreateCache ==
    ASSUME TypeInv, CacheInv, CreatePage
    PROVE  CacheInv'
<1> DEFINE m == Len(disk) + 1
<1>1. /\ items' = items /\ strayed' = strayed /\ unwritten' = unwritten
  BY DEF CreatePage
<1>2. Len(disk) \in Nat /\ Pages = 1..Len(disk) /\ disk \in Seq(0..MaxVersion)
      /\ 0 \in 0..MaxVersion
  BY PageCacheAssumption DEF TypeInv, TypeOK, Pages
<1>3. /\ latest \in Seq(0..MaxVersion) /\ Len(latest) = Len(disk)
      /\ flushed \in Seq(0..MaxVersion) /\ Len(flushed) = Len(disk)
  BY <1>2, FunctionIsSeq DEF TypeInv, TypeOK
<1>4. /\ Pages' = Pages \cup {m} /\ m \notin Pages
      /\ \A n \in Pages : /\ disk'[n] = disk[n] /\ latest'[n] = latest[n]
                           /\ flushed'[n] = flushed[n]
      /\ disk'[m] = 0 /\ latest'[m] = 0 /\ flushed'[m] = 0
  <2>1. Len(disk') = m
    BY <1>2, AppendProperties DEF CreatePage
  <2> QED BY <1>2, <1>3, <2>1, AppendProperties DEF CreatePage, Pages
<1>5. \A i \in DOMAIN items : items[i].page \in Pages
  BY ItemFields DEF TypeInv
<1>6. \A n : CachedAt(n)' = CachedAt(n)
  BY <1>1 DEF CachedAt
<1>7. ASSUME Coherent PROVE Coherent'
  BY <1>1, <1>4, <1>5, <1>6, <1>7 DEF Coherent
<1> QED BY <1>1, <1>7 DEF CacheInv, NoPageTwice

\* A fetch from the cache or from disk gives the latest version; an eviction
\* writes what it throws out.
LEMMA FetchCache ==
    ASSUME TypeInv, CacheInv, NEW c \in Client, NEW n \in Pages, Fetch(c, n)
    PROVE  CacheInv'
<1>1. latest' = latest /\ flushed' = flushed /\ strayed' = strayed
  BY DEF Fetch
<1>2. \A i \in DOMAIN items : items[i].page \in Pages
  BY ItemFields DEF TypeInv
<1>3. CASE FetchHit(c, n)
  <2>1. disk' = disk /\ unwritten' = unwritten /\ Pages' = Pages
    BY <1>3, SamePages DEF FetchHit
  <2>2. /\ DOMAIN items' = DOMAIN items
        /\ \A j \in DOMAIN items :
             /\ items'[j].page = items[j].page /\ items'[j].version = items[j].version
             /\ items'[j].changed = items[j].changed
    BY <1>3, HitEffect
  <2>3. \A m : CachedAt(m)' = CachedAt(m)
    BY <2>2 DEF CachedAt
  <2> QED BY <1>1, <2>1, <2>2, <2>3 DEF CacheInv, NoPageTwice, Coherent
<1>4. CASE FetchToRoom(c, n)
  <2>1. disk' = disk /\ unwritten' = unwritten /\ Pages' = Pages /\ CachedAt(n) = {}
    BY <1>4, RoomEffect, SamePages
  <2>2. CASE items' = items
    BY <1>1, <2>1, <2>2 DEF CacheInv, NoPageTwice, Coherent, CachedAt
  <2>3. CASE items' # items
    <3> DEFINE k == Len(items) + 1
    <3>1. /\ DOMAIN items' = DOMAIN items \cup {k} /\ k \notin DOMAIN items
          /\ \A j \in DOMAIN items : items'[j] = items[j]
          /\ items'[k] = Read(n, disk)
      BY <1>4, <2>3, RoomEffect
    <3>2. items'[k].page = n /\ items'[k].version = disk[n] /\ ~items'[k].changed
      BY <3>1 DEF Read
    <3>3. NoPageTwice'
      BY <2>1, <3>1, <3>2 DEF CacheInv, NoPageTwice, CachedAt
    <3>4. \A m \in Pages : CachedAt(m)' = {} => CachedAt(m) = {}
      BY <3>1 DEF CachedAt
    <3>5. ASSUME Coherent PROVE Coherent'
      <4>1. disk[n] = latest[n]
        BY <2>1, <3>5 DEF Coherent
      <4> QED BY <1>1, <1>2, <2>1, <3>1, <3>2, <3>4, <3>5, <4>1 DEF Coherent
    <3> QED BY <1>1, <2>1, <3>3, <3>5 DEF CacheInv
  <2> QED BY <2>2, <2>3
<1>5. CASE FetchByEviction(c, n)
  <2>1. CachedAt(n) = {} /\ Pages' = Pages
    BY <1>5, EvictionEffect
  <2>2. PICK i \in DOMAIN items :
          /\ DOMAIN items' = DOMAIN items
          /\ \A j \in DOMAIN items : j # i => items'[j] = items[j]
          /\ items'[i].changed = FALSE
          /\ ~unwritten' =>
               /\ ~unwritten
               /\ \A m \in Pages : disk'[m] = IF items[i].changed /\ m = items[i].page
                                              THEN items[i].version ELSE disk[m]
          /\ \/ items'[i].page = n /\ items'[i].version = disk'[n]
             \/ items'[i].page = items[i].page /\ items'[i].version = items[i].version
    BY <1>5, EvictionEffect
  <2>3. NoPageTwice'
    BY <2>1, <2>2 DEF CacheInv, NoPageTwice, CachedAt
  <2>4. ASSUME ~strayed', ~unwritten' PROVE Coherent'
    <3>1. Coherent
      BY <1>1, <2>2, <2>4 DEF CacheInv
    <3>2. \A m \in Pages : disk'[m] = IF items[i].changed /\ m = items[i].page
                                     THEN items[i].version ELSE disk[m]
      BY <2>2, <2>4
    <3>3. items[i].page \in Pages /\ items[i].page # n
      BY <1>2, <2>1 DEF CachedAt
    <3>4. disk'[items[i].page] = latest[items[i].page]
      BY <1>2, <3>1, <3>2 DEF Coherent
    <3>5. disk'[n] = latest[n] /\ \A m \in Pages : m # items[i].page => disk'[m] = disk[m]
      BY <2>1, <3>1, <3>2, <3>3 DEF Coherent
    <3>6. ASSUME NEW j \in DOMAIN items
          PROVE  /\ items'[j].version = latest[items'[j].page]
                 /\ ~items'[j].changed => disk'[items'[j].page] = items'[j].version
      <4>1. CASE j = i
        BY <2>2, <3>1, <3>4, <3>5, <4>1 DEF Coherent
      <4>2. CASE j # i
        <5>1. items[j].page # items[i].page
          BY <4>2 DEF CacheInv, NoPageTwice
        <5> QED BY <1>2, <2>2, <3>1, <3>5, <4>2, <5>1 DEF Coherent
      <4> QED BY <4>1, <4>2
    <3>7. ASSUME NEW m \in Pages, CachedAt(m)' = {} PROVE disk'[m] = latest[m]
      <4>1. CASE m = items[i].page
        BY <3>4, <4>1
      <4>2. CASE m # items[i].page
        <5>1. CachedAt(m) = {}
          BY <2>2, <3>7, <4>2 DEF CachedAt
        <5> QED BY <3>1, <3>5, <4>2, <5>1 DEF Coherent
      <4> QED BY <4>1, <4>2
    <3>8. ASSUME NEW m \in Pages PROVE flushed[m] <= disk'[m] /\ disk'[m] <= latest[m]
      <4>1. disk[m] \in Nat /\ flushed[m] \in Nat /\ latest[m] \in Nat
        BY PageVersions DEF TypeInv
      <4> QED BY <3>1, <3>4, <3>5, <4>1 DEF Coherent
    <3> QED BY <1>1, <2>1, <2>2, <3>6, <3>7, <3>8 DEF Coherent
  <2> QED BY <2>3, <2>4 DEF CacheInv
<1>6. CASE FetchFromFull(c, n)
  BY <1>1, <1>6 DEF FetchFromFull, CacheInv, NoPageTwice, Coherent, CachedAt, Pages
<1> QED BY <1>3, <1>4, <1>5, <1>6 DEF Fetch

\* Unless it has strayed, a change is to the page the client asked for.
LEMMA ChangeCache ==
    ASSUME TypeInv, CacheInv, NEW c \in Client, Change(c)
    PROVE  CacheInv'
<1> DEFINE h == held[c]
           n == asked[c]
<1>1. /\ disk' = disk /\ flushed' = flushed /\ unwritten' = unwritten
      /\ strayed' = (strayed \/ items[h].page # n) /\ Pages' = Pages
  BY SamePages DEF Change
<1>2. /\ h \in DOMAIN items /\ n \in Pages /\ DOMAIN items' = DOMAIN items
      /\ \A j \in DOMAIN items : j # h => items'[j] = items[j]
      /\ items'[h].page = items[h].page
      /\ items'[h].version = latest'[n] /\ items'[h].changed = TRUE
      /\ latest'[n] = latest[n] + 1
      /\ \A m \in Pages : m # n => latest'[m] = latest[m]
  BY ChangeEffect
<1>3. NoPageTwice'
  BY <1>2 DEF CacheInv, NoPageTwice
<1>4. \A m : CachedAt(m)' = CachedAt(m)
  BY <1>2 DEF CachedAt
<1>5. ASSUME ~strayed', ~unwritten' PROVE Coherent'
  <2>1. Coherent /\ items[h].page = n
    BY <1>1, <1>5 DEF CacheInv
  <2>2. ASSUME NEW j \in DOMAIN items
        PROVE  /\ items'[j].version = latest'[items'[j].page]
               /\ ~items'[j].changed => disk[items'[j].page] = items'[j].version
    <3>1. CASE j = h
      BY <1>2, <2>1, <3>1
    <3>2. CASE j # h
      <4>1. items[j].page # n /\ items[j].page \in Pages
        BY <1>2, <2>1, <3>2, ItemFields DEF CacheInv, NoPageTwice, TypeInv
      <4> QED BY <1>2, <2>1, <3>2, <4>1 DEF Coherent
    <3> QED BY <3>1, <3>2
  <2>3. ASSUME NEW m \in Pages, CachedAt(m) = {} PROVE disk[m] = latest'[m]
    BY <1>2, <2>1, <2>3 DEF Coherent, CachedAt
  <2>4. ASSUME NEW m \in Pages PROVE flushed[m] <= disk[m] /\ disk[m] <= latest'[m]
    <3>1. disk[m] \in Nat /\ flushed[m] \in Nat /\ latest[m] \in Nat
      BY PageVersions DEF TypeInv
    <3> QED BY <1>2, <2>1, <3>1 DEF Coherent
  <2> QED BY <1>1, <1>2, <1>4, <2>2, <2>3, <2>4 DEF Coherent
<1> QED BY <1>3, <1>5 DEF CacheInv

\* A flush that returns ok has written all that was behind.
LEMMA FlushCache ==
    ASSUME TypeInv, CacheInv, Flush
    PROVE  CacheInv'
<1>1. latest' = latest /\ strayed' = strayed
  BY DEF Flush
<1>2. /\ Pages' = Pages /\ DOMAIN items' = DOMAIN items
      /\ \A j \in DOMAIN items :
           items'[j].page = items[j].page /\ items'[j].version = items[j].version
  BY FlushEffect DEF CacheInv
<1>3. NoPageTwice'
  BY <1>2 DEF CacheInv, NoPageTwice
<1>4. ASSUME ~strayed', ~unwritten' PROVE Coherent'
  <2>1. /\ unwritten' = unwritten /\ flushed' = latest
        /\ \A j \in DOMAIN items :
             items[j].changed => disk'[items[j].page] = items[j].version
        /\ \A n \in Pages :
             (\A j \in DOMAIN items : items[j].page = n => ~items[j].changed)
               => disk'[n] = disk[n]
    BY <1>4, FlushEffect DEF CacheInv
  <2>2. Coherent
    BY <1>1, <1>4, <2>1 DEF CacheInv
  <2>3. ASSUME NEW n \in Pages PROVE disk'[n] = latest[n]
    <3>1. CASE \E j \in DOMAIN items : items[j].page = n /\ items[j].changed
      BY <2>1, <2>2, <3>1 DEF Coherent
    <3>2. CASE \A j \in DOMAIN items : items[j].page = n => ~items[j].changed
      <4>1. disk'[n] = disk[n]
        BY <2>1, <3>2
      <4>2. CASE CachedAt(n) = {}
        BY <2>2, <4>1, <4>2 DEF Coherent
      <4>3. CASE CachedAt(n) # {}
        BY <2>2, <3>2, <4>1, <4>3 DEF Coherent, CachedAt
      <4> QED BY <4>2, <4>3
    <3> QED BY <3>1, <3>2
  <2>4. \A n \in Pages : latest[n] \in Nat
    BY PageVersions DEF TypeInv
  <2>5. \A j \in DOMAIN items : items[j].page \in Pages
    BY ItemFields DEF TypeInv
  <2> QED BY <1>1, <1>2, <2>1, <2>2, <2>3, <2>4, <2>5 DEF Coherent
<1> QED BY <1>3, <1>4 DEF CacheInv

\* Clients that begin anew find what is on disk, and that is what was flushed.
LEMMA CrashCache ==
    ASSUME TypeInv, CacheInv, Crash
    PROVE  CacheInv'
<1>1. /\ items' = <<>> /\ latest' = disk /\ disk' = disk /\ flushed' = flushed
      /\ strayed' = strayed /\ unwritten' = unwritten /\ Pages' = Pages
  BY SamePages DEF Crash
<1>2. \A n \in Pages : disk[n] \in Nat
  BY PageVersions DEF TypeInv
<1> QED BY <1>1, <1>2 DEF CacheInv, NoPageTwice, Coherent

\* A step that leaves the disk and the content of the items alone.
LEMMA OtherCache ==
    ASSUME TypeInv, CacheInv,
           \/ \E c \in Client : Drop(c)
           \/ Close \/ Reopen \/ UNCHANGED vars
    PROVE  CacheInv'
<1>1. /\ disk' = disk /\ latest' = latest /\ flushed' = flushed
      /\ strayed' = strayed /\ unwritten' = unwritten /\ Pages' = Pages
  BY SamePages DEF Drop, Close, Reopen, vars, history
<1>2. /\ DOMAIN items' = DOMAIN items
      /\ \A j \in DOMAIN items :
           /\ items'[j].page = items[j].page /\ items'[j].version = items[j].version
           /\ items'[j].changed = items[j].changed
  BY DropEffect DEF Close, Reopen, vars
<1>3. \A m : CachedAt(m)' = CachedAt(m)
  BY <1>2 DEF CachedAt
<1> QED BY <1>1, <1>2, <1>3 DEF CacheInv, NoPageTwice, Coherent

\* Every step keeps what is in the cache and on disk in order.
LEMMA NextCache ==
    ASSUME TypeInv, CacheInv, [Next]_vars
    PROVE  CacheInv'
BY CreateCache, FetchCache, ChangeCache, FlushCache, CrashCache, OtherCache DEF Next

\* The item of a page holds its latest version, or its disk copy does.
LEMMA CacheInvariance == Spec => [](TypeInv /\ CacheInv)
BY InitTypes, InitCache, NextTypes, NextCache, PTL DEF Spec

-----------------------------------------------------------------------------
(* Who uses the items *)

\* At the start nobody holds a page.
LEMMA InitUsers == Init => UsersInv
BY DEF Init, UsersInv, HoldersCounted, CleanWhenFlushed

\* A client that held nothing is a user more of the item it gets.
LEMMA UserMore ==
    ASSUME TypeInv, NEW c \in Client, held[c] = 0,
           NEW i \in Nat \ {0}, held' = [held EXCEPT ![c] = i]
    PROVE  /\ Cardinality(Users(i)') = Cardinality(Users(i)) + 1
           /\ \A j \in Nat \ {0, i} : Users(j)' = Users(j)
<1>1. held \in [Client -> 0..Len(items)]
  BY DEF TypeInv, TypeOK
<1>2. Users(i)' = Users(i) \cup {c} /\ c \notin Users(i)
  BY <1>1 DEF Users
<1>3. IsFiniteSet(Users(i))
  BY PageCacheAssumption, FS_Subset DEF Users
<1>4. Cardinality(Users(i)') = Cardinality(Users(i)) + 1
  BY <1>2, <1>3, FS_AddElement
<1>5. \A j \in Nat \ {0, i} : Users(j)' = Users(j)
  BY <1>1 DEF Users
<1> QED BY <1>4, <1>5

\* A client that lets go is a user less, and was one.
LEMMA UserLess ==
    ASSUME TypeInv, NEW c \in Client, NEW i \in Nat \ {0}, held[c] = i,
           held' = [held EXCEPT ![c] = 0]
    PROVE  /\ Cardinality(Users(i)') = Cardinality(Users(i)) - 1
           /\ Cardinality(Users(i)) \in Nat \ {0}
           /\ \A j \in Nat \ {0, i} : Users(j)' = Users(j)
<1>1. held \in [Client -> 0..Len(items)]
  BY DEF TypeInv, TypeOK
<1>2. Users(i)' = Users(i) \ {c} /\ c \in Users(i)
  BY <1>1 DEF Users
<1>3. IsFiniteSet(Users(i))
  BY PageCacheAssumption, FS_Subset DEF Users
<1>4. Cardinality(Users(i)') = Cardinality(Users(i)) - 1
  BY <1>2, <1>3, FS_RemoveElement
<1>5. Cardinality(Users(i)) \in Nat \ {0}
  BY <1>2, <1>3, FS_CardinalityType, FS_EmptySet
<1>6. \A j \in Nat \ {0, i} : Users(j)' = Users(j)
  BY <1>1 DEF Users
<1> QED BY <1>4, <1>5, <1>6

\* HoldersCounted, with Users.
LEMMA CountsByUsers ==
    HoldersCounted <=> (~stolen => /\ \A i \in DOMAIN items :
                                        items[i].use = Cardinality(Users(i))
                                   /\ status # "aborted")
BY DEF HoldersCounted, Users

\* A fetch counts its client, unless it takes an item from others.
LEMMA FetchUsers ==
    ASSUME TypeInv, UsersInv, NEW c \in Client, NEW n \in Pages, Fetch(c, n)
    PROVE  UsersInv'
<1>1. held[c] = 0 /\ status = "ok"
  BY DEF Fetch, Ready
<1>2. DOMAIN items = 1..Len(items) /\ Len(items) \in Nat
      /\ \A j \in DOMAIN items : items[j].use \in Nat
  BY ItemFields DEF TypeInv, TypeOK
<1>3. CASE FetchHit(c, n)
  <2>1. PICK i \in CachedAt(n) :
          /\ Holds(c, i, n)
          /\ DOMAIN items' = DOMAIN items
          /\ \A j \in DOMAIN items :
               items'[j].use = IF j = i THEN items[j].use + 1 ELSE items[j].use
    BY <1>3, HitEffect
  <2>2. i \in Nat \ {0} /\ i \in DOMAIN items
    BY <1>2 DEF CachedAt
  <2>3. /\ Cardinality(Users(i)') = Cardinality(Users(i)) + 1
        /\ \A j \in Nat \ {0, i} : Users(j)' = Users(j)
    BY <1>1, <2>1, <2>2, UserMore DEF Holds
  <2>4. status' = status /\ stolen' = stolen /\ rc' = "ok"
    BY <1>3, <2>1 DEF FetchHit, Holds
  <2>5. ASSUME ~stolen', NEW j \in DOMAIN items PROVE items'[j].use = Cardinality(Users(j)')
    <3>1. items[j].use = Cardinality(Users(j)) /\ j \in Nat \ {0}
      BY <1>2, <2>4, <2>5, CountsByUsers DEF UsersInv
    <3> QED BY <2>1, <2>3, <3>1
  <2> QED BY <1>1, <2>1, <2>4, <2>5 DEF UsersInv, HoldersCounted, CleanWhenFlushed, Users
<1>4. CASE FetchToRoom(c, n)
  <2> PICK k \in Nat \ {0} : k = Len(items) + 1
    BY <1>2
  <2>1. CASE Failed /\ items' = items
    BY <1>4, <2>1 DEF FetchToRoom, Failed, clients, UsersInv, HoldersCounted, CleanWhenFlushed
  <2>2. CASE ~(Failed /\ items' = items)
    <3>1. /\ Holds(c, k, n) /\ DOMAIN items' = DOMAIN items \cup {k}
          /\ k \notin DOMAIN items
          /\ \A j \in DOMAIN items : items'[j] = items[j]
          /\ items'[k] = Read(n, disk)
      BY <1>4, <2>2, RoomEffect
    <3>2. items'[k].use = 1
      BY <3>1 DEF Read
    <3>3. /\ Cardinality(Users(k)') = Cardinality(Users(k)) + 1
          /\ \A j \in Nat \ {0, k} : Users(j)' = Users(j)
      BY <1>1, <1>2, <3>1, UserMore DEF Holds
    <3>4. Users(k) = {}
      BY <1>2 DEF Users, TypeInv, TypeOK
    <3>5. Cardinality(Users(k)') = 1
      <4>1. Cardinality(Users(k)) = 0
        BY <3>4, FS_EmptySet
      <4> QED BY <3>3, <4>1
    <3>6. status' = status /\ stolen' = stolen /\ rc' = "ok"
      BY <1>4, <3>1 DEF FetchToRoom, Holds
    <3>7. ASSUME ~stolen', NEW j \in DOMAIN items' PROVE items'[j].use = Cardinality(Users(j)')
      <4>1. CASE j = k
        BY <3>2, <3>5, <4>1
      <4>2. CASE j # k
        <5>1. j \in DOMAIN items /\ j \in Nat \ {0, k}
          BY <1>2, <3>1, <4>2
        <5>2. items[j].use = Cardinality(Users(j))
          BY <3>6, <3>7, <5>1, CountsByUsers DEF UsersInv
        <5> QED BY <3>1, <3>3, <5>1, <5>2
      <4> QED BY <4>1, <4>2
    <3> QED BY <1>1, <3>6, <3>7 DEF UsersInv, HoldersCounted, CleanWhenFlushed, Users
  <2> QED BY <2>1, <2>2
<1>5. CASE FetchByEviction(c, n)
  <2>1. PICK i \in DOMAIN items :
          /\ DOMAIN items' = DOMAIN items
          /\ \A j \in DOMAIN items : j # i => items'[j] = items[j]
          /\ \/ Holds(c, i, n) /\ stolen'
             \/ items'[i].use = items[i].use /\ Failed /\ stolen' = stolen
    BY <1>5, EvictionEffect
  <2>2. status' = status /\ rc' # "flushed"
    BY <1>5, <2>1 DEF FetchByEviction, Holds, Failed
  <2>3. CASE stolen'
    BY <2>2, <2>3 DEF UsersInv, HoldersCounted, CleanWhenFlushed
  <2>4. CASE ~stolen'
    <3>1. held' = held /\ ~stolen /\ \A j \in DOMAIN items : items'[j].use = items[j].use
      BY <2>1, <2>4 DEF Failed, clients
    <3> QED BY <2>1, <2>2, <3>1 DEF UsersInv, HoldersCounted, CleanWhenFlushed
  <2> QED BY <2>3, <2>4
<1>6. CASE FetchFromFull(c, n)
  BY <1>6 DEF FetchFromFull, clients, UsersInv, HoldersCounted, CleanWhenFlushed
<1> QED BY <1>3, <1>4, <1>5, <1>6 DEF Fetch

\* A drop never meets its assert as long as users are counted.
LEMMA DropUsers ==
    ASSUME TypeInv, UsersInv, NEW c \in Client, Drop(c)
    PROVE  UsersInv'
<1> PICK i \in Nat \ {0} : held[c] = i
  BY DEF Drop, TypeInv, TypeOK
<1>1. /\ i \in DOMAIN items /\ DOMAIN items' = DOMAIN items
      /\ \A j \in DOMAIN items :
           items'[j].use = IF j = i /\ items[j].use > 0
                           THEN items[j].use - 1 ELSE items[j].use
      /\ items[i].use > 0 => status' = status
  BY DropEffect
<1>2. DOMAIN items = 1..Len(items) /\ Len(items) \in Nat
  BY DEF TypeInv, TypeOK
<1>3. /\ Cardinality(Users(i)') = Cardinality(Users(i)) - 1
      /\ Cardinality(Users(i)) \in Nat \ {0}
      /\ \A j \in Nat \ {0, i} : Users(j)' = Users(j)
  BY UserLess DEF Drop
<1>4. status = "ok" /\ stolen' = stolen /\ rc' = "ok"
  BY DEF Drop, Ready, history
<1>5. ASSUME ~stolen'
      PROVE  /\ \A j \in DOMAIN items' : items'[j].use = Cardinality(Users(j)')
             /\ status' # "aborted"
  <2>1. \A j \in DOMAIN items : items[j].use = Cardinality(Users(j))
    BY <1>4, <1>5, CountsByUsers DEF UsersInv
  <2>2. items[i].use > 0
    BY <1>1, <1>3, <2>1
  <2>3. ASSUME NEW j \in DOMAIN items PROVE items'[j].use = Cardinality(Users(j)')
    <3>1. CASE j = i
      BY <1>1, <1>3, <2>1, <2>2, <3>1
    <3>2. CASE j # i
      BY <1>1, <1>2, <1>3, <2>1, <3>2
    <3> QED BY <3>1, <3>2
  <2> QED BY <1>1, <1>4, <2>2, <2>3
<1> QED BY <1>4, <1>5 DEF UsersInv, HoldersCounted, CleanWhenFlushed, Users

\* Close finds what its asserts say.
LEMMA CloseUsers ==
    ASSUME TypeInv, UsersInv, Close
    PROVE  UsersInv'
<1>1. /\ items' = items /\ held' = held /\ stolen' = stolen /\ rc' = "ok"
      /\ rc = "flushed" /\ \A c \in Client : held[c] = 0
      /\ status = "ok"
  BY DEF Close, Ready, clients, history
<1>2. ASSUME ~stolen PROVE status' = "ok"
  <2>1. \A i \in DOMAIN items : items[i].changed = FALSE
    BY <1>1 DEF UsersInv, CleanWhenFlushed
  <2>2. ASSUME NEW i \in DOMAIN items PROVE items[i].use = 0
    <3>1. i # 0 /\ items[i].use = Cardinality(Users(i))
      BY <1>2, CountsByUsers DEF UsersInv, TypeInv, TypeOK
    <3>2. Users(i) = {}
      BY <1>1, <3>1 DEF Users
    <3> QED BY <3>1, <3>2, FS_EmptySet
  <2> QED BY <1>1, <2>1, <2>2 DEF Close
<1> QED BY <1>1, <1>2 DEF UsersInv, HoldersCounted, CleanWhenFlushed

\* The other steps leave the counts alone; only who holds a page changes one.
LEMMA OtherUsers ==
    ASSUME TypeInv, CacheInv, UsersInv,
           \/ CreatePage \/ Flush \/ Reopen \/ Crash \/ UNCHANGED vars
           \/ \E c \in Client : Change(c)
    PROVE  UsersInv'
<1> USE DEF UsersInv, HoldersCounted, CleanWhenFlushed
<1>1. CASE CreatePage \/ Reopen \/ UNCHANGED vars
  BY <1>1 DEF CreatePage, Reopen, vars, clients, call, history
<1>2. CASE Flush
  <2>1. held' = held /\ status' = status /\ stolen' = stolen
    BY <1>2 DEF Flush, clients
  <2>2. /\ DOMAIN items' = DOMAIN items
        /\ \A j \in DOMAIN items : items'[j].use = items[j].use
        /\ rc' = "flushed" => \A j \in DOMAIN items : items'[j].changed = FALSE
    BY <1>2, FlushEffect DEF CacheInv
  <2> QED BY <2>1, <2>2
<1>3. CASE Crash
  BY <1>3 DEF Crash
<1>4. ASSUME NEW c \in Client, Change(c) PROVE UsersInv'
  <2>1. held' = held /\ status' = status /\ stolen' = stolen /\ rc' = rc /\ held[c] # 0
    BY <1>4 DEF Change, clients, call
  <2>2. /\ DOMAIN items' = DOMAIN items
        /\ \A j \in DOMAIN items : items'[j].use = items[j].use
    BY <1>4, ChangeEffect
  <2> QED BY <2>1, <2>2
<1> QED BY <1>1, <1>2, <1>3, <1>4

\* Every step keeps the counts.
LEMMA NextUsers ==
    ASSUME TypeInv, CacheInv, UsersInv, [Next]_vars
    PROVE  UsersInv'
BY FetchUsers, DropUsers, CloseUsers, OtherUsers DEF Next

\* All layers together: what the theorems below follow from.
LEMMA Invariance == Spec => [](TypeInv /\ CacheInv /\ UsersInv)
BY InitUsers, NextUsers, CacheInvariance, PTL DEF Spec

-----------------------------------------------------------------------------
(* The theorems *)

\* The variables of the cache have their types, and it never has more items
\* than cache.pmax.
THEOREM CacheTyped == Spec => []TypeOK
BY Typing, PTL DEF TypeInv

\* tm_file_fetch_page: the latest change of a page is in its one item or, when
\* it has none, on disk, whatever is evicted, fails or crashes.
THEOREM CacheShowsLatest == Spec => []LatestIsSeen
<1>1. TypeInv /\ CacheInv => LatestIsSeen
  <2> SUFFICES ASSUME TypeInv, CacheInv, ~strayed, ~unwritten, NEW n \in Pages
               PROVE  /\ Cardinality(CachedAt(n)) <= 1
                      /\ CachedAt(n) = {} => disk[n] = latest[n]
                      /\ \A i \in CachedAt(n) :
                           /\ items[i].version = latest[n]
                           /\ ~items[i].changed => disk[n] = latest[n]
    BY DEF LatestIsSeen
  <2>1. Coherent /\ NoPageTwice
    BY DEF CacheInv
  <2>2. CASE CachedAt(n) = {}
    BY <2>1, <2>2, FS_EmptySet DEF Coherent
  <2>3. ASSUME NEW i \in CachedAt(n) PROVE CachedAt(n) = {i}
    BY <2>1, <2>3 DEF CachedAt, NoPageTwice
  <2>4. CASE CachedAt(n) # {}
    <3>1. Cardinality(CachedAt(n)) = 1
      BY <2>3, <2>4, FS_Singleton
    <3> QED BY <2>1, <2>4, <3>1 DEF Coherent, CachedAt
  <2> QED BY <2>2, <2>4
<1> QED BY <1>1, CacheInvariance, PTL

\* tm_file_flush_cache: what it has written when it returns ok stays written.
THEOREM FlushedIsKept == Spec => []FlushedSurvives
<1>1. CacheInv => FlushedSurvives
  <2> SUFFICES ASSUME CacheInv, ~strayed, ~unwritten, NEW n \in Pages
               PROVE  disk[n] >= flushed[n]
    BY DEF FlushedSurvives
  <2> QED BY DEF CacheInv, Coherent
<1> QED BY <1>1, CacheInvariance, PTL

\* usecount: it is the number of clients that hold the item, so the asserts of
\* drop and close do not fail, until an eviction has taken an item in use.
THEOREM UsersAreCounted == Spec => []HoldersCounted
BY Invariance, PTL DEF UsersInv

-----------------------------------------------------------------------------
(* The meta store *)

BaseInv == TypeInv /\ CacheInv /\ UsersInv

Holder == {c \in Client : held[c] # 0}

\* The page of the call that is going on is the only one held, in the item it
\* was fetched to: the code counts on this when it takes a pointer from fetch.
ClientInv ==
    /\ ~stolen /\ ~strayed
    /\ \A c, d \in Holder : c = d
    /\ job.step \in {"none", "fetch"} => Holder = {}
    /\ \A c \in Holder : items[held[c]].page = asked[c] /\ asked[c] = PageOf(job.call)

\* The argument of a call stays good until it is used.
JobInv ==
    /\ job = [call |-> job.call, step |-> job.step, arg |-> job.arg]
    /\ job.call = "dispose_topic" /\ job.step \in {"fetch", "work"} => job.arg \in given
    /\ job.call = "add_model" => job.arg \in Name

\* A page is missing only after a failed call, or in a file cut short.
FailureSeen ==
    /\ job.step = "work" /\ status = "ok" /\ Holder = {} => failures > 0
    /\ stopped => failures > 0 \/ Len(disk) < 3

\* The pages as the clients see them, and as the next process will.
PageText == [count : Nat, cells : Seq(Nat \cup Name)]
Texts == UNION {[V -> PageText] : V \in SUBSET (0..MaxVersion)}
Now(n) == text[n][latest[n]]
OnDisk(n) == text[n][disk[n]]

TextKept ==
    /\ text \in Seq(Texts) /\ Len(text) = Len(disk)
    /\ \A n \in Pages : disk[n] \in DOMAIN text[n] /\ latest[n] \in DOMAIN text[n]

\* The topics in use and the free list of a page: numbers up to the count, none
\* free twice, none both free and in use.
FreeListKept(page, used) ==
    /\ ToSet(page.cells) \subseteq 1..page.count
    /\ IsInjective(page.cells)
    /\ used \subseteq 1..page.count
    /\ used \cap ToSet(page.cells) = {}

TopicsKept ==
    IF TopicPage \in Pages
    THEN FreeListKept(Now(TopicPage), given) /\ FreeListKept(OnDisk(TopicPage), kept.given)
    ELSE given = {} /\ kept.given = {}

ModelsKept ==
    IF ModelPage \in Pages
    THEN /\ added \subseteq ToSet(Now(ModelPage).cells)
         /\ kept.added \subseteq ToSet(OnDisk(ModelPage).cells)
    ELSE added = {} /\ kept.added = {}

Content == ~twice /\ TextKept /\ TopicsKept /\ ModelsKept

ControlInv == ClientInv /\ JobInv /\ FailureSeen

MetaInv == BaseInv /\ ControlInv /\ (~unwritten => Content)

-----------------------------------------------------------------------------
(* Free lists and lists of names *)

\* A number from the free list, or one more than ever, is not in use; the rest
\* of the list is as good as it was.
LEMMA TopicTaken ==
    ASSUME NEW page \in PageText, NEW used, FreeListKept(page, used)
    PROVE  /\ NewTopic(page) \notin used
           /\ WithNewTopic(page) \in PageText
           /\ FreeListKept(WithNewTopic(page), used \cup {NewTopic(page)})
<1> DEFINE cells == page.cells
           n == Len(cells)
<1>1. cells \in Seq(Nat \cup Name) /\ n \in Nat /\ DOMAIN cells = 1..n /\ page.count \in Nat
  BY DEF PageText
<1>2. CASE cells # <<>>
  <2> DEFINE rest == SubSeq(cells, 1, n - 1)
  <2>1. n \in 1..n /\ NewTopic(page) = cells[n] /\ WithNewTopic(page) = [page EXCEPT !.cells = rest]
    BY <1>1, <1>2, EmptySeq DEF NewTopic, WithNewTopic, TakeFree, Last, Front
  <2>2. /\ rest \in Seq(Nat \cup Name) /\ Len(rest) = n - 1
        /\ \A i \in 1..(n - 1) : rest[i] = cells[i]
    <3>1. \A i \in 1..(n - 1) : cells[i] \in Nat \cup Name
      BY <1>1
    <3> QED BY <1>1, <2>1, <3>1, SubSeqProperties
  <2>3. WithNewTopic(page) \in PageText /\ WithNewTopic(page).cells = rest
        /\ WithNewTopic(page).count = page.count
    BY <2>1, <2>2 DEF PageText
  <2>4. DOMAIN rest = 1..(n - 1) /\ \A i \in 1..(n - 1) : i \in DOMAIN cells
    BY <1>1, <2>2, LenProperties
  <2>5. ToSet(rest) \subseteq ToSet(cells) /\ IsInjective(rest)
    BY <2>2, <2>4 DEF ToSet, IsInjective, FreeListKept
  <2>6. cells[n] \in ToSet(cells) /\ cells[n] \notin ToSet(rest)
    <3>1. cells[n] \in ToSet(cells)
      BY <1>1, <2>1 DEF ToSet
    <3>2. ASSUME NEW i \in 1..(n - 1), cells[i] = cells[n] PROVE FALSE
      BY <1>1, <2>1, <2>4, <3>2 DEF IsInjective, FreeListKept
    <3> QED BY <2>2, <2>4, <3>1, <3>2 DEF ToSet
  <2> QED BY <2>1, <2>3, <2>5, <2>6 DEF FreeListKept
<1>3. CASE cells = <<>>
  <2>1. NewTopic(page) = page.count + 1 /\ WithNewTopic(page) = [page EXCEPT !.count = page.count + 1]
    BY <1>3 DEF NewTopic, WithNewTopic
  <2>2. /\ WithNewTopic(page) \in PageText /\ WithNewTopic(page).cells = cells
        /\ WithNewTopic(page).count = page.count + 1
    BY <1>1, <2>1 DEF PageText
  <2>3. ToSet(cells) = {}
    BY <1>1, <1>3 DEF ToSet
  <2>4. page.count + 1 \notin used /\ used \cup {page.count + 1} \subseteq 1..(page.count + 1)
    <3>1. \A u \in used : u \in 1..page.count
      BY DEF FreeListKept
    <3> QED BY <1>1, <3>1
  <2> QED BY <2>1, <2>2, <2>3, <2>4 DEF FreeListKept
<1> QED BY <1>2, <1>3

\* A topic that was in use goes to the free list.
LEMMA TopicFreed ==
    ASSUME NEW page \in PageText, NEW used, FreeListKept(page, used), NEW topic \in used
    PROVE  /\ WithFree(page, topic) \in PageText
           /\ FreeListKept(WithFree(page, topic), used \ {topic})
<1> DEFINE cells == page.cells
           n == Len(cells)
           more == Append(cells, topic)
<1>1. /\ cells \in Seq(Nat \cup Name) /\ n \in Nat /\ DOMAIN cells = 1..n /\ page.count \in Nat
      /\ topic \in 1..page.count /\ topic \in Nat \cup Name
  BY DEF PageText, FreeListKept
<1>2. /\ more \in Seq(Nat \cup Name) /\ Len(more) = n + 1 /\ more[n + 1] = topic
      /\ \A i \in 1..n : more[i] = cells[i]
  BY <1>1, AppendProperties
<1>3. DOMAIN more = 1..(n + 1)
  BY <1>2, LenProperties
<1>4. ToSet(more) = ToSet(cells) \cup {topic}
  <2>1. \A i \in 1..(n + 1) : i \in 1..n \/ i = n + 1
    BY <1>1
  <2> QED BY <1>1, <1>2, <1>3, <2>1 DEF ToSet
<1>5. topic \notin ToSet(cells)
  BY DEF FreeListKept
<1>6. IsInjective(more)
  <2>1. \A i \in 1..n : cells[i] # topic
    BY <1>1, <1>5 DEF ToSet
  <2>2. \A i \in 1..(n + 1) : i \in 1..n \/ i = n + 1
    BY <1>1
  <2> QED BY <1>1, <1>2, <1>3, <2>1, <2>2 DEF IsInjective, FreeListKept
<1>7. /\ WithFree(page, topic) \in PageText /\ WithFree(page, topic).cells = more
      /\ WithFree(page, topic).count = page.count
  BY <1>2 DEF WithFree, PageText
<1> QED BY <1>1, <1>4, <1>5, <1>6, <1>7 DEF FreeListKept

\* A name is added behind the others.
LEMMA NameAdded ==
    ASSUME NEW page \in PageText, NEW name \in Name
    PROVE  /\ WithName(page, name) \in PageText
           /\ ToSet(WithName(page, name).cells) = ToSet(page.cells) \cup {name}
<1> DEFINE cells == page.cells
           n == Len(cells)
           more == Append(cells, name)
<1>1. /\ cells \in Seq(Nat \cup Name) /\ n \in Nat /\ DOMAIN cells = 1..n
      /\ page.count + 1 \in Nat
  BY DEF PageText
<1>2. /\ more \in Seq(Nat \cup Name) /\ Len(more) = n + 1 /\ more[n + 1] = name
      /\ \A i \in 1..n : more[i] = cells[i]
  BY <1>1, AppendProperties
<1>3. DOMAIN more = 1..(n + 1)
  BY <1>2, LenProperties
<1>4. ToSet(more) = ToSet(cells) \cup {name}
  <2>1. \A i \in 1..(n + 1) : i \in 1..n \/ i = n + 1
    BY <1>1
  <2> QED BY <1>1, <1>2, <1>3, <2>1 DEF ToSet
<1>5. WithName(page, name) \in PageText /\ WithName(page, name).cells = more
  BY <1>1, <1>2 DEF WithName, PageText
<1> QED BY <1>4, <1>5

\* Fewer topics in use than a page allows for is no harm.
LEMMA FewerUsed ==
    ASSUME NEW page, NEW used, FreeListKept(page, used), NEW fewer \in SUBSET used
    PROVE  FreeListKept(page, fewer)
BY DEF FreeListKept

-----------------------------------------------------------------------------
(* The cache below *)

\* A step of the meta store is one of the cache, but for the failed write in
\* open, which only counts.
LEMMA CacheStep ==
    ASSUME MetaNext
    PROVE  \/ [Next]_vars
           \/ /\ failures < MaxFailures /\ failures' = failures + 1
              /\ UNCHANGED <<disk, items, clients, open, call, history>>
<1>1. CASE FetchForJob
  BY <1>1 DEF FetchForJob, Fetch, Next
<1>2. CASE DropForJob
  BY <1>2 DEF DropForJob, Next
<1>3. CASE WorkOnPage
  BY <1>3 DEF WorkOnPage, Next
<1>4. CASE Calls
  BY <1>4 DEF Calls, Begin
<1> QED BY <1>1, <1>2, <1>3, <1>4
        DEF MetaNext, OpenCreates, OpenFails, NoPageForJob, CloseFlushes, CloseCloses,
            NewProcess, Next

\* So the invariants of the cache hold under the meta store.
LEMMA BaseStep ==
    ASSUME BaseInv, [MetaNext]_<<vars, metaVars>>
    PROVE  BaseInv'
<1>1. CASE [Next]_vars
  BY <1>1, NextTypes, NextCache, NextUsers DEF BaseInv
<1>2. CASE /\ failures < MaxFailures /\ failures' = failures + 1
           /\ UNCHANGED <<disk, items, clients, open, call, history>>
  <2>1. /\ disk' = disk /\ items' = items /\ held' = held /\ asked' = asked
        /\ open' = open /\ rc' = rc /\ status' = status /\ latest' = latest
        /\ flushed' = flushed /\ stolen' = stolen /\ strayed' = strayed
        /\ unwritten' = unwritten /\ Pages' = Pages /\ Item' = Item
    BY <1>2, SamePages DEF clients, call, history
  <2>2. failures' \in 0..MaxFailures
    BY <1>2, PageCacheAssumption DEF BaseInv, TypeInv, TypeOK
  <2>3. TypeInv'
    BY <2>1, <2>2 DEF BaseInv, TypeInv, TypeOK, HoldsWhatItAsked
  <2>4. CacheInv'
    BY <2>1 DEF BaseInv, CacheInv, NoPageTwice, Coherent, CachedAt
  <2>5. UsersInv'
    BY <2>1 DEF BaseInv, UsersInv, HoldersCounted, CleanWhenFlushed
  <2> QED BY <2>3, <2>4, <2>5 DEF BaseInv
<1> QED BY <1>1, <1>2, CacheStep DEF vars

\* The cache's invariant and the types of the meta store hold together.
LEMMA MetaBase == MetaSpec => []BaseInv
BY InitTypes, InitCache, InitUsers, BaseStep, PTL DEF MetaSpec, BaseInv

-----------------------------------------------------------------------------
(* One page at a time *)

\* With no page held, no item is in use, so none is thrown out.
LEMMA NothingEvicted ==
    ASSUME BaseInv, ClientInv, Holder = {}, NEW c \in Client, NEW n \in Pages
    PROVE  ~FetchByEviction(c, n)
<1> SUFFICES ASSUME NEW i \in Victims PROVE FALSE
  BY DEF FetchByEviction
<1>1. i \in DOMAIN items /\ items[i].use # 0
  BY DEF Victims
<1>2. i # 0 /\ items[i].use = Cardinality(Users(i))
  BY <1>1, CountsByUsers DEF BaseInv, UsersInv, ClientInv, TypeInv, TypeOK
<1>3. Users(i) = {}
  BY <1>2 DEF Users, Holder
<1>4. Cardinality(Users(i)) = 0
  BY <1>3, FS_EmptySet
<1> QED BY <1>1, <1>2, <1>4

\* A fetch for a call: the page is held, the cache is full, or it has failed.
\* In any case the disk stays as it is.
LEMMA FetchOutcome ==
    ASSUME BaseInv, ClientInv, Holder = {},
           NEW c \in Client, NEW n \in Pages, Fetch(c, n)
    PROVE  /\ disk' = disk /\ latest' = latest /\ unwritten' = unwritten
           /\ stolen' = stolen /\ strayed' = strayed
           /\ \/ /\ held' = [held EXCEPT ![c] = held'[c]] /\ held'[c] # 0
                 /\ asked' = [asked EXCEPT ![c] = n] /\ items'[held'[c]].page = n
              \/ held' = held /\ asked' = asked /\ status' = "full"
              \/ held' = held /\ asked' = asked /\ failures' = failures + 1
<1>1. latest' = latest /\ strayed' = strayed
  BY DEF Fetch
<1>2. held \in [Client -> 0..Len(items)] /\ Len(items) \in Nat /\ DOMAIN items = 1..Len(items)
  BY DEF BaseInv, TypeInv, TypeOK
<1>3. CASE FetchHit(c, n)
  <2>1. PICK i \in CachedAt(n) :
          Holds(c, i, n) /\ \A j \in DOMAIN items : items'[j].page = items[j].page
    BY <1>3, HitEffect DEF BaseInv
  <2>2. i \in DOMAIN items /\ i # 0 /\ items[i].page = n
    BY <1>2 DEF CachedAt
  <2>3. held'[c] = i
    BY <1>2, <2>1 DEF Holds
  <2> QED BY <1>1, <1>3, <2>1, <2>2, <2>3 DEF FetchHit, Holds
<1>4. CASE FetchToRoom(c, n)
  <2>1. disk' = disk /\ unwritten' = unwritten /\ stolen' = stolen
    BY <1>4 DEF FetchToRoom
  <2>2. CASE Failed
    BY <1>1, <2>1, <2>2 DEF Failed, clients
  <2>3. CASE ~Failed
    <3>1. Holds(c, Len(items) + 1, n) /\ items'[Len(items) + 1] = Read(n, disk)
      BY <1>4, <2>3, RoomEffect DEF BaseInv
    <3>2. held'[c] = Len(items) + 1 /\ Len(items) + 1 # 0
      BY <1>2, <3>1 DEF Holds
    <3>3. items'[held'[c]].page = n
      BY <3>1, <3>2 DEF Read
    <3>4. held' = [held EXCEPT ![c] = held'[c]] /\ asked' = [asked EXCEPT ![c] = n]
      BY <3>1, <3>2 DEF Holds
    <3> QED BY <1>1, <2>1, <3>2, <3>3, <3>4
  <2> QED BY <2>2, <2>3
<1>5. CASE FetchFromFull(c, n)
  BY <1>1, <1>5 DEF FetchFromFull, clients
<1> QED BY <1>3, <1>4, <1>5, NothingEvicted DEF Fetch

\* The job goes on to another step with the same call and argument.
LEMMA NextStep ==
    ASSUME JobInv, NEW step, job' = [job EXCEPT !.step = step]
    PROVE  /\ job' = [call |-> job.call, step |-> step, arg |-> job.arg]
           /\ job'.call = job.call /\ job'.step = step /\ job'.arg = job.arg
BY DEF JobInv

\* Who holds what, as long as no page is fetched, changed or dropped.
LEMMA HoldersStay ==
    ASSUME BaseInv, ClientInv,
           held' = held, asked' = asked, stolen' = stolen, strayed' = strayed,
           \A j \in DOMAIN items : items'[j].page = items[j].page,
           job'.step \in {"none", "fetch"} => Holder = {},
           job'.call = job.call \/ Holder = {}
    PROVE  ClientInv' /\ Holder' = Holder
<1>1. Holder' = Holder
  BY DEF Holder
<1>2. ASSUME NEW c \in Holder
      PROVE  items'[held'[c]].page = asked'[c] /\ asked'[c] = PageOf(job'.call)
  <2>1. held[c] \in DOMAIN items
    BY HeldItem DEF Holder, BaseInv
  <2> QED BY <2>1 DEF ClientInv
<1> QED BY <1>1, <1>2 DEF ClientInv, PageOf

\* At the start no client holds a page and no job is under way.
LEMMA InitClient == Init /\ MetaInit => ClientInv /\ JobInv /\ FailureSeen
<1> SUFFICES ASSUME Init, MetaInit PROVE ClientInv /\ JobInv /\ FailureSeen
  OBVIOUS
<1>1. Holder = {}
  BY DEF Init, Holder
<1> QED BY <1>1 DEF Init, MetaInit, NoJob, ClientInv, JobInv, FailureSeen

\* Open, and a call that begins: nothing is held.
LEMMA OpenControl ==
    ASSUME BaseInv, ControlInv, OpenCreates \/ OpenFails \/ Calls
    PROVE  ControlInv'
<1> USE DEF ControlInv
<1>1. /\ held' = held /\ asked' = asked /\ items' = items /\ status' = status
      /\ stolen' = stolen /\ strayed' = strayed /\ given' = given
  BY DEF OpenCreates, CreatePage, OpenFails, Calls, Begin, vars, clients, call, history
<1>2. failures \in Nat
  BY PageCacheAssumption DEF BaseInv, TypeInv, TypeOK
<1>3. CASE OpenCreates \/ OpenFails
  <2>1. job' = job
    BY <1>3 DEF OpenCreates, OpenFails
  <2>2. ClientInv' /\ Holder' = Holder
    BY <1>1, <2>1, HoldersStay DEF ClientInv
  <2>3. CASE OpenCreates
    BY <1>1, <2>1, <2>2, <2>3 DEF OpenCreates, CreatePage, JobInv, FailureSeen
  <2>4. CASE OpenFails
    <3>1. failures' = failures + 1 /\ disk' = disk
      BY <2>4 DEF OpenFails
    <3> QED BY <1>1, <1>2, <2>1, <2>2, <3>1 DEF JobInv, FailureSeen
  <2> QED BY <1>3, <2>2, <2>3, <2>4
<1>4. ASSUME NEW call_, NEW arg, Begin(call_, arg),
             call_ = "dispose_topic" => arg \in given, call_ = "add_model" => arg \in Name
      PROVE  ControlInv'
  <2>1. /\ job' = [call |-> call_, step |-> "fetch", arg |-> arg]
        /\ failures' = failures /\ stopped' = stopped /\ disk' = disk
        /\ job.step = "none"
    BY <1>4 DEF Begin, Idle, NoJob, vars
  <2>2. ClientInv' /\ Holder' = Holder
    BY <1>1, <2>1, HoldersStay DEF ClientInv
  <2>3. JobInv'
    BY <1>1, <1>4, <2>1 DEF JobInv
  <2> QED BY <2>1, <2>2, <2>3 DEF FailureSeen
<1> QED BY <1>3, <1>4 DEF Calls

\* The result of a fetch is the page, or nothing and a reason for it.
LEMMA FetchControl ==
    ASSUME BaseInv, ControlInv, FetchForJob
    PROVE  ControlInv'
<1> USE DEF ControlInv
<1>1. PICK c \in Client : Fetch(c, PageOf(job.call))
  BY DEF FetchForJob
<1>2. Holder = {} /\ PageOf(job.call) \in Pages /\ ~stopped
  BY <1>1 DEF FetchForJob, Working, ClientInv, Fetch
<1>3. /\ job'.call = job.call /\ job'.step = "work" /\ job'.arg = job.arg
      /\ job' = [call |-> job'.call, step |-> job'.step, arg |-> job'.arg]
      /\ job.step = "fetch" /\ given' = given /\ stopped' = stopped
  BY NextStep DEF FetchForJob, Working
<1>4. JobInv'
  BY <1>3 DEF JobInv
<1>5. stolen' = stolen /\ strayed' = strayed
  BY <1>1, <1>2, FetchOutcome
<1>6. failures \in Nat /\ held \in [Client -> 0..Len(items)] /\ asked \in [Client -> 0..Len(disk)]
  BY PageCacheAssumption DEF BaseInv, TypeInv, TypeOK
<1>7. CASE /\ held' = [held EXCEPT ![c] = held'[c]] /\ held'[c] # 0
           /\ asked' = [asked EXCEPT ![c] = PageOf(job.call)]
           /\ items'[held'[c]].page = PageOf(job.call)
  <2>1. \A d \in Client : d # c => held'[d] = 0
    BY <1>2, <1>6, <1>7 DEF Holder
  <2>2. Holder' = {c}
    BY <1>7, <2>1 DEF Holder
  <2>3. asked'[c] = PageOf(job.call)
    BY <1>6, <1>7
  <2> QED BY <1>2, <1>3, <1>4, <1>5, <1>7, <2>2, <2>3 DEF ClientInv, FailureSeen, PageOf
<1>8. CASE held' = held /\ asked' = asked /\ (status' = "full" \/ failures' = failures + 1)
  <2>1. Holder' = {}
    BY <1>2, <1>8 DEF Holder
  <2> QED BY <1>2, <1>3, <1>4, <1>5, <1>6, <1>8, <2>1 DEF ClientInv, FailureSeen
<1> QED BY <1>1, <1>2, <1>7, <1>8, FetchOutcome

\* The assert on a page that is not there.
LEMMA NoPageControl ==
    ASSUME BaseInv, ControlInv, NoPageForJob
    PROVE  ControlInv'
<1> USE DEF ControlInv
<1>1. /\ held' = held /\ asked' = asked /\ items' = items /\ status' = status
      /\ stolen' = stolen /\ strayed' = strayed /\ given' = given /\ job' = job
      /\ failures' = failures /\ disk' = disk
  BY DEF NoPageForJob, vars, clients, call, history
<1>2. ClientInv' /\ Holder' = Holder
  BY <1>1, HoldersStay DEF ClientInv
<1>3. failures > 0 \/ Len(disk) < 3
  <2>1. CASE Working("work") /\ \A c \in Client : held[c] = 0
    BY <2>1 DEF Working, Ready, Holder, FailureSeen
  <2>2. CASE Working("fetch") /\ PageOf(job.call) \notin Pages
    <3>1. PageOf(job.call) \in {1, 2} /\ Len(disk) \in Nat
      BY DEF PageOf, TopicPage, ModelPage, BaseInv, TypeInv, TypeOK
    <3> QED BY <2>2, <3>1 DEF Pages
  <2> QED BY <2>1, <2>2 DEF NoPageForJob
<1> QED BY <1>1, <1>2, <1>3 DEF JobInv, FailureSeen

\* The work of a call is done on the page it asked for.
LEMMA WorkControl ==
    ASSUME BaseInv, ControlInv, WorkOnPage
    PROVE  ControlInv'
<1> USE DEF ControlInv
<1>1. PICK c \in Client : held[c] # 0 /\ (Change(c) \/ UNCHANGED vars)
  BY DEF WorkOnPage
<1>2. /\ job'.call = job.call /\ job'.step = "drop" /\ job'.arg = job.arg
      /\ job' = [call |-> job'.call, step |-> job'.step, arg |-> job'.arg]
      /\ stopped' = stopped /\ ~stopped
  BY NextStep DEF WorkOnPage, Working
<1>3. held' = held /\ asked' = asked /\ stolen' = stolen
  BY <1>1 DEF Change, clients, vars, history
<1>4. c \in Holder
  BY <1>1 DEF Holder
<1>5. strayed' = strayed
  <2>1. items[held[c]].page = asked[c] /\ strayed = FALSE
    BY <1>4 DEF ClientInv, BaseInv, TypeInv, TypeOK
  <2>2. CASE Change(c)
    BY <2>1, <2>2 DEF Change
  <2> QED BY <1>1, <2>2 DEF vars, history
<1>6. \A j \in DOMAIN items : items'[j].page = items[j].page
  BY <1>1, ChangeEffect DEF vars, BaseInv
<1>7. ClientInv'
  BY <1>2, <1>3, <1>5, <1>6, HoldersStay
<1> QED BY <1>2, <1>7 DEF JobInv, FailureSeen

\* The call ends and lets its page go.
LEMMA DropControl ==
    ASSUME BaseInv, ControlInv, DropForJob
    PROVE  ControlInv'
<1> USE DEF ControlInv
<1>1. PICK c \in Client : Drop(c)
  BY DEF DropForJob
<1>2. /\ held' = [held EXCEPT ![c] = 0] /\ held[c] # 0 /\ c \in Holder
      /\ stolen' = stolen /\ strayed' = strayed
  BY <1>1 DEF Drop, history, Holder
<1>3. Holder' = {}
  BY <1>2 DEF Holder, ClientInv, BaseInv, TypeInv, TypeOK
<1>4. job' = NoJob /\ stopped' = stopped /\ ~stopped
  BY DEF DropForJob, Working
<1> QED BY <1>2, <1>3, <1>4 DEF ClientInv, JobInv, FailureSeen, NoJob

\* Closing, and a new process.
LEMMA CloseControl ==
    ASSUME BaseInv, ControlInv, CloseFlushes \/ CloseCloses \/ NewProcess
    PROVE  ControlInv'
<1> USE DEF ControlInv
<1>1. CASE CloseFlushes \/ CloseCloses
  <2>1. /\ held' = held /\ asked' = asked /\ stolen' = stolen /\ strayed' = strayed
        /\ job' = job /\ job.step = "none" /\ job.call = "none"
        /\ stopped' = stopped /\ ~stopped
    <3>1. CASE CloseFlushes
      BY <3>1 DEF CloseFlushes, Flush, Idle, NoJob, clients
    <3>2. CASE CloseCloses
      BY <3>2 DEF CloseCloses, Close, Idle, NoJob, clients, history, metaVars
    <3> QED BY <1>1, <3>1, <3>2
  <2>2. \A j \in DOMAIN items : items'[j].page = items[j].page
    BY <1>1, FlushEffect DEF CloseFlushes, CloseCloses, Close, BaseInv, CacheInv
  <2>3. ClientInv'
    BY <2>1, <2>2, HoldersStay DEF ClientInv
  <2> QED BY <2>1, <2>3 DEF JobInv, FailureSeen
<1>2. CASE NewProcess
  <2>1. /\ \A c \in Client : held'[c] = 0
        /\ stolen' = stolen /\ strayed' = strayed /\ job' = NoJob /\ stopped' = FALSE
    BY <1>2 DEF NewProcess, Crash
  <2>2. Holder' = {}
    BY <2>1 DEF Holder
  <2> QED BY <2>1, <2>2 DEF ClientInv, JobInv, FailureSeen, NoJob
<1> QED BY <1>1, <1>2

\* Every step of the meta store keeps who holds what, and why.
LEMMA ControlStep ==
    ASSUME BaseInv, ControlInv, [MetaNext]_<<vars, metaVars>>
    PROVE  ControlInv'
<1>1. CASE UNCHANGED <<vars, metaVars>>
  BY <1>1 DEF ControlInv, ClientInv, JobInv, FailureSeen, Holder, vars, metaVars,
              clients, call, history
<1> QED BY <1>1, OpenControl, FetchControl, NoPageControl, WorkControl, DropControl,
           CloseControl DEF MetaNext

\* The meta store is the only client, and holds the page of its job alone.
LEMMA MetaControl == MetaSpec => [](BaseInv /\ ControlInv)
<1>1. Init /\ MetaInit => ControlInv
  BY InitClient DEF ControlInv
<1> QED BY <1>1, MetaBase, ControlStep, PTL DEF MetaSpec

-----------------------------------------------------------------------------
(* What is on the pages *)

\* An empty file has no content to lose.
LEMMA InitContent == Init /\ MetaInit => Content
<1> SUFFICES ASSUME Init, MetaInit PROVE Content
  OBVIOUS
<1>1. Pages = {} /\ text \in Seq(Texts) /\ Len(text) = 0 /\ Len(disk) = 0
  BY DEF Init, MetaInit, Pages
<1> QED BY <1>1 DEF MetaInit, Content, TextKept, TopicsKept, ModelsKept

\* What a page contains in one of its versions.
LEMMA TextOfVersion ==
    ASSUME TextKept, NEW n \in Pages, NEW v \in DOMAIN text[n]
    PROVE  text[n][v] \in PageText
<1>1. text[n] \in Texts
  BY ElementOfSeq DEF TextKept, Pages
<1> QED BY <1>1 DEF Texts

\* What the meta store knows and what a new process would read agree on what
\* has been handed out.
LEMMA NowAndOnDisk ==
    ASSUME TextKept, NEW n \in Pages
    PROVE  Now(n) \in PageText /\ OnDisk(n) \in PageText
BY TextOfVersion DEF Now, OnDisk, TextKept

\* Nothing changes as long as texts, versions and histories do not.
LEMMA ContentStays ==
    ASSUME Content, disk' = disk, latest' = latest,
           UNCHANGED <<text, given, twice, added, kept>>
    PROVE  Content'
BY DEF Content, TextKept, TopicsKept, ModelsKept, Now, OnDisk, Pages

\* Open makes empty pages.
LEMMA OpenContent ==
    ASSUME BaseInv, Content, OpenCreates
    PROVE  Content'
<1> PICK m \in Nat : m = Len(disk) + 1
  BY DEF BaseInv, TypeInv, TypeOK
<1> DEFINE new == [v \in {0} |-> EmptyPage]
<1>1. /\ Len(disk) \in Nat /\ disk \in Seq(0..MaxVersion) /\ 0 \in 0..MaxVersion
      /\ text \in Seq(Texts) /\ Len(text) = Len(disk)
  BY PageCacheAssumption DEF BaseInv, TypeInv, TypeOK, Content, TextKept
<1>2. latest \in Seq(0..MaxVersion) /\ Len(latest) = Len(disk)
  BY <1>1, FunctionIsSeq DEF BaseInv, TypeInv, TypeOK, Pages
<1>3. EmptyPage \in PageText /\ ToSet(EmptyPage.cells) = {} /\ IsInjective(EmptyPage.cells)
  <2>1. <<>> \in Seq(Nat \cup Name) /\ DOMAIN <<>> = {}
    OBVIOUS
  <2> QED BY <2>1 DEF EmptyPage, PageText, ToSet, IsInjective
<1>4. new \in Texts
  <2>1. new \in [{0} -> PageText] /\ {0} \in SUBSET (0..MaxVersion)
    BY <1>1, <1>3
  <2> QED BY <2>1 DEF Texts
<1>5. /\ disk' \in Seq(0..MaxVersion) /\ Len(disk') = m /\ disk'[m] = 0
      /\ \A n \in Pages : disk'[n] = disk[n]
  BY <1>1, AppendProperties DEF OpenCreates, CreatePage, Pages
<1>6. latest'[m] = 0 /\ \A n \in Pages : latest'[n] = latest[n]
  BY <1>1, <1>2, AppendProperties DEF OpenCreates, CreatePage, Pages
<1>7. /\ text' \in Seq(Texts) /\ Len(text') = m /\ text'[m] = new
      /\ \A n \in Pages : text'[n] = text[n]
  BY <1>1, <1>4, AppendProperties DEF OpenCreates, Pages
<1>8. Pages' = Pages \cup {m} /\ m \notin Pages
  BY <1>1, <1>5 DEF Pages
<1>9. TextKept'
  BY <1>5, <1>6, <1>7, <1>8 DEF Content, TextKept
<1>10. /\ \A n \in Pages : Now(n)' = Now(n) /\ OnDisk(n)' = OnDisk(n)
       /\ Now(m)' = EmptyPage /\ OnDisk(m)' = EmptyPage
  BY <1>5, <1>6, <1>7 DEF Now, OnDisk
<1>11. given' = given /\ added' = added /\ kept' = kept /\ twice' = twice
  BY DEF OpenCreates
<1>12. FreeListKept(EmptyPage, {})
  BY <1>3 DEF FreeListKept
<1>13. TopicsKept'
  <2>1. CASE TopicPage \in Pages
    BY <1>8, <1>10, <1>11, <2>1 DEF Content, TopicsKept
  <2>2. CASE TopicPage = m
    BY <1>8, <1>10, <1>11, <1>12, <2>2 DEF Content, TopicsKept
  <2>3. CASE TopicPage \notin Pages /\ TopicPage # m
    BY <1>8, <1>11, <2>3 DEF Content, TopicsKept
  <2> QED BY <2>1, <2>2, <2>3
<1>14. ModelsKept'
  <2>1. CASE ModelPage \in Pages
    BY <1>8, <1>10, <1>11, <2>1 DEF Content, ModelsKept
  <2>2. CASE ModelPage = m
    BY <1>8, <1>10, <1>11, <2>2 DEF Content, ModelsKept
  <2>3. CASE ModelPage \notin Pages /\ ModelPage # m
    BY <1>8, <1>11, <2>3 DEF Content, ModelsKept
  <2> QED BY <2>1, <2>2, <2>3
<1> QED BY <1>9, <1>11, <1>13, <1>14 DEF Content

\* A page is rewritten: clients see the new text, the disk keeps the old one.
LEMMA PageRewritten ==
    ASSUME BaseInv, Coherent, TextKept, NEW c \in Client, Change(c),
           NEW n \in Pages, asked[c] = n, NEW page \in PageText, Rewritten(n, page)
    PROVE  /\ TextKept'
           /\ Now(n)' = page /\ OnDisk(n)' = OnDisk(n)
           /\ \A m \in Pages \ {n} : Now(m)' = Now(m) /\ OnDisk(m)' = OnDisk(m)
<1>1. /\ disk' = disk /\ Pages' = Pages /\ Len(disk) \in Nat
      /\ latest'[n] = latest[n] + 1 /\ \A m \in Pages : m # n => latest'[m] = latest[m]
  <2>1. disk' = disk /\ Pages' = Pages /\ Len(disk) \in Nat
    <3>1. disk' = disk
      BY DEF Change
    <3>2. Len(disk) \in Nat
      BY DEF BaseInv, TypeInv, TypeOK
    <3> QED BY <3>1, <3>2 DEF Pages
  <2>2. latest'[n] = latest[n] + 1 /\ \A m \in Pages : m # n => latest'[m] = latest[m]
    BY ChangeEffect DEF BaseInv
  <2> QED BY <2>1, <2>2
<1>2. disk[n] \in Nat /\ latest[n] \in Nat /\ disk[n] <= latest[n]
      /\ disk[n] \in 0..MaxVersion
  BY PageVersions DEF Coherent, BaseInv, TypeInv
<1>3. latest'[n] # disk[n] /\ latest'[n] \in 0..MaxVersion
  BY <1>1, <1>2, PageCacheAssumption DEF Change
<1> DEFINE new == [v \in {latest'[n], disk[n]} |-> IF v = latest'[n] THEN page ELSE text[n][v]]
<1>4. text' = [text EXCEPT ![n] = new]
  BY <1>1 DEF Rewritten
<1>5. new[latest'[n]] = page /\ new[disk[n]] = OnDisk(n) /\ DOMAIN new = {latest'[n], disk[n]}
  BY <1>3 DEF OnDisk
<1>6. new \in Texts
  <2>1. OnDisk(n) \in PageText
    BY NowAndOnDisk
  <2>2. new \in [{latest'[n], disk[n]} -> PageText]
    BY <2>1 DEF OnDisk
  <2>3. {latest'[n], disk[n]} \in SUBSET (0..MaxVersion)
    BY <1>2, <1>3
  <2> QED BY <2>2, <2>3 DEF Texts
<1>7. /\ text' \in Seq(Texts) /\ Len(text') = Len(text) /\ text'[n] = new
      /\ \A m \in Pages : m # n => text'[m] = text[m]
  <2>1. text \in Seq(Texts) /\ Pages = 1..Len(text)
    BY DEF TextKept, Pages
  <2> QED BY <1>4, <1>6, <2>1, ExceptSeq
<1>8. TextKept'
  BY <1>1, <1>5, <1>7 DEF TextKept
<1> QED BY <1>1, <1>5, <1>7, <1>8 DEF Now, OnDisk

\* The work of each call, on the page as the clients see it.
LEMMA WorkContent ==
    ASSUME BaseInv, ControlInv, ~unwritten, Content, WorkOnPage
    PROVE  Content'
<1> PICK n \in {ModelPage, TopicPage} : n = PageOf(job.call)
  BY DEF PageOf
<1>1. PICK c \in Client : held[c] # 0 /\
        LET page == text[n][items[held[c]].version]
        IN \/ /\ job.call = "load_model_list"
              /\ UNCHANGED <<vars, text, given, twice, added>>
           \/ /\ job.call = "get_new_topic"
              /\ Change(c)
              /\ Rewritten(n, WithNewTopic(page))
              /\ given' = given \cup {NewTopic(page)}
              /\ twice' = (twice \/ NewTopic(page) \in given)
              /\ UNCHANGED added
           \/ /\ job.call = "dispose_topic"
              /\ Change(c)
              /\ Rewritten(n, WithFree(page, job.arg))
              /\ given' = given \ {job.arg}
              /\ UNCHANGED <<twice, added>>
           \/ /\ job.call = "add_model"
              /\ Change(c)
              /\ Rewritten(n, WithName(page, job.arg))
              /\ added' = added \cup {job.arg}
              /\ UNCHANGED <<given, twice>>
  BY DEF WorkOnPage
<1>2. kept' = kept /\ job.step = "work"
  BY DEF WorkOnPage, Working
<1>3. /\ held[c] \in DOMAIN items /\ n \in Pages
      /\ asked[c] = n /\ items[held[c]].page = n
  BY <1>1, HeldItem DEF ControlInv, ClientInv, Holder, BaseInv
<1>4. Coherent /\ TextKept
  BY DEF ControlInv, ClientInv, BaseInv, CacheInv, Content
<1>5. text[n][items[held[c]].version] = Now(n) /\ Now(n) \in PageText
  BY <1>3, <1>4, NowAndOnDisk DEF Coherent, Now
<1>6. CASE job.call = "load_model_list"
  <2>1. disk' = disk /\ latest' = latest /\ UNCHANGED <<text, given, twice, added, kept>>
    BY <1>1, <1>2, <1>6 DEF vars, history
  <2> QED BY <2>1, ContentStays
<1>7. ASSUME Change(c)
      PROVE  Pages' = Pages /\ TopicPage # ModelPage
  BY <1>7, SamePages DEF Change, TopicPage, ModelPage
<1>8. CASE job.call = "get_new_topic"
  <2>1. n = TopicPage
    BY <1>8 DEF PageOf
  <2>2. /\ Change(c) /\ Rewritten(n, WithNewTopic(Now(n)))
        /\ given' = given \cup {NewTopic(Now(n))} /\ added' = added
        /\ twice' = (twice \/ NewTopic(Now(n)) \in given)
    BY <1>1, <1>5, <1>8
  <2>3. FreeListKept(Now(n), given) /\ FreeListKept(OnDisk(n), kept.given)
    BY <1>3, <2>1 DEF Content, TopicsKept
  <2>4. /\ NewTopic(Now(n)) \notin given
        /\ WithNewTopic(Now(n)) \in PageText
        /\ FreeListKept(WithNewTopic(Now(n)), given')
    BY <1>5, <2>2, <2>3, TopicTaken
  <2>5. /\ TextKept'
        /\ Now(n)' = WithNewTopic(Now(n)) /\ OnDisk(n)' = OnDisk(n)
        /\ \A m \in Pages \ {n} : Now(m)' = Now(m) /\ OnDisk(m)' = OnDisk(m)
    BY <1>3, <1>4, <2>2, <2>4, PageRewritten
  <2>6. TopicsKept'
    BY <1>2, <1>3, <1>7, <2>1, <2>2, <2>3, <2>4, <2>5 DEF TopicsKept
  <2>7. ModelsKept'
    BY <1>2, <1>7, <2>1, <2>2, <2>5 DEF Content, ModelsKept
  <2>8. ~twice'
    BY <2>2, <2>4 DEF Content
  <2> QED BY <2>5, <2>6, <2>7, <2>8 DEF Content
<1>9. CASE job.call = "dispose_topic"
  <2>1. n = TopicPage
    BY <1>9 DEF PageOf
  <2>2. /\ Change(c) /\ Rewritten(n, WithFree(Now(n), job.arg))
        /\ given' = given \ {job.arg} /\ added' = added /\ twice' = twice
    BY <1>1, <1>5, <1>9
  <2>3. FreeListKept(Now(n), given) /\ FreeListKept(OnDisk(n), kept.given)
        /\ job.arg \in given
    BY <1>2, <1>3, <1>9, <2>1 DEF Content, TopicsKept, ControlInv, JobInv
  <2>4. /\ WithFree(Now(n), job.arg) \in PageText
        /\ FreeListKept(WithFree(Now(n), job.arg), given')
    BY <1>5, <2>2, <2>3, TopicFreed
  <2>5. /\ TextKept'
        /\ Now(n)' = WithFree(Now(n), job.arg) /\ OnDisk(n)' = OnDisk(n)
        /\ \A m \in Pages \ {n} : Now(m)' = Now(m) /\ OnDisk(m)' = OnDisk(m)
    BY <1>3, <1>4, <2>2, <2>4, PageRewritten
  <2>6. TopicsKept'
    BY <1>2, <1>3, <1>7, <2>1, <2>2, <2>3, <2>4, <2>5 DEF TopicsKept
  <2>7. ModelsKept'
    BY <1>2, <1>7, <2>1, <2>2, <2>5 DEF Content, ModelsKept
  <2> QED BY <2>2, <2>5, <2>6, <2>7 DEF Content
<1>10. CASE job.call = "add_model"
  <2>1. n = ModelPage
    BY <1>10 DEF PageOf
  <2>2. /\ Change(c) /\ Rewritten(n, WithName(Now(n), job.arg))
        /\ added' = added \cup {job.arg} /\ given' = given /\ twice' = twice
    BY <1>1, <1>5, <1>10
  <2>3. job.arg \in Name
    BY <1>10 DEF ControlInv, JobInv
  <2>4. /\ WithName(Now(n), job.arg) \in PageText
        /\ ToSet(WithName(Now(n), job.arg).cells) = ToSet(Now(n).cells) \cup {job.arg}
    BY <1>5, <2>3, NameAdded
  <2>5. /\ TextKept'
        /\ Now(n)' = WithName(Now(n), job.arg) /\ OnDisk(n)' = OnDisk(n)
        /\ \A m \in Pages \ {n} : Now(m)' = Now(m) /\ OnDisk(m)' = OnDisk(m)
    BY <1>3, <1>4, <2>2, <2>4, PageRewritten
  <2>6. TopicsKept'
    BY <1>2, <1>7, <2>1, <2>2, <2>5 DEF Content, TopicsKept
  <2>7. ModelsKept'
    BY <1>2, <1>3, <1>7, <2>1, <2>2, <2>4, <2>5 DEF Content, ModelsKept
  <2> QED BY <2>2, <2>5, <2>6, <2>7 DEF Content
<1> QED BY <1>1, <1>6, <1>8, <1>9, <1>10

\* Only versions are dropped that are neither on disk nor the latest.
LEMMA TextsRestricted ==
    ASSUME TextKept, BaseInv, BaseInv', Pages' = Pages, NEW keep,
           \A n \in Pages : disk'[n] \in keep[n] /\ latest'[n] \in keep[n]
                           /\ keep[n] \subseteq DOMAIN text[n],
           text' = [n \in Pages |-> Restrict(text[n], keep[n])]
    PROVE  /\ TextKept'
           /\ \A n \in Pages : /\ Now(n)' = text[n][latest'[n]]
                               /\ OnDisk(n)' = text[n][disk'[n]]
<1>1. /\ text \in Seq(Texts) /\ Len(text) = Len(disk) /\ Len(disk) \in Nat
      /\ Pages = 1..Len(disk) /\ Len(disk') \in Nat /\ Pages' = 1..Len(disk')
  BY DEF TextKept, BaseInv, TypeInv, TypeOK, Pages
<1>2. ASSUME NEW n \in Pages
      PROVE  /\ text'[n] \in Texts /\ DOMAIN text'[n] = keep[n]
             /\ \A v \in keep[n] : text'[n][v] = text[n][v]
  <2>1. text'[n] = [v \in keep[n] |-> text[n][v]]
    BY DEF Restrict
  <2>2. text[n] \in Texts
    BY <1>1, ElementOfSeq
  <2>3. PICK V \in SUBSET (0..MaxVersion) : text[n] \in [V -> PageText]
    BY <2>2 DEF Texts
  <2>4. keep[n] \in SUBSET (0..MaxVersion) /\ text'[n] \in [keep[n] -> PageText]
    BY <2>1, <2>3
  <2>5. text'[n] \in Texts
    BY <2>4 DEF Texts
  <2> QED BY <2>1, <2>5
<1>3. text' \in [1..Len(disk) -> Texts]
  BY <1>1, <1>2
<1>4. text' \in Seq(Texts) /\ Len(text') = Len(disk)
  BY <1>1, <1>3, FunctionIsSeq
<1>5. Len(disk') = Len(disk)
  BY <1>1
<1>6. TextKept'
  BY <1>2, <1>4, <1>5 DEF TextKept
<1> QED BY <1>2, <1>6 DEF Now, OnDisk

\* A flush that returns ok: the disk has what the clients see.
LEMMA FlushContent ==
    ASSUME BaseInv, BaseInv', ControlInv, ControlInv', Content,
           ~unwritten, ~unwritten', CloseFlushes
    PROVE  Content'
<1>1. Flush /\ text' = [n \in Pages |-> Restrict(text[n], {disk'[n], latest[n]})]
      /\ UNCHANGED <<given, twice, added>>
  BY DEF CloseFlushes
<1>2. /\ Pages' = Pages /\ rc' = "flushed" /\ flushed' = latest /\ latest' = latest
  BY <1>1, FlushEffect DEF BaseInv, CacheInv, Flush
<1>3. \A n \in Pages : disk'[n] = latest[n]
  <2>1. Coherent'
    BY DEF BaseInv, CacheInv, ControlInv, ClientInv
  <2>2. ASSUME NEW n \in Pages PROVE disk'[n] = latest[n]
    <3>1. disk'[n] \in Nat /\ latest[n] \in Nat
      <4>1. latest[n] \in Nat
        BY PageVersions DEF BaseInv, TypeInv
      <4>2. disk'[n] \in 0..MaxVersion
        BY <1>2, ElementOfSeq DEF BaseInv, TypeInv, TypeOK, Pages
      <4> QED BY <4>1, <4>2, PageCacheAssumption
    <3>2. latest[n] <= disk'[n] /\ disk'[n] <= latest[n]
      BY <1>2, <2>1 DEF Coherent
    <3> QED BY <3>1, <3>2
  <2> QED BY <2>2
<1> DEFINE keep == [n \in Pages |-> {disk'[n], latest[n]}]
<1>4. /\ text' = [n \in Pages |-> Restrict(text[n], keep[n])]
      /\ \A n \in Pages : disk'[n] \in keep[n] /\ latest'[n] \in keep[n]
                           /\ keep[n] \subseteq DOMAIN text[n]
  BY <1>1, <1>2, <1>3 DEF Content, TextKept
<1>5. TextKept' /\ \A n \in Pages : Now(n)' = Now(n) /\ OnDisk(n)' = Now(n)
  <2> HIDE DEF keep
  <2>1. TextKept' /\ \A n \in Pages : /\ Now(n)' = text[n][latest'[n]]
                                      /\ OnDisk(n)' = text[n][disk'[n]]
    BY <1>2, <1>4, TextsRestricted DEF Content
  <2> QED BY <1>2, <1>3, <2>1 DEF Now
<1>6. kept' = [given |-> given, added |-> added]
  BY <1>2 DEF CloseFlushes
<1> QED BY <1>1, <1>2, <1>5, <1>6 DEF Content, TopicsKept, ModelsKept

\* A new process goes on with what the last good flush has written.
LEMMA ProcessContent ==
    ASSUME BaseInv, BaseInv', Content, NewProcess
    PROVE  Content'
<1>1. /\ disk' = disk /\ latest' = disk /\ Pages' = Pages /\ twice' = twice
      /\ text' = [n \in Pages |-> Restrict(text[n], {disk[n]})]
      /\ given' = given \cap kept.given /\ added' = added \cap kept.added
      /\ kept' = [given |-> given', added |-> added']
  BY SamePages DEF NewProcess, Crash
<1> DEFINE keep == [n \in Pages |-> {disk[n]}]
<1>2. /\ text' = [n \in Pages |-> Restrict(text[n], keep[n])]
      /\ \A n \in Pages : disk'[n] \in keep[n] /\ latest'[n] \in keep[n]
                           /\ keep[n] \subseteq DOMAIN text[n]
  BY <1>1 DEF Content, TextKept
<1>3. TextKept' /\ \A n \in Pages : Now(n)' = OnDisk(n) /\ OnDisk(n)' = OnDisk(n)
  <2> HIDE DEF keep
  <2>1. TextKept' /\ \A n \in Pages : /\ Now(n)' = text[n][latest'[n]]
                                      /\ OnDisk(n)' = text[n][disk'[n]]
    BY <1>1, <1>2, TextsRestricted DEF Content
  <2> QED BY <1>1, <2>1 DEF OnDisk
<1>4. TopicsKept'
  <2>1. CASE TopicPage \in Pages
    <3>1. FreeListKept(OnDisk(TopicPage), kept.given)
      BY <2>1 DEF Content, TopicsKept
    <3>2. FreeListKept(OnDisk(TopicPage), given')
      BY <1>1, <3>1, FewerUsed
    <3> QED BY <1>1, <1>3, <2>1, <3>2 DEF TopicsKept
  <2>2. CASE TopicPage \notin Pages
    BY <1>1, <2>2 DEF Content, TopicsKept
  <2> QED BY <2>1, <2>2
<1>5. ModelsKept'
  BY <1>1, <1>3 DEF Content, ModelsKept
<1> QED BY <1>1, <1>3, <1>4, <1>5 DEF Content

\* Every step keeps the content of the pages, unless it is a failed write.
LEMMA ContentStep ==
    ASSUME BaseInv, BaseInv', ControlInv, ControlInv', ~unwritten => Content,
           [MetaNext]_<<vars, metaVars>>
    PROVE  ~unwritten' => Content'
<1> SUFFICES ASSUME ~unwritten' PROVE Content'
  OBVIOUS
<1>1. CASE OpenCreates
  BY <1>1, OpenContent DEF OpenCreates, CreatePage
<1>2. CASE OpenFails \/ Calls \/ NoPageForJob \/ DropForJob \/ CloseCloses
           \/ UNCHANGED <<vars, metaVars>>
  <2>1. /\ disk' = disk /\ latest' = latest /\ unwritten' = unwritten
        /\ UNCHANGED <<text, given, twice, added, kept>>
    BY <1>2 DEF OpenFails, Calls, Begin, NoPageForJob, DropForJob, Drop, CloseCloses, Close,
                vars, metaVars, history
  <2> QED BY <2>1, ContentStays
<1>3. CASE FetchForJob
  <2>1. PICK c \in Client : Fetch(c, PageOf(job.call))
    BY <1>3 DEF FetchForJob
  <2>2. Holder = {} /\ PageOf(job.call) \in Pages
    BY <1>3, <2>1 DEF FetchForJob, Working, ControlInv, ClientInv, Fetch
  <2>3. disk' = disk /\ latest' = latest /\ unwritten' = unwritten
    BY <2>1, <2>2, FetchOutcome DEF ControlInv
  <2> QED BY <1>3, <2>3, ContentStays DEF FetchForJob
<1>4. CASE WorkOnPage
  <2>1. ~unwritten
    BY <1>4 DEF WorkOnPage, Change, vars, history
  <2> QED BY <1>4, <2>1, WorkContent
<1>5. CASE CloseFlushes
  <2>1. ~unwritten
    BY <1>5, FlushEffect DEF CloseFlushes, BaseInv, CacheInv
  <2> QED BY <1>5, <2>1, FlushContent
<1>6. CASE NewProcess
  BY <1>6, ProcessContent DEF NewProcess, Crash
<1> QED BY <1>1, <1>2, <1>3, <1>4, <1>5, <1>6 DEF MetaNext

\* All layers together: what the theorems below follow from.
LEMMA MetaInvariance == MetaSpec => []MetaInv
<1>1. Init /\ MetaInit => (~unwritten => Content)
  BY InitContent
<1> QED BY <1>1, MetaControl, ContentStep, PTL DEF MetaSpec, MetaInv

-----------------------------------------------------------------------------
(* The theorems *)

\* metastore.c, metapage.c: no topic number is handed out while it is in use,
\* no model and no topic gets lost, and no assert fails without a failed system
\* call or a file cut short, over crashes and new processes.
THEOREM MetaStoreIsKept == MetaSpec => []MetaStoreKept
<1>1. MetaInv => MetaStoreKept
  <2> SUFFICES ASSUME MetaInv PROVE MetaStoreKept
    OBVIOUS
  <2>1. stopped => failures > 0 \/ Len(disk) < 3
    BY DEF MetaInv, ControlInv, FailureSeen
  <2>2. ASSUME ~unwritten, added # {} PROVE added \subseteq ToSet(Shown(ModelPage))
    BY <2>2 DEF MetaInv, Content, ModelsKept, Shown, Now
  <2>3. ASSUME ~unwritten, given # {} PROVE given \cap ToSet(Shown(TopicPage)) = {}
    BY <2>3 DEF MetaInv, Content, TopicsKept, FreeListKept, Shown, Now
  <2>4. ~unwritten => ~twice
    BY DEF MetaInv, Content
  <2> QED BY <2>1, <2>2, <2>3, <2>4 DEF MetaStoreKept
<1> QED BY <1>1, MetaInvariance, PTL

\* tmfile.c:30, for the only client there is: the meta store's page is locked
\* while it holds it, and no item in use is ever thrown out, however small the
\* cache.
THEOREM MetaStoreIsLocked == MetaSpec => [](HeldIsLocked /\ ~stolen /\ ~strayed)
<1>1. MetaInv => HeldIsLocked /\ ~stolen /\ ~strayed
  BY DEF MetaInv, ControlInv, ClientInv, Holder, HeldIsLocked
<1> QED BY <1>1, MetaInvariance, PTL

\* So, for the meta store, the counts of users are right without a condition,
\* and drop and close never meet their asserts.
THEOREM MetaStoreIsCounted ==
    MetaSpec => [](status # "aborted" /\ \A i \in DOMAIN items :
                      items[i].use = Cardinality({c \in Client : held[c] = i}))
<1>1. MetaInv => /\ status # "aborted"
                 /\ \A i \in DOMAIN items :
                      items[i].use = Cardinality({c \in Client : held[c] = i})
  BY DEF MetaInv, BaseInv, UsersInv, HoldersCounted, ControlInv, ClientInv
<1> QED BY <1>1, MetaInvariance, PTL

=============================================================================
