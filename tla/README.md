# TLA+ models of TMTK

TMTK (Topic Maps Tool Kit) is a single-threaded C library that keeps a topic
map graph: topics have properties, properties have values, and topics that have
the same value for an identity property are the same subject and are merged.
The program `tm` reads topic maps, thesaurus files and RDF files into it and
answers queries. This directory holds TLA+ models of the graph core, of its
stores, of what reads files and models into it, of `tm` itself and of the page
cache of the file store with its client, TLC configurations for them, and TLAPS
proofs about the property store and the value stores with the maps they
implement, the merge lists, the topic map graph, the page cache, the meta store
and the reading of documents. Source paths below are those of the repository,
prefixed with `src/`.

## Inventory

| Component | State it keeps | Operations | What makes it correct |
| --- | --- | --- | --- |
| property store (`stores/memstore/propertystore.c`, `_pstore_*` of `src/topicmap.c`) | table topic -> vid, topic array per vid, flag `is_normalized` | insert, remove, normalize, put, vput, replace | table and arrays inverse; values live as long as they have topics; sets of a combining property disjoint |
| value stores (`textsetstore.c`, `asidp.c`, `topicsetstore.c`, `textstore.c`, `integerstore.c`) | vid -> value, counter, indexes | lookup, create, delete, scans | scans find exactly the values they should; disjointness in `textsetstore.c` |
| merge lists (`tm_topicmap_add_mergelist`) | list of topic sets | add a set, uniting those it meets | the lists are the classes of topics to be merged |
| topic map graph (`src/topicmap.c`) | stores of all properties, merge lists, disposed topics, transactions, models | add subject, property, assertion; fully_merge; require_model; lookups and scans | merging decided by shared values alone; nothing lost; nothing refers to a disposed topic |
| value types (`src/asidp.c`, `src/vt_topicset.c`, `textset.c`, ...) | none | combine, compare, replace topics | substitution reaches every topic in a value |
| meta stores (`memstore/metastore.c`, `filestore/metastore.c`, `metapage.c`) | model list, topic counter, free list | new topic, add model, load | a topic number is never handed out twice |
| page cache (`filestore/tmfile.c`, `page.c`) | file, cached pages with use counts and changed flags | create, fetch, drop, flush, open, close | a page in use stays; the latest version is seen; what was flushed survives a crash |
| omnivore (`src/omnivore.c`) | element stack, ignored depth, line buffer | callbacks of expat and raptor, lines | text goes to the element it stands in; an error ends the reading |
| processing models (`www-df/xtm_simple.c`, `iso2788.c`, `rdf_common.c`) | current subject and assertion, tables of topics, rules | element, line and statement handlers | the map is what the file says |
| disclosure framework, TMADL (`www-df/df.c`, `tmadl_parse.c`, `src/model.c`) | stack of parsers, the model that is read | look up a model, read its file | an answer is a whole model or an error; models that require each other end |
| model loading (`src/topicmap.c`, `memstore/metastore.c`) | loaded models, transactions, running calls | open, require_model, start and end of a transaction, close | what is required is there first; transactions pair up |
| queries and views (`src/topicmap.c`, `www-df/view_*.c`, `src/params.c`) | none | get topic, get property, scans, four views | all of what the map knows of a topic is told, or the error |
| dispatch (`src/storage.c`, `src/tm.c`) | handles, error string, scans | pass calls on | a scan is fetched up to its end |
| containers (`list.c`, `table.c`, `stack.c`, `topicset.c`) | memory | the usual ones | no use of freed memory |
| applications (`apps/tm.c`, ...) | options, query buffer | load models, read files, merge, query, dump | every run ends |
| not linked: `query.c`, `stmql.c`, `slow_asidp.c`, all of `filestore/`, `www-df/views/` | | | |

How they interact: `tm` opens a topic map on a storage descriptor and requires
models. A required model is looked up in the disclosure framework, which reads
its file and, inside the callback of expat, the files of the models it requires;
each property of a loaded model gets a value store and a property store. Then
`tm` parses maps with omnivore, whose callbacks reach a processing model, which
calls `add_subject`, `add_property_to_topic` and `add_topic_assertion`, and
calls `fully_merge`. That function asks each property store to normalize itself;
the store calls back to `add_mergelist`; the lists then drive replacement in all
stores and in all values. Queries look topics up in the merged map and run a
view handler, which reports events to `tm`.

What is hard here is not concurrency, there is none, but long sequences of
legal calls over linked tables, functions that return early and leave their
work half done, values that contain topics and change when topics merge, lists
changed while they are walked, and in the page cache pointers that outlive what
they point to, failing writes and crashes. Models, calls and parsers nest, and a failure
in the innermost must leave all the outer ones in order. `PROJECT.json` lists these hazards
with their lines and the properties that watch them.

## Modules

    StoreOps        operators on the two stores of one property
      StoreOpsProofs      what each of them does, as lemmas
      PropertyStore       state machine: any calls on one property
        PropertyStoreProofs   its invariants, and that it implements PropertyMap
        MCPropertyStore
      TopicMap            state machine: all properties, merging
        TopicMapProofs        (over StoreOpsProofs)
        MCTopicMap
    PropertyMap     abstract: a map from topics to values (PropertyStore implements it)
    MergeLists      add_mergelist as operators
      ListProofs          lemmas about sequences and folds, and about add_mergelist
      MergeListRun        one round of normalization over several stores
        MergeListRunProofs
        MCMergeLists
      TopicMap
          Tmadl               model files
            ModelLoading          require_model, transactions, the models
              TopicQueries            look-ups and scans
                Views                   the four view handlers
                Reading                 jobs of a handler, for both of
                  LineReading             omnivore's lines and iso2788
                  RdfReading              raptor's statements and rdf_common
                    TmProgram               state machine: tm (all of these)
                      TmPromises              what its user may rely on
                        MCTmProgram
    Containers      lists, tables, topic sets, matching
      ValueTypes      a-sidp, topic set, text set as data types
        ValueStores     state machine: one value store of any kind
          ValueStoresProofs   its invariants, and that it implements ValueMap
                              (over ListProofs)
          MCValueStores
    ValueMap        abstract: a map from vids to values (ValueStores implements it)
    PageCache       state machine of tmfile.c
      FileMetaStore   state machine: metastore.c over the cache
        FileMetaStoreProofs   the invariants of both
        MCPageCache
    Omnivore        the callbacks of expat, for any processing model
      XtmSimple           the handlers of xtm_simple
        XtmParse              state machine: a document is read
          XtmParseProofs
          MCXtmParse

**StoreOps.** A record `store` stands for a `default_mem_property_store` with
its value store: `topics[v]` is the array of vid `v`, `vid[t]` the table entry,
`value[v]` the value, `count` the counter of the value store. `InsertTopic`,
`RemoveTopic`, `NormalizeStore` are the functions of `propertystore.c`;
`VPut`, `Put`, `ReplaceTopic`, `ReplaceValue` are `_pstore_vput`, `_pstore_put`
and the loop bodies of `_pstore_replace_topics` and
`_pstore_replace_topics_in_values`. A failed assert sets `aborted` (the library
is built without `NDEBUG`, `Makefile.in:24`, and `tm_assert` aborts). Values
are sets of locators or of topics, or records for assertions; text is not
modelled. The order in which `vput` stores collected topics again depends on
the order of the elements inside a value, which the model leaves open: any
order (`Orders`).

A property is a record of three facts the code asks about: is it an SIDP, has
it equality and combination code (always both or neither in the models that
come with TMTK), does its value type know `VALUE_INCLUDES_TOPIC`.

**PropertyStore.** One property of any kind, and any sequence of the calls
`topicmap.c` makes on its stores. In the program the other properties decide
which topics are merged; here any pair may be.

**PropertyMap.** What a caller may rely on: no vids, no arrays. Topics whose
values meet share the union; a topic without combination keeps its first value;
normalization leaves each value to one of its topics.
`PropertyStore!ImplementsMap` is the refinement, with
`val[t] = value[vid[t]]`.

**MergeLists, MergeListRun.** The loop of `add_mergelist` as a fold. Taking out
the head frees the whole chain (`list.c:66-75`), after which the code reads a
freed node; from there on anything can happen, so the model stops with `freed`.
The loop that unites runs over the original length, as in the code.

**TopicMap.** The API calls `AddSubject`, `AddPropertyToTopic`, `AddAssertion`
and `FullyMerge`. A call that loops is a sequence of steps, one per round of
its loop (`phase`, `at`), so that an early return leaves exactly what the code
leaves. No other call starts until it has returned: the library has one thread.
History variables record what was `given`, what was `asserted` and which topic
each has become (`rep`). `HandedOver` is the loop of `_mempropertystore_normalize`
over the arrays of a store, a fold. The order in which the scans of
`_pstore_replace_topics_in_values` come upon the values to rewrite follows from
lists and indexes the model does not have: any order. A step that may need a new
vid is bounded by `MayStore`.

**PageCache.** `items` are the used cache items, in order; `held[c]` is the
pointer a client got from `fetch_page`. A page's content is its version. A read
or write may fail; `Crash` may come between any two calls and leaves the file.
The clients (`metapage.c`, `metastore.c`) are modelled by what they do to a
page: hold it, change it in place with the flag set, drop it.

**FileMetaStore.** The only client the cache has in the code, and a state
machine of its own (`MetaSpec`). A call of the
meta store is four steps: begin, fetch its page, work on it, drop it; `text`
holds what each version of a page contains, so that a crash or an eviction that
loses a version loses its content too. The result of the fetch is not looked at
(`NoPageForJob`). `CloseFlushes` follows `_filemetastore_close`, and
`NewProcess` is a crash in the middle of anything, or the next start after a
close. Page 3, for assertion types, is created and never used.
`metastore.c:156` calls `TMList_push`, which the linked sources do not define
(`list.c:338` has it in a part left out by the preprocessor); it is taken for
`tm_list_push`.

**Containers, ValueTypes, ValueStores.** The five value stores of the memory
store, and the slower a-sidp store that can stand in for one of them, as what
they are in memory: an array of cells that doubles, a table by value, the index
from topics to vids with its two forms. Lists keep the order the code gives
them, since `tm_list_copy` reverses and `push` prepends, and values that mean
the same may be written in different orders. `Combine` is the part of
`_pstore_vput` that finds, deletes and unites text sets. A scan is a state of
its own (`scan`), advanced by one fetch. The choice of hash buckets is left open
(any order of a table's keys).

**ValueMap.** What the callers rely on: a value has one vid under which it is
found again, a vid is never used for another value, text sets that meet are
joined. `ValueStores!ImplementsValueMap` is the refinement; its mapping takes
the meaning of a value (`Meaning`), the same for all ways to write it.

**Tmadl, ModelLoading.** `parsers` is the stack of the parsers that wait in
their callbacks for a required model, with the files they hold open (a file
whose parsing fails is never closed); `loads` the stack of the calls of
`require_model`. A call that fails makes all that wait for it fail, each
leaving its transaction. Topics of a model are made by the actions of
`TopicMap`, and `MergeLoaded` is its `FullyMerge`. Stores exist for the
properties of loaded models only (`Known`).

**TopicQueries, Views.** Operators, as they change nothing: what a call returns
(`rc`) and the topics or events it delivers.

**Reading, LineReading, RdfReading.** A handler of a processing model is a
series of calls on the map for one line or one statement; `jobs` holds those to
come and `made` the topics of those done, so that a call that fails leaves what
came before it. `iso2788` reads its config file (`Require`, `Map`, `Ignore`) and
looks its rules up before the first line; `rdf_common` requires DC and keeps its
resources in a table. Lines go through omnivore's buffer.

**TmProgram, TmPromises.** `TmProgram` is `main`, one action per part of it (`pc`), for an
invocation that is chosen at the start: it opens the map, requires the models of
`-A` in the reverse order of the options, reads the files or the standard input,
merges after each file, prompts for queries, runs the one of `-q`, dumps and
closes. `TmPromises` states what must come of it over what was in the files
alone. The processing models are `iso2788` and `rdf_common`; reading XTM is
`XtmParse`.

**Omnivore, XtmSimple, XtmParse.** `Omnivore` has one action per case of
`expat_start`, `expat_end` and `expat_char_data`; `XtmSimple` has one per branch
of `xtm_start_element` and `xtm_end_element`, with branches that differ only in
the kind of reference taken together. `XtmParse` joins them: each tag is one
step, since expat, omnivore and the processing model run in one call. Any call
to the topic map may fail, which ends the reading (`status`), as do the asserts
on the way. A topic is named by the property it is looked up with; which topics
are one is the matter of `TopicMap`. A URI is an id or the steps of the
xpointer; buffers of fixed size (`MAXITEMS`, `MAX_CHILDS`, `MAXURI`) and the
splitting of the text into chunks are left out, and expat itself is the
environment: it delivers well-formed documents and does not validate. The
bounded content (`Content`) follows the XTM 1.0 DTD without its numbers and
order, so missing, repeated and misplaced parts occur.

## Runs

| Run | Question | Result |
| --- | --- | --- |
| `property_store` | Do the two stores of a property stay consistent under all sequences of calls, and do they implement the map? | yes |
| `merge_lists` | Are the merge lists the classes they should be? | yes, as long as no array meets two lists at once |
| `merge_lists_freed` | Does the loop ever go on in a freed node? | yes: finding |
| `merge_lists_lost` | Is every topic handed over in some list? | no: finding |
| `identity` | Does fully_merge make one exactly the topics connected by locators, and keep their locators? | yes |
| `assertions` | Are assertions rewritten and kept, do disposed topics vanish, does the loop end, and which asserts can fail? | yes; three, which the input explains |
| `contradiction` | Can fully_merge be called after it has returned with an error? | no: finding |
| `page_cache` | Latest version seen, flushed data kept, users counted? | yes, until a write fails or a client uses a pointer to an evicted page; users counted until an item in use is given away; with the meta store as client no topic number is given out twice |
| `page_locked` | Does a page stay as long as it is held? | no: finding |
| `value_stores` | Do tables and indexes stay equal to the values, do scans find exactly what they should, and is every store a map from vids to values? | yes |
| `tm_program` | Does `tm` end for every command line, are models that count as loaded wholly there, do transactions pair up, and are map and views what the files say? | yes, but not with `-P` and `rdf_common` (finding 6); a model whose loading fails half way stays in the list of the map, and `tm` ends |
| `xtm` | Does omnivore keep in step with the document, have elements the text that stands in them, and does the map get the assertions the document describes? | yes, where no URI is used for two kinds of type or role, and no characters are directly in an ignored element (finding 5) |

### What the properties say

`TableMatchesArrays`, `NoOrphanValue`, `ValuesDisjoint`, `NormalizedIsUnique`
and `NoAssertFails` relate the table, the arrays, the values and the flag of
one property; `StoresSound` is their conjunction over all properties in
`TopicMap`; `identity` has properties that combine and calls that succeed only, the
theorem `StoresStaySound` is about all kinds, values with topics in them and calls
that fail half way. `MergedIffRelated` compares the topics left over with the classes
of the relation "share a locator for some property", computed from the history
alone; `LocatorsKept` does the same for what the topic that stays shows.
`UnrelatedStayApart` is the half of both that holds at every step, in the middle
of a merge too: across the border of a class no topic becomes another, no merge
list reaches and no locator is shown.
`DisposedIsGone` covers property stores, values and merge lists at every step,
not only between calls. `AssertionsKept` says that each assertion made is still
on the topic its assertion topic has become, rewritten; where the code gives
one of two up (`topicmap.c:618-635`), it must be another one of the same topic.

Some properties of `TopicMap` apply to certain programs only. `MergedIffRelated`
and `UnrelatedStayApart` are checked without assertions, since equal assertions are
a further reason to merge. `NoAssertFails` holds for programs that add combining properties only
(`identity`). For all others `AssertsExplained` says which asserts can fail: the
one of `fully_merge` when it is called again after an error
(`topicmap.c:457`), those met in rewriting a value in which two roles of one
assertion or two topics of one role set become one (`memstore/asidp.c:466`,
`vt_topicset.c:147`), and the one met by a second assertion for one assertion
topic (`asidp.c:127`). All others hold: those of `_dispose_topic`, which demand
that no store and no value knows the topic any more, and those by which the
stores check each other.

`ListsAreClasses` excludes histories in which an array meets two lists
(`bridged`) because there the code loses topics, which `merge_lists_lost`
shows.

By the inverted test of `fetch_page` every eviction that succeeds takes an item
some client holds. `LatestIsSeen` and `FlushedSurvives` cover these evictions:
they assume only that no client has since changed, through its old pointer, a
page it did not ask for (`strayed`), and that no write has failed (`unwritten`:
`_writepage` clears the changed flag before it writes, `tmfile.c:581`, so the
page counts as clean afterwards). `HoldersCounted` assumes that no item in use
has been given away (`stolen`), since that resets the count to 1.

`MetaStoreKept` says of the meta store, over crashes, failed reads and new
processes, that no topic number is handed out while it is in use, that all
models added are in the list and no topic in use is on the free list, and that
an assert ends the process only after a failed system call or when the very
first open was cut short. It does not speak of what a failed write has lost
(`unwritten`).

`IndexMatches` and `ScanExact` relate tables, index and cells of a value store,
and what a finished scan has delivered to the meaning of the values.
`AbortsOnClash` says in which merges the asserts of the value types and of
`_make_array` may fail: where two topics of one role set, or two roles of one
assertion, become one, and nowhere else. `ScanExact` compares the search that
ignores case with a reference definition (`Occurs`), bytes outside ASCII
included.

`LoadedModelsComplete`: a model that counts as loaded is listed once, behind
what it requires, has the stores its elements ask for and a topic for all that it
defines, after any failure of another one. `_load_model` lists a model before it
adds its subjects (`topicmap.c:2161`), and one that fails then stays in the list
(HIERARCHY without SAM, `H` in the run); the property demands that the
failure has been returned to the outermost caller, who does not go on.
`TransactionsPaired`: each end takes the transaction of the call that ends it. `MapAsWritten` compares the map with
the files: one topic for everything they speak of, one assertion for every
fact, no other. `ViewsReportAll` compares what a view has printed with what the
files state about the topic asked for, and says exactly when a view is refused.
`RunsEnd` (liveness): `tm` comes to its end or to its prompt, or stops at an
assert that the input explains (`InputWrong`); the asserts by which the library
checks itself hold. It is not claimed of `-P` with `rdf_common`
(`ParsesRdfOnly`), where one of them fails (finding 6).

`AssertionsAsWritten` compares what the handlers have passed to
`add_topic_assertion` with `Described`, which is computed from the elements of
the document (`written`) alone: the type, the assertion topic, and for each role
its player or the set of its players. It is claimed for elements with the
content the DTD prescribes. It is not claimed once a reference has found, in a
table, a topic that a reference of the other kind had put there (`aliased`): the
tables have only the URI as key (`xtm_simple.c:535`, `564`). `TextAsWritten`
compares the text collected for an open element with the characters that have
come (`chars`): all that stand in it, also behind subtrees that are skipped, and
none from inside them. It is not claimed of an element with an ignored element
directly in it that directly contains characters (`Stray`), which the code does
not skip (finding 5). `UrisUnique` holds because the counts of children are kept per parent and
name, and an id occurs once.

### Bounds

- `property_store`: 3 topics, 3 locators, 4 vids. A put that unites two sets of
  two other topics needs three topics and three locators; vids are never reused,
  so 4 allows four creations, one more than there are topics.
- `merge_lists`: 6 topics, 2 stores, arrays of 2 or 3: three lists side by side,
  the longest chain of meetings that is not `bridged`. The counterexamples need
  4 and 7 topics. Arrays are in ascending order: for who is with whom only
  membership matters.
- `identity`: 4 topics, 2 locators, 2 combining properties, 5 calls, 8 vids: two
  merge lists at a time and chains over both properties. Locators are
  interchangeable and nothing in the model picks one, hence the symmetry.
- `assertions`: 5 topics (type, two roles, player, assertion topic), 4 forms of
  assertion, one locator, 6 calls, 6 vids.
- `page_cache`: 2 items for 3 pages, 2 clients, 2 changes per page, one failed
  system call; the real minimum of 100 items only changes how long a cache takes
  to fill. Clients are interchangeable.
  Any clients change page 1 twice and the others once (`FewChanges`). The calls of
  the meta store go to two of the three pages only, so two items hold all it
  asks for, as the 100 of the program do; it has one model and three versions of
  a page: a topic is created, disposed of and created again.
- `value_stores`: 3 vids and arrays that start with 2 cells, so that they grow;
  the threshold of the topic index is 2, so that both of its forms and the
  change between them occur. Three to five values per kind, some equal but
  written differently, some overlapping; three merges, with and without a clash.
- `tm_program`: 44 invocations over a cut of SAM, the model DC and ten more
  models, among them ones that require a missing model, themselves, or a property
  that is not there; files of up to four lines or three statements, up to two
  files, up to two inputs at the prompt. 26 topics and vids are never used up,
  four files may be open at a time, a line may have three words. Each option
  and each failure occurs in some invocation, not all combinations.
- `xtm`: all documents of up to 6 elements, which is a typed occurrence with its
  resource; documents that begin with an association typed by a topicRef may
  have 13: two members with their roles and three players between them, in one
  role or two. Two ids, each also a possible reference; they are
  interchangeable. Six slots for memberships are never exceeded.

`MaxVid`, `MaxCalls`, `MaxPages`, `MaxVersion`, `MaxFailures`, `MaxStores`,
`MaxElements` and `MaxAssociation` bound counters in guards; `MaxMembers` bounds
the slots of an assertion; the `length` and `inputs` of an invocation bound what
is read. `tm_program` checks for deadlock, since `Terminated` is its only end.
All other runs switch deadlock checking off: the bounds, a failed assert and a
full cache end the behaviours.

### Fairness

`RunsEnd` assumes `Goes`: `tm` goes on as long as it has a step and does not
wait for its user. It is one thread that waits for nothing else, and the files
it reads end. It is weak fairness with `ENABLED` written out, which the absence
of deadlocks justifies. Nobody is assumed to type anything.

`CallsReturn` is checked for `FairSpec`, which is `Spec /\ WF_vars(Step)`. `Step` is
the next step of a call that has begun; the library is single threaded and does
not wait for anything, so a call that has begun goes on. Nothing is assumed
about calls being made.

## Findings

1. `topicmap.c:2465`: taking the head out of the merge lists frees the rest.
2. `topicmap.c:2451`: uniting over the length of the first array loses topics.
3. `topicmap.c:490`: an early return leaves `merge_lists`; the next
   `fully_merge` fails its first assert, and `_load_model` ignores the result.
4. `tmfile.c:294`: the test for a free item is inverted.
5. `omnivore.c:1009`: the test for ignored text is `ignore_depth < depth`, so that
   characters directly in an ignored element become text of the element around
   it, though `xtm_simple.c:15` wants such subtrees to be skipped entirely.
6. `rdf_common.c:200`, `272`, `335`: without a topic map (`-P`, "only process maps",
   `tm.c:411`) the handlers return an error without setting its text, and the
   assert of `omnivore.c:686` ends the program.

The first four have runs that end in the violation. The last two are the cases
that `TextAsWritten` and `RunsEnd` are not claimed of, by hypotheses of their own
(`Stray(...) = {}`, `~ParsesRdfOnly`); with `TRUE` in place of the hypothesis,
`xtm` and `tm_program` end in a violation.

## Proofs

| Module | Theorems | For all |
| --- | --- | --- |
| `PropertyStoreProofs` | `TypeCorrect`, `TablesMatch`, `OrphansNever`, `SetsDisjoint`, `NormalizedUnique`, `AssertsHold`: the six invariants of `property_store` | finite sets of topics, values closed under union, kinds of property, numbers of vids |
| `PropertyStoreProofs` | `StoreImplementsMap`: `Spec => ImplementsMap` | the same |
| `TopicMapProofs` | `MapTyped` (`TypeOK`), `StoresStaySound` (`StoresSound`), `DisposedStaysGone` (`DisposedIsGone`), `AssertsAreExplained` (the action property `AssertsExplained`) | finite sets of topics, properties of any kind, subjects, assertions, numbers of vids and calls |
| `TopicMapProofs` | `AssertsHold` (`NoAssertFails`), `UnrelatedAreApart` (`UnrelatedStayApart`) | the same, where nothing is asserted and all properties given combine (`CombiningOnly`), as in `identity` |
| `TopicMapProofs` | `MergesWhatIsRelated` (`MergedIffRelated`), `KeepsLocators` (`LocatorsKept`), each given `[]NoneLost` | the same, where all properties given identify topics, too (`IdentifyingOnly`), as in `identity` |
| `MergeListRunProofs` | `ListsTyped` (`TypeOK`) and, of the run `merge_lists`, `TopicsListedOnce` (`NoTopicTwice`) and `MergeListsAreClasses` (`ListsAreClasses`) | sets of topics, arrays, numbers of stores |
| `FileMetaStoreProofs` | `CacheTyped`, `CacheShowsLatest`, `FlushedIsKept`, `UsersAreCounted`: the invariants of the cache in `page_cache` | clients, items, pages, versions, failures |
| `FileMetaStoreProofs` | `MetaStoreIsKept` (`MetaStoreKept` of `page_cache`), `MetaStoreIsLocked`, `MetaStoreIsCounted` | sizes of the cache, names, versions, failures, clients |
| `ValueStoresProofs` | `StoresTyped` (`TypeOK`), `TablesMatchCells` (`IndexMatches`), `ScansAreExact` (`ScanExact`), `StopsOnClash` (`AbortsOnClash`) of the run `value_stores` | values, scans and merge sets of any size, initial sizes, thresholds, numbers of vids |
| `ValueStoresProofs` | `LinkedStoresImplement`: `Spec /\ kind # "SlowASidp" => ImplementsValueMap`; `StoresImplementValueMap`: the same for every kind, given `[]RolesAscend` | the same |
| `XtmParseProofs` | `StackFollows` (`StackFollowsDocument`), `TextIsOwn` (`TextAsWritten`), `UrisDiffer` (`UrisUnique`), of the run `xtm` | documents of any size and depth, whatever the handlers of `xtm_simple` do |

Each is an invariant of the specification (`Spec => []P`, or `MetaSpec => []P`)
or a refinement; `ListProofs` and `StoreOpsProofs` hold the
lemmas they rest on.

**Assumptions**, all stated in the modules and evaluated by TLC:
`StoreAssumption` (`MaxVid` is a natural number, topics are finite),
`PropertyAssumption` (values are non-empty and closed under union, 0 is no topic,
no property both combines and contains topics), `TopicMapAssumption` (topics are
numbers, `PropOrder` names each property once), `KindAssumption` (only `a-sidp`
and `t-sidp` have values that contain topics, as `coremodel.c` defines them; what
is given from outside are sets of things for other properties),
`FormsAssumption` (where assertions are made, the two core properties exist),
`NoValueAssumption` (`NoValue` is no value), `ArraysAssumption` (an array has
two topics or more, none twice), `ValueStoresAssumption` (arrays have two cells
or more at first, the threshold is not 0), `CallersAssumption` (what callers bring
to a store has the type of its values: no text or topic twice in a set, no set of
texts is empty, roles ascend, as `addMember` and `_make_array` have it; `Free` is
no value and no meaning), `MembershipsAssumption` (two memberships or more,
`topicmap.c:1925` refuses fewer), `StoresAssumption` and `PageCacheAssumption`
(bounds are natural numbers, clients are finite), `NoIdAssumption` and
`ContentAssumption` (no id is the missing one, what elements contain is elements).

**Property store.** The invariants are not inductive one by one: `remove` keeps a
value alive only if the arrays are right, `vput` needs that what it finds is
disjoint from all else, and a new vid is free only because nothing is stored
beyond the counter. `Inv` is the conjunction of all six and of `NothingBeyond`.
Between `vput` and the `insert` of its caller the stores are not sound, since
the new value waits for its first topic; `Pending` names that state. Each
function has a lemma: what it needs (`Sound`, or `Consistent` and `Pending`) and
what it leaves. `NextKeepsInv` has one step per action.

**The map it implements.** `Shown(s)` is the refinement mapping as a function of
the stores. Each function of `StoreOps` has a second lemma, on what it does to
`Shown`: nothing (`RemoveShows`, but for the topic removed), the new value for one
topic (`InsertShows`), or the union for all whose values meet (`United`,
`CreateShows`, `VPutShows`). `StepMaps` takes the actions in turn. It needs `Inv`:
that values are disjoint makes "has the vid" and "meets the value" the same.

**Topic map graph.** `Inv` of `TopicMapProofs` has three parts. `StoresOver`: the
stores of each property are sound, their values are over the topics that live,
and no other topic has one. It is stronger than `StoresSound` and
`DisposedIsGone` together, and neither is inductive without the other: that
`_dispose_topic` leaves sound stores follows from its asserts, and that a later
put cannot bring a topic back from the calls that take living topics only.
`ControlInv`: the variables have their types, each merge list names two or more
topics that live, none twice, so that the first is not replaced by itself, and
no topic is in two lists.
`LoopInv`: what the loop a call is in relies on, that there is a list and an element
at `at`, and that the vids still `todo` each have a value with a topic that
disappears, so that the rewritten value differs from the old one
(`SubstitutedIsOther`); this is what `ReplaceValueKeepsSound` needs. One lemma for
each action (`AddSubjectKeepsInv` to `DisposeKeepsInv`), resting on the lemmas
about one store and about one merge list. As `Inv` includes that no store has run
into an assert, the asserts on the way of the store calls hold in `TopicMap` too.

`DisposalInv` adds what the asserts of `_dispose_topic` rely on: for the properties,
lists and elements that the loops have passed (`Passed`, `PassedElement`), the
topics behind the first have no value (`ReplacedInv`), and then no value
contains them (`RewrittenInv`); of the list at hand, the vids not yet in order
are `todo` (`CollectedInv`). A later round could undo this by giving a topic a value
or by making a value that contains it: `ReplaceFrees` and `RewriteLeaves` show
that a round only adds the topic or the value that stays, which is in no other
list since the lists are disjoint. `OnlyExplainedAborts` then goes through the
steps for those that end in a failed assert. For `AssertsHold`, `CombiningInv` says
that properties that do not combine have no values and that no lists are left
when `fully_merge` returns, which excludes the three reasons.

For `UnrelatedAreApart`, `ApartInv` says the same of every `Closed` set `S` of
topics, one across whose border nothing was given twice: what the topics of `S`
show is made of what they were given (`MadeOf`), and no list reaches across. As
the topics outside make a closed set as well (`OtherSide`), what two sides show
has nothing in common (`SidesShowOthers`), so no array of a store cuts a side, nor
does any list that the arrays become (`AddKeepsSides`). That a put or a
replacement unites within one side only follows from `PutShows` and
`ReplaceShows` (`UnitedMadeOf`). A set that is closed after a put was closed before
it, which is why the invariant is about all closed sets and not about the classes.

`MergesWhatIsRelated` and `KeepsLocators` add the other half: what was given is not
lost on the way. `Held` says that each locator given to a topic `t` is shown by
some topic `Linked` to `rep[t]`: by `rep[t]` itself, or by one in the same merge
list. It holds in every round. A put and a replacement only enlarge what is shown
or move it to the topic that stays, which is in the list (`UnitedGrows`,
`GivesUpKeeps`); normalization takes a value from all topics of an array but the
first, and the array has become part of one list (`HandedOverCovers`); when topics
are disposed of, none behind the first of a list shows anything, by the code's own
asserts, so that what is linked to a topic is what it becomes. With empty lists
and normalized stores two topics cannot show one locator, so those related are one
(`RelatedMerge`), and `ApartInv` says that no others are. The step that needs
more than the code gives is `HandedOverCovers`: no array of the store being
normalized may have topics of two lists (`MeetsOneAtMost`), since `add_mergelist`
can then lose some (finding 2), and a topic lost keeps no value to be found by.
`NoneLost` says that this does not happen, or that the outcome is undefined
already (finding 1). It is a hypothesis on the behaviour, not on the constants. All
behaviours of `identity` satisfy it: of the two lists that four topics can form, an
array that meets both meets the first, which is finding 1; the first loss needs
seven topics. That an array meets one list before normalization begins is enough,
as arrays of one store are disjoint and lists grow by arrays only (`AddCovers`).

**Value stores.** `Inv` of `ValueStoresProofs` is `StoreOk`, `CallsOk`,
`FailedOk` and `ScanOk`. `StoreOk` speaks of all kinds in one form: each value
has keys (`KeysOf`: itself, its texts, or none), `TableOk` says that the table
leads from every key of a live value to it and from nothing else, and `IndexOk`
that each bucket of the topic index names exactly the holders of its topic and
that its length counts the places (`Places`) at which it occurs. `IndexMatches`
does not say the latter and is not inductive without it: a topic may occur twice
in one value, the length then grows by two, and it alone decides when the list
becomes a table. What one topic of an array does to the index (`PutAt`, `TakeAt`)
is shown for any holders and places (`IndexFits`) and carried through the fold
over the array.

`ScanOk` says how far a scan has come, in three forms: at a place of the array of
cells (`LinearOk`), at an element of a list collected when it was opened
(`ListedOk`), or at one of the texts asked for (`TextsOk`), where only the first
text of the request that leads to a set delivers it. Each fetch keeps the form,
and the end of each is `ScanExact`. That the values delivered are those the
condition means, by a search that ignores case, by topics or by members, comes
from lemmas on what the tests of the code compute.

For the refinement, `FindIs` and `CombineStepOk` say what a look-up finds in
terms of `Meaning`: the value of the same meaning if there is one. That needs
that values of the same meaning are found as equal, for a-sidps that their roles
ascend (`MeaningOfASidp`): two members of one role could stand in either order.
`_make_array` asserts it. `slow_asidp.c` does not and compares member by
member: after a merge has brought together two roles of an assertion it may
hold two values of one meaning, so its refinement is proved for as long as
`RolesAscend` holds. No behaviour within the bounds of the run shows it.
`CombineMapped` is the largest step: the sets that are removed are those whose
meaning meets the new one, and then none of its texts is left in the table, so
the assert of `_memlocatorsetstore_lookup_vid` holds (`FailedOk` has no such
case).

**Merge lists.** `ListsAreClasses` says that the lists are the minimal sets that
cut none of the arrays given. `Pieces` is its inductive form: each list is such a
set, and together they cover the arrays. An array that meets one list or none
makes one piece with it and leaves the others pieces (`JoinPieces`). What the loop of `add_mergelist` does to the lists is shown
from invariants of the fold over its rounds (`AddKeepsLists`,
`AddKeepsDisjoint`, `AddJoins`); `LoopInvariant` and `LastRound` of
`ListProofs` turn an invariant of the rounds into one of the fold. Induction
there is by the least number that is an exception, and `FoldExists` constructs
the recursive function behind the library's folds, which no theorem of the
library does.

**Page cache.** Four layers, each resting on the ones before: `TypeInv`; that no
page is in two items (`NoPageTwice`), without which `FetchHit` may show an older
one; that items, disk and what clients have written agree (`Coherent`), as long
as no client has strayed and no write has failed; that the counts are those of
the holders (`UsersInv`), as long as no item in use has been given away.

**Meta store.** Every step but `OpenFails` is a step of `PageCache`, which gives
the invariants of the cache (`MetaBase`). `ControlInv` says that one page is held
at a time and that nothing is ever thrown out of the cache (`NothingEvicted`): the
inverted test in `fetch_page` looks for an item some client holds, and a client
that lets go of a page before it asks for the next has none. So `MetaStoreIsLocked`
holds: the defect that `page_locked` shows cannot bite through this client.
`Content` is what the pages contain, current and on disk, against what has been
handed out and added: the free list, the counter and the names.

**Reading a document.** `StackFollowsDocument` is not inductive: the depth at
which ignoring began has to be where the document's path leaves the stack.
`Shape` says that the open elements from `ignoreDepth` on are the ignored ones
and that the stack is the path before them. `TextAsWritten` needs three more facts
(`TextInv`): that open elements are numbered upwards, so that no two are taken for
each other (`Numbered`), that the history marks as text what stands in the element
whose text omnivore adds to (`Marked`), and that no characters have come from an
element still to be opened (`CharsTyped`). For `UrisUnique`, `UrisGiven` says of every URI handed out which
counter it came from (`Given`): the id it has, if any, has been used; and however
far its path runs along the stack, it goes on with a step that has been given out
there, by a used id or a number already counted. So the next one, at the present
counters, is new. The lemmas take the actions in turn; what the handlers of `xtm_simple`
assign is left open, so the three hold for any processing model that is driven by
`Omnivore`.

**Model-checked only.** Of `TopicMap`: `AssertionsKept`, which relates a whole
history of assertions to the merged map. `MergedIffRelated` and `LocatorsKept` are
proved for behaviours in which no topics are lost (`NoneLost`) and do not hold for
every number of topics without it; `UnrelatedStayApart` is the half of the first
that a loss leaves untouched. The
types of `xtm_simple` and what it makes of a document (`TypeOK` and
`AssertionsAsWritten` of `XtmParse`), model loading (`LoadedModelsComplete`,
`TransactionsPaired`) and what `tm` promises (`ProgramTypeOK`, `MapAsWritten`,
`ViewsReportAll`) have not been tried; those modules are wide, with many kinds of
element, and several of their operators rest on `SelectSeq`, which the prover cannot
expand. `XtmParse.TypeOK` moreover says that the slots of an association suffice,
which depends on the bounds of the run. Liveness (`CallsReturn`, `RunsEnd`) and `ENABLED` are
out of the prover's reach.

## Not modelled

Text as such: parsing and printing of values, the brackets of text sets and
integer values in TMADL, resolution of URIs, splitting and normalizing of
strings, usage, progress and output formats, `tmainfo`, the printing of models
(`procmodel.c`). `realloc` that moves a shrunk array (`propertystore.c:452`) and
running out of memory are left out, as is the assert on an empty transaction
stack at close, which is commented out. So are two limits of `topicmap.c`: the
`assert(0)` of `fully_merge` after 200 rounds (line 547; that the loop ends is
`CallsReturn`) and the fixed size of `disposed` (line 113). What is checked and
proved of asserts does not speak of these two.

Two compositions are left out: `xtm_simple` runs in `XtmParse`, not in
`TmProgram`, so that a model loaded by a `<property>` element while topics are in
the parser's tables is not seen; and the value stores with their indexes run by
themselves, `TopicMap` uses the map they implement. Both would be larger than
TLC checks in minutes.

What no live code reaches:

- in no object list of `Makefile.in`, or only in one that no target uses:
  `query.c`, `stmql.c`, `slow_asidp.c` (modelled all the same, as a kind of
  `ValueStores`), all of `filestore/` (page cache and meta store are modelled
  all the same; `storage.c`, `btreepage.c`, `lptpage.c`, the node pages,
  `datapage.c`, `assertionpage.c`, `locatorstore.c` are not),
  `OLD_XTM_SIMPLE.c`, `xtm_simple_NO_SOURCELOCATORS.c`, `www-df/views/`.
  `cond.c` serves the query language;
- under `#if 0`: `view_callbacks.c`, `view_hitlist.c:137-543`,
  `view_index.c:210-298`, `view_role_playings.c:192-376`, `tm.c:1082-1301` and
  `1515-1568`, `assertion.c:99-259`, `storage.c:251-300`, `topicmap.c:1990-2091`
  and `2900-3209`, the body of `tm_topicmap_xml_export`;
- functions that begin with `assert(0)` or have no caller: the old look-ups
  (`topicmap.c:1476`, `1535`, `1687`, `2249`), `add_built_in_topic`,
  `_pstore_normalize`, `rollback_transaction`, `dispose_topic` of the memory
  meta store, the older handlers of `omnivore.c:466-625`, `match.c:1-211`.

## Plan

1. `AssertionsKept`, from an invariant like `Held` on what becomes of an assertion
   while its value is rewritten and its topics are replaced.
2. `TransactionsPaired` of `ModelLoading`, from an invariant on the stack of
   `loads` and the transactions each call has opened.
3. `AssertionsAsWritten` for one element at a time, as an invariant of the handlers.
