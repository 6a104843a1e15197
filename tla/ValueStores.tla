----------------------------- MODULE ValueStores -----------------------------
(***************************************************************************)
(* The value stores of the memory store (src/stores/memstore: textstore.c, *)
(* integerstore.c, topicsetstore.c, textsetstore.c, asidp.c) behind the    *)
(* calls of src/src/storage.c.  Each keeps its values in an array of cells *)
(* that grows and whose numbers, the vids, are never reused, and next to   *)
(* it what it needs to find them again:                                    *)
(*                                                                         *)
(*   Text, Integer  a table from the value to its vid                      *)
(*   TopicSet       nothing: the cells are searched                        *)
(*   TextSet        a table from every text to the vid of its set          *)
(*   ASidp          a table from the value to its vid, and for every topic *)
(*                  the vids of the values it occurs in, a list first and  *)
(*                  a table once there are more than Threshold             *)
(*   SlowASidp      nothing: the a-sidp store of slow_asidp.c, which has   *)
(*                  the interface of asidp.c and is not linked             *)
(*                                                                         *)
(* A behaviour is the life of one store of one kind.  The store is not     *)
(* changed while a scan is open: all callers close a scan before they use  *)
(* what it has given them to change the store (topicmap.c:728, 1259).      *)
(***************************************************************************)
EXTENDS ValueTypes

CONSTANTS
    Inputs,      \* Inputs[k]: the values callers bring to a store of kind k
    Scans,       \* Scans[k]: the <<opcode, argument>> of the scans of it
    MergeLists,  \* the merge sets for replaceTopics, as lists
    InitSize,    \* INIT_SIZE: the cells an array has at first
    Threshold,   \* THRESHOLD: the length up to which an index is a list
    MaxVid,      \* bound: the largest vid
    Free         \* the cell holds no value

ASSUME ValueStoresAssumption ==
    /\ InitSize \in Nat \ {0, 1}
    /\ Threshold \in Nat \ {0}
    /\ MaxVid \in Nat

Kinds == {"Text", "Integer", "TopicSet", "TextSet", "ASidp", "SlowASidp"}

\* _make_array asserts that the roles ascend; addMember keeps them so.
Ascending(v) ==
    \A i \in 2..Len(v.members) : v.members[i].role > v.members[i - 1].role

\* What a store of kind k holds, and what callers bring and ask for.
ValuesOf(k) ==
    CASE k = "Text"     -> Seq(Char)
      [] k = "Integer"  -> Int
      [] k = "TopicSet" -> {set \in Seq(Topic) : IsInjective(set)}
      [] k = "TextSet"  -> {set \in Seq(Seq(Char)) : set # <<>> /\ IsInjective(set)}
      [] k = "ASidp"    -> {v \in ASidpType : Ascending(v)}
      [] k = "SlowASidp" -> ASidpType

ScansOf(k) ==
    CASE k = "Text"     -> {"Text_LIKE"} \X Seq(Char)
      [] k = "Integer"  -> {}
      [] k = "TopicSet" -> {"TOPICSET_VALUE_INCLUDES_TOPICS"} \X Topic
      [] k = "TextSet"  -> ({"TextSet_NOT_DISJOINT"} \X Seq(Seq(Char)))
                               \cup ({"TextSet_INCLUDES", "TextSet_LIKE"} \X Seq(Char))
      [] k \in {"ASidp", "SlowASidp"} ->
             ({"ASIDP_HAS_TYPE", "ASIDP_VALUE_INCLUDES_TOPICS"} \X Topic)
                 \cup ({"ASIDP_HAS_PLAYER_PAIR"} \X Membership)

\* What the values of a store mean, see Meaning.
MeaningsOf(k) ==
    CASE k = "Text"     -> {k} \X Seq(Char)
      [] k = "Integer"  -> {k} \X Int
      [] k = "TopicSet" -> {k} \X SUBSET Topic
      [] k = "TextSet"  -> {k} \X SUBSET Seq(Char)
      [] k \in {"ASidp", "SlowASidp"} ->
             {"ASidp"} \X [type : Topic, members : SUBSET (Topic \X Topic)]

ASSUME CallersAssumption ==
    /\ \A k \in Kinds : /\ Inputs[k] \subseteq ValuesOf(k)
                        /\ Scans[k] \subseteq ScansOf(k)
                        /\ Free \notin ValuesOf(k) \cup MeaningsOf(k)
    /\ Inputs["SlowASidp"] \subseteq ValuesOf("ASidp")
    /\ MergeLists \subseteq Seq(Topic) \ {<<>>}

\* tm_topicmap_add_topic_assertion refuses fewer than two memberships, so the
\* assert(len >= 6) of the topic index is left out.
ASSUME MembershipsAssumption ==
    \A v \in Inputs["ASidp"] \cup Inputs["SlowASidp"] : Len(v.members) >= 2

VARIABLES
    kind,    \* which kind of store this is
    count,   \* the last vid given out
    size,    \* the length of the array, cell 0 is not used
    cell,    \* cell[v]: the value with the vid v, or Free
    table,   \* the table by value (TextSet: by text), a partial function
    index,   \* ASidp: index[t], the bucket of topic t in topic_index
    scan,    \* the open scan
    got,     \* history: what it has delivered
    call,    \* history: the last call with its arguments
    answer,  \* what the last call returned in *pvid
    failed   \* <<>>, or the <<vid, merge set>> whose replaceTopics failed an
             \* assert: the program has stopped

store == <<count, size, cell, table, index>>
vars == <<kind, store, scan, got, call, answer, failed>>

EmptyBucket == [len |-> 0, list |-> <<>>, isTable |-> FALSE, tab |-> EmptyTable]
NoScan == [op |-> "none", arg |-> 0, next |-> 0, at |-> 0, rest |-> <<>>]
NoCall == [op |-> "none", value |-> Free, vid |-> 0, merge |-> <<>>]

Init ==
    /\ kind \in Kinds
    /\ count = 0
    /\ size = InitSize
    /\ cell = [v \in 1..(InitSize - 1) |-> Free]
    /\ table = EmptyTable
    /\ index = [t \in 1..(InitSize - 1) |-> EmptyBucket]
    /\ scan = NoScan
    /\ got = <<>>
    /\ call = NoCall
    /\ answer = 0
    /\ failed = <<>>

Vids == 1..count
Live == {v \in Vids : cell[v] # Free}

-----------------------------------------------------------------------------
(* Finding a value *)

FindText(v) == TableGet(table, v)

FindInteger(v) == TableGet(table, v)

FindTopicSet(v) ==
    LET hits == {w \in Live : TopicSetEqual(cell[w], v)}
    IN  IF hits = {} THEN 0 ELSE Min(hits)

\* A slip of FindTextSet: that the sizes agree is not checked.
FindTextSetAnySize(v) ==
    LET w == TableGet(table, Head(v))
    IN  IF w # 0 /\ \A i \in DOMAIN cell[w] : Contains(v, cell[w][i])
        THEN w ELSE 0

\* _find_set_vid: the set that the first text is in, if it is the same set.
FindTextSet(v) ==
    LET w == TableGet(table, Head(v))
    IN  IF /\ w # 0
           /\ Len(v) = Len(cell[w])
           /\ \A i \in DOMAIN cell[w] : Contains(v, cell[w][i])
        THEN w ELSE 0

FindASidp(v) == TableGet(table, v)

\* The types and the memberships are compared, in their order.
FindSlowASidp(v) ==
    LET hits == {w \in Live : cell[w] = v}
    IN  IF hits = {} THEN 0 ELSE Min(hits)

\* storage.c calls the function of the store's type.
FindVid(v) ==
    CASE kind = "Text"     -> FindText(v)
      [] kind = "Integer"  -> FindInteger(v)
      [] kind = "TopicSet" -> FindTopicSet(v)
      [] kind = "TextSet"  -> FindTextSet(v)
      [] kind = "ASidp"    -> FindASidp(v)
      [] kind = "SlowASidp" -> FindSlowASidp(v)

-----------------------------------------------------------------------------
(* The topic index of the a-sidp store *)

\* The array of _make_array without its second field, the length.
TopicsOf(v) ==
    [i \in 1..(1 + 2 * Len(v.members)) |->
        IF i = 1 THEN v.type
        ELSE IF i % 2 = 0 THEN v.members[i \div 2].role
        ELSE v.members[i \div 2].player]

\* A slip of BucketWith: what the list holds does not go into the table.
BucketWithLost(bucket, v) ==
    LET len == bucket.len + 1
    IN  IF bucket.isTable
        THEN [bucket EXCEPT !.len = len, !.tab = TablePut(@, v, 1)]
        ELSE IF len <= Threshold
        THEN [bucket EXCEPT !.len = len,
                            !.list = IF Contains(@, v) THEN @ ELSE ListPush(@, v)]
        ELSE [len |-> len, list |-> <<>>, isTable |-> TRUE, tab |-> [w \in {v} |-> 1]]

\* One occurrence of a topic in the array of value v.
BucketWith(bucket, v) ==
    LET len == bucket.len + 1
    IN  IF bucket.isTable
        THEN [bucket EXCEPT !.len = len, !.tab = TablePut(@, v, 1)]
        ELSE IF len <= Threshold
        THEN [bucket EXCEPT !.len = len,
                            !.list = IF Contains(@, v) THEN @ ELSE ListPush(@, v)]
        ELSE [len |-> len, list |-> <<>>, isTable |-> TRUE,
              tab |-> [w \in ToSet(bucket.list) \cup {v} |-> 1]]

BucketWithout(bucket, v) ==
    IF bucket.isTable
    THEN [bucket EXCEPT !.len = @ - 1, !.tab = TableRemove(@, v)]
    ELSE [bucket EXCEPT !.len = @ - 1, !.list = ListRemove(@, v)]

\* The loop that doubles n until it is beyond t, which takes t rounds at most.
Doubled(n, t) ==
    FoldLeft(LAMBDA m, round : IF m <= t THEN 2 * m ELSE m,
             n, [round \in 1..t |-> round])

Grown(idx, t) ==
    LET n == Doubled(Cardinality(DOMAIN idx) + 1, t)
    IN  [u \in 1..(n - 1) |-> IF u \in DOMAIN idx THEN idx[u] ELSE EmptyBucket]

\* One topic of the array of value v.
PutAt(idx, v, t) == [Grown(idx, t) EXCEPT ![t] = BucketWith(@, v)]

TakeAt(idx, v, t) == [idx EXCEPT ![t] = BucketWithout(@, v)]

InsertedIn(idx, v, array) == FoldLeft(LAMBDA x, t : PutAt(x, v, t), idx, array)

RemovedFrom(idx, v, array) == FoldLeft(LAMBDA x, t : TakeAt(x, v, t), idx, array)

-----------------------------------------------------------------------------
(* The calls *)

\* A new vid behind the given cells; the array doubles when it is full.
NewCellIn(cells, v) ==
    /\ count < MaxVid
    /\ count' = count + 1
    /\ size' = IF count' >= size THEN 2 * size ELSE size
    /\ cell' = [w \in 1..(size' - 1) |->
                   IF w = count' THEN v ELSE IF w < count' THEN cells[w] ELSE Free]
    /\ answer' = count'

NewCell(v) == NewCellIn(cell, v)

CreateText(v) ==
    NewCell(v) /\ table' = TablePut(table, v, count') /\ UNCHANGED index

CreateInteger(v) ==
    NewCell(v) /\ table' = TablePut(table, v, count') /\ UNCHANGED index

CreateTopicSet(v) == NewCell(v) /\ UNCHANGED <<table, index>>

\* Every text gets a bucket of its own with the vid of the set.
PutTexts(tab, texts, vid) ==
    FoldLeft(LAMBDA t, x : TablePut(t, x, vid), tab, texts)

CreateTextSet(cells, tab, v) ==
    /\ NewCellIn(cells, v)
    /\ table' = PutTexts(tab, v, count')
    /\ UNCHANGED index

CreateASidp(v) ==
    /\ NewCell(v)
    /\ table' = TablePut(table, v, count')
    /\ index' = InsertedIn(index, count', TopicsOf(v))

CreateSlowASidp(v) == NewCell(v) /\ UNCHANGED <<table, index>>

Create(v) ==
    CASE kind = "Text"     -> CreateText(v)
      [] kind = "Integer"  -> CreateInteger(v)
      [] kind = "TopicSet" -> CreateTopicSet(v)
      [] kind = "ASidp"    -> CreateASidp(v)
      [] kind = "SlowASidp" -> CreateSlowASidp(v)

FindOrCreate(v) ==
    IF FindVid(v) = 0 THEN Create(v)
    ELSE answer' = FindVid(v) /\ UNCHANGED store

Ready == failed = <<>> /\ scan.op = "none"

\* tm_value_store_lookup_vid with TM_VALUE_LOOKUP
Lookup(v) ==
    /\ Ready
    /\ answer' = FindVid(v)
    /\ call' = [NoCall EXCEPT !.op = "lookup", !.value = v]
    /\ UNCHANGED <<kind, store, scan, got, failed>>

\* TM_VALUE_LOOKUP_OR_CREATE, which a TextSet store does not have.
Store(v) ==
    /\ Ready
    /\ kind # "TextSet"
    /\ FindOrCreate(v)
    /\ call' = [NoCall EXCEPT !.op = "store", !.value = v]
    /\ UNCHANGED <<kind, scan, got, failed>>

Replaced(v, mergeList) ==
    IF kind = "TopicSet" THEN ReplaceInSet(v, mergeList)
    ELSE ReplaceInASidp(v, mergeList)

ReplacedOk(v, mergeList) ==
    CASE kind = "ASidp" -> Ascending(ReplaceInASidp(v, mergeList))
      [] kind = "SlowASidp" -> TRUE
      [] kind = "TopicSet" -> ReplaceAsserts(v, mergeList)

\* tm_value_store_get_value; that of a TextSet store pushes the texts.
GetValue(v) == IF kind = "TextSet" THEN ListCopy(cell[v]) ELSE cell[v]

\* The sets that a set meets, each once, the last found first.
Noticed(vids, w) ==
    IF w = 0 \/ Contains(vids, w) THEN vids ELSE ListPush(vids, w)

Met(v) ==
    FoldLeft(LAMBDA vids, text : Noticed(vids, TableGet(table, text)), <<>>, v)

RemoveTexts(tab, texts) == FoldLeft(TableRemove, tab, texts)

Removed(tab, vids) ==
    FoldLeft(LAMBDA t, w : RemoveTexts(t, cell[w]), tab, vids)

Joined(v, vids) ==
    FoldLeft(LAMBDA u, w : TextSetUnion(u, GetValue(w)), v, vids)

\* _pstore_vput with a set of texts.  A set that is all it meets is found; else
\* what it meets is deleted, with the topics it had, and the union is created.
\* An assert says that no text of the union is left in the table.
Combine(v) ==
    LET vids == Met(v)
        all  == Joined(v, vids)
        rest == Removed(table, vids)
    IN  /\ Ready
        /\ kind = "TextSet"
        /\ IF Len(vids) = 1 /\ TextSetEqual(v, GetValue(Head(vids)))
           THEN answer' = Head(vids) /\ UNCHANGED <<store, failed>>
           ELSE IF \E i \in DOMAIN all : TableGet(rest, all[i]) # 0
           THEN failed' = <<Head(vids), <<>>>> /\ UNCHANGED <<store, answer>>
           ELSE /\ CreateTextSet([w \in DOMAIN cell |-> IF Contains(vids, w)
                                         THEN Free ELSE cell[w]], rest, all)
                /\ UNCHANGED failed
        /\ call' = [NoCall EXCEPT !.op = "combine", !.value = v]
        /\ UNCHANGED <<kind, scan, got>>

\* get_value, replaceTopics and lookup_vid, as when topics are merged.
Replace(v, mergeList) ==
    /\ Ready
    /\ kind \in {"TopicSet", "ASidp", "SlowASidp"}
    /\ v \in Live
    /\ IF ReplacedOk(GetValue(v), mergeList)
       THEN /\ FindOrCreate(Replaced(GetValue(v), mergeList))
            /\ call' = [NoCall EXCEPT !.op = "replace", !.vid = v,
                                      !.merge = mergeList]
            /\ UNCHANGED failed
       ELSE /\ failed' = <<v, mergeList>>
            /\ UNCHANGED <<store, answer, call>>
    /\ UNCHANGED <<kind, scan, got>>

DeleteText(v) == table' = TableRemove(table, cell[v]) /\ UNCHANGED index

DeleteInteger(v) == table' = TableRemove(table, cell[v]) /\ UNCHANGED index

DeleteTopicSet(v) == UNCHANGED <<table, index>>

DeleteTextSet(v) ==
    /\ table' = RemoveTexts(table, cell[v])
    /\ UNCHANGED index

DeleteASidp(v) ==
    /\ table' = TableRemove(table, cell[v])
    /\ index' = RemovedFrom(index, v, TopicsOf(cell[v]))

DeleteSlowASidp(v) == UNCHANGED <<table, index>>

\* tm_value_store_delete_value; the caller knows that the value is there.
Delete(v) ==
    /\ Ready
    /\ v \in Live
    /\ cell' = [cell EXCEPT ![v] = Free]
    /\ CASE kind = "Text"     -> DeleteText(v)
         [] kind = "Integer"  -> DeleteInteger(v)
         [] kind = "TopicSet" -> DeleteTopicSet(v)
         [] kind = "TextSet"  -> DeleteTextSet(v)
         [] kind = "ASidp"    -> DeleteASidp(v)
         [] kind = "SlowASidp" -> DeleteSlowASidp(v)
    /\ call' = [NoCall EXCEPT !.op = "delete", !.vid = v]
    /\ answer' = 0
    /\ UNCHANGED <<kind, count, size, scan, got, failed>>

-----------------------------------------------------------------------------
(* Scans *)

\* The test of the linear scans.
Passes(op, arg, v) ==
    CASE op = "Text_LIKE" -> Like(v, arg)
      [] op = "TOPICSET_VALUE_INCLUDES_TOPICS" -> SetContains(v, arg)
      [] op = "ASIDP_HAS_TYPE" -> v.type = arg
      [] op = "ASIDP_HAS_PLAYER_PAIR" -> Contains(v.members, arg)
      [] op = "ASIDP_VALUE_INCLUDES_TOPICS" -> Contains(TopicsOf(v), arg)

\* A slip of LinearNext: where the loop has ended is taken for a vid.
LinearNextPast(sc, from) ==
    LET hits == {v \in from..count :
                    v \in Live /\ Passes(sc.op, sc.arg, cell[v])}
        at   == IF hits = {} THEN count + 1 ELSE Min(hits)
    IN  [sc EXCEPT !.next = at, !.at = at]

\* The next cell from "from" on that is in use and passes.
LinearNext(sc, from) ==
    LET hits == {v \in from..count :
                    v \in Live /\ Passes(sc.op, sc.arg, cell[v])}
    IN  IF hits = {} THEN [sc EXCEPT !.next = 0, !.at = count + 1]
        ELSE [sc EXCEPT !.next = Min(hits), !.at = Min(hits)]

\* NOT_DISJOINT: the texts of the argument in turn, up to one in the table.
TextsNext(sc, texts) ==
    LET hits == {i \in DOMAIN texts : TableGet(table, texts[i]) # 0}
    IN  IF hits = {} THEN [sc EXCEPT !.next = 0, !.rest = <<>>]
        ELSE [sc EXCEPT !.next = table[texts[Min(hits)]],
                        !.rest = SubSeq(texts, Min(hits), Len(texts))]

\* The vids put together when the scan is opened, one after the other.
ListedNext(sc, vids) ==
    [sc EXCEPT !.next = IF vids = <<>> THEN 0 ELSE Head(vids), !.rest = vids]

\* TextSet_LIKE: the sets of the texts that are like the argument, each once,
\* in the order of the table's buckets.
SetsLike(arg) ==
    SetToSeqs({table[x] : x \in {y \in DOMAIN table : Like(y, arg)}})

\* A slip of IndexedVids: a bucket that has become a table is not read.
IndexedVidsOfList(t) ==
    IF t \notin DOMAIN index THEN {<<>>} ELSE {ListCopy(index[t].list)}

IndexedVids(t) ==
    IF t \notin DOMAIN index THEN {<<>>}
    ELSE IF index[t].isTable THEN TableKeys(index[t].tab)
    ELSE {ListCopy(index[t].list)}

\* What an opened scan may be.
OpenText(sc) == {LinearNext(sc, 1)}

OpenTopicSet(sc) == {LinearNext(sc, 1)}

OpenTextSet(sc) ==
    CASE sc.op = "TextSet_NOT_DISJOINT" -> {TextsNext(sc, sc.arg)}
      [] sc.op = "TextSet_INCLUDES" -> {[sc EXCEPT !.next = TableGet(table, sc.arg)]}
      [] sc.op = "TextSet_LIKE" -> {ListedNext(sc, vids) : vids \in SetsLike(sc.arg)}

OpenASidp(sc) ==
    IF sc.op = "ASIDP_VALUE_INCLUDES_TOPICS"
    THEN {ListedNext(sc, vids) : vids \in IndexedVids(sc.arg)}
    ELSE {LinearNext(sc, 1)}

OpenSlowASidp(sc) == {LinearNext(sc, 1)}

Opened(sc) ==
    CASE kind = "Text"     -> OpenText(sc)
      [] kind = "TopicSet" -> OpenTopicSet(sc)
      [] kind = "TextSet"  -> OpenTextSet(sc)
      [] kind = "ASidp"    -> OpenASidp(sc)
      [] kind = "SlowASidp" -> OpenSlowASidp(sc)

\* scan_prepare_next
NextText(sc) == LinearNext(sc, sc.at + 1)

NextTopicSet(sc) == LinearNext(sc, sc.at + 1)

NextTextSet(sc) ==
    CASE sc.op = "TextSet_NOT_DISJOINT" -> TextsNext(sc, Tail(sc.rest))
      [] sc.op = "TextSet_INCLUDES" -> [sc EXCEPT !.next = 0]
      [] sc.op = "TextSet_LIKE" -> ListedNext(sc, Tail(sc.rest))

NextASidp(sc) ==
    IF sc.op = "ASIDP_VALUE_INCLUDES_TOPICS" THEN ListedNext(sc, Tail(sc.rest))
    ELSE LinearNext(sc, sc.at + 1)

NextSlowASidp(sc) == LinearNext(sc, sc.at + 1)

Advanced(sc) ==
    CASE kind = "Text"     -> NextText(sc)
      [] kind = "TopicSet" -> NextTopicSet(sc)
      [] kind = "TextSet"  -> NextTextSet(sc)
      [] kind = "ASidp"    -> NextASidp(sc)
      [] kind = "SlowASidp" -> NextSlowASidp(sc)

ScanOpen(op, arg) ==
    /\ Ready
    /\ scan' \in Opened([NoScan EXCEPT !.op = op, !.arg = arg])
    /\ got' = <<>>
    /\ call' = NoCall
    /\ answer' = 0
    /\ UNCHANGED <<kind, store, failed>>

\* tm_value_store_scan_fetch, guarded by scan_finished as every caller does:
\* the vid prepared before is returned and the next one prepared.
ScanFetch ==
    /\ failed = <<>>
    /\ scan.next # 0
    /\ got' = Append(got, scan.next)
    /\ scan' = Advanced(scan)
    /\ UNCHANGED <<kind, store, call, answer, failed>>

ScanClose ==
    /\ scan.op # "none"
    /\ scan' = NoScan
    /\ got' = <<>>
    /\ UNCHANGED <<kind, store, call, answer, failed>>

Next ==
    \/ \E v \in Inputs[kind] : Lookup(v) \/ Store(v) \/ Combine(v)
    \/ \E v \in Live : Delete(v)
    \/ \E v \in Live, mergeList \in MergeLists : Replace(v, mergeList)
    \/ \E s \in Scans[kind] : ScanOpen(s[1], s[2])
    \/ ScanFetch
    \/ ScanClose

Spec == Init /\ [][Next]_vars

-----------------------------------------------------------------------------
(* Properties *)

TypeOK ==
    /\ kind \in Kinds
    /\ count \in 0..MaxVid
    /\ size \in Nat
    /\ DOMAIN cell = 1..(size - 1)
    /\ \A x \in DOMAIN table : table[x] \in Vids
    /\ scan.next \in 0..MaxVid
    /\ got \in Seq(Vids)
    /\ answer \in 0..MaxVid
    /\ failed # <<>> => failed[1] \in Vids /\ failed[2] \in MergeLists \cup {<<>>}

\* What a value is used for in a store of this kind, in its keys.
Keys(v) ==
    CASE kind \in {"TopicSet", "SlowASidp"} -> {}
      [] kind = "TextSet"  -> ToSet(v)
      [] OTHER             -> {v}

Occurrences(t) ==
    UNION {{<<v, i>> : i \in {j \in DOMAIN TopicsOf(cell[v]) :
                                 TopicsOf(cell[v])[j] = t}} : v \in Live}

BucketVids(b) == IF b.isTable THEN DOMAIN b.tab ELSE ToSet(b.list)

\* The tables say the same as the cells.  A key leads to the vid of the one
\* live value that has it, and every key of a live value is there; a topic's
\* bucket has exactly the vids of the live values the topic occurs in, each
\* once, as a list or as a table, and counts the occurrences.  The array has a
\* cell for every vid.
IndexMatches ==
    /\ count < size
    /\ \A x \in DOMAIN table : table[x] \in Live /\ x \in Keys(cell[table[x]])
    /\ \A v \in Live : \A x \in Keys(cell[v]) : TableGet(table, x) = v
    /\ kind = "ASidp" =>
         \A t \in DOMAIN index :
             LET in == {v \in Live : Contains(TopicsOf(cell[v]), t)}
             IN  /\ BucketVids(index[t]) = in
                 /\ IsInjective(index[t].list)
                 /\ index[t].isTable => index[t].list = <<>>
                 /\ index[t].len = Cardinality(Occurrences(t))

\* What a value means, whatever order it has been put together in.
Meaning(k, v) ==
    CASE k \in {"TopicSet", "TextSet"} -> <<k, ToSet(v)>>
      [] k \in {"ASidp", "SlowASidp"} ->
           <<"ASidp", [type |-> v.type,
                       members |-> {<<m.role, m.player>> : m \in ToSet(v.members)}]>>
      [] OTHER -> <<k, v>>

\* What the scans are for, said of the meaning of a value.
Occurs(needle, text) ==
    LET low(x) == [i \in DOMAIN x |-> IF x[i] \in 65..90 THEN x[i] + 32 ELSE x[i]]
    IN  \E i \in 0..(Len(text) - Len(needle)) :
            low(SubSeq(text, i + 1, i + Len(needle))) = low(needle)

Satisfies(op, arg, x) ==
    CASE op = "Text_LIKE" -> x # <<>> /\ Occurs(arg, x)
      [] op = "TOPICSET_VALUE_INCLUDES_TOPICS" -> arg \in x
      [] op = "TextSet_NOT_DISJOINT" -> ToSet(arg) \cap x # {}
      [] op = "TextSet_INCLUDES" -> arg \in x
      [] op = "TextSet_LIKE" -> \E text \in x : text # <<>> /\ Occurs(arg, text)
      [] op = "ASIDP_HAS_TYPE" -> x.type = arg
      [] op = "ASIDP_HAS_PLAYER_PAIR" -> <<arg.role, arg.player>> \in x.members
      [] op = "ASIDP_VALUE_INCLUDES_TOPICS" ->
             arg = x.type \/ \E m \in x.members : arg \in {m[1], m[2]}

\* A scan that has finished has delivered all values that satisfy its
\* condition and no other, each once; only NOT_DISJOINT delivers a set again
\* for every text of the argument that is in it.
ScanExact ==
    scan.op # "none" /\ scan.next = 0 =>
        /\ ToSet(got) =
             {v \in Live : Satisfies(scan.op, scan.arg, Meaning(kind, cell[v])[2])}
        /\ scan.op # "TextSet_NOT_DISJOINT" => IsInjective(got)

\* The asserts of the value types and of _make_array fail only when a merge
\* brings together two topics of one role set, or two roles of one assertion.
AbortsOnClash ==
    failed # <<>> =>
        LET v     == cell[failed[1]]
            parts == IF kind = "ASidp"
                     THEN {v.members[i].role : i \in DOMAIN v.members}
                     ELSE ToSet(v)
        IN  Cardinality(parts \cap ToSet(failed[2])) > 1

\* The store is a map from vids to values that never forgets, never reuses a
\* number, and finds every value by what it means.
MergeSet(list) == [stays |-> Head(list), gone |-> ToSet(Tail(list))]

ShownValues ==
    [v \in 1..MaxVid |-> IF v \in Live THEN Meaning(kind, cell[v]) ELSE Free]

ShownCall ==
    [call EXCEPT !.value = IF @ = Free THEN Free ELSE Meaning(kind, @),
                 !.merge = IF @ = <<>> THEN Free ELSE MergeSet(@)]

Abstract == INSTANCE ValueMap WITH
    Values    <- UNION {{Meaning(k, v) : v \in Inputs[k]} : k \in Kinds},
    MergeSets <- {MergeSet(list) : list \in MergeLists},
    NoValue   <- Free,
    value     <- ShownValues,
    next      <- count + 1,
    call      <- ShownCall

ImplementsValueMap == Abstract!Spec

=============================================================================
