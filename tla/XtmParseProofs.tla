--------------------------- MODULE XtmParseProofs ---------------------------
(***************************************************************************)
(* Proofs about the reading of an XTM document: Omnivore's stack follows   *)
(* the document, the text of an element is its own, and no two elements    *)
(* have the same URI.  None of it depends on what xtm_simple does with an  *)
(* element.                                                                *)
(***************************************************************************)
EXTENDS XtmParse, TLAPS, FiniteSetTheorems, SequenceTheorems

-----------------------------------------------------------------------------
(* The inductive invariant *)

OpenType == [num : Nat, ignored : BOOLEAN, text : BOOLEAN]
OriginType == [num : Nat, ignored : BOOLEAN, parent : Nat]
StepType == [name : Name, id : Id \cup {NoId}, index : Nat]
UriType == [id : Id \cup Ref \cup {NoId}, steps : Seq(StepType)]
ElementType ==
    [name : Name, id : Id \cup {NoId}, uri : UriType, ref : UriType,
     path : Seq(Name), childs : [Name -> Nat], num : Nat, text : SUBSET OriginType]

\* What is open in the document, what omnivore has on its stack, and the depth
\* at which it has begun to ignore.
Shape ==
    /\ stack \in Seq(ElementType)
    /\ open \in Seq(OpenType)
    /\ elements \in Nat
    /\ ids \subseteq Id
    /\ depth = Len(open)
    /\ ignoreDepth \in 0..depth
    /\ Len(stack) = IF ignoreDepth = 0 THEN depth ELSE ignoreDepth - 1
    /\ \A i \in 1..Len(open) :
          open[i].ignored <=> ignoreDepth # 0 /\ i >= ignoreDepth
    /\ \A i \in 1..Len(stack) : stack[i].num = open[i].num
    /\ open # <<>> => elements # 0

\* The ids on the stack have been used, and every element on it is counted by
\* the one above.
Counting(st, used) ==
    /\ \A i \in 1..Len(st) : st[i].id # NoId => st[i].id \in used
    /\ \A i \in 2..Len(st) : st[i - 1].childs[st[i].name] # 0

\* The URI u is that of an element inside the first k elements of st.
Extends(u, st, k) ==
    /\ u.id = NoId
    /\ Len(u.steps) > k
    /\ \A i \in 1..k : u.steps[i] = Step(st, i)

\* The next step is one that has been given out: by an id that is used, or by a
\* number up to which the children are counted.
GivenOut(s, p, used) ==
    IF s.id = NoId THEN s.index <= p.childs[s.name] ELSE s.id \in used

Given(u, st, used) ==
    /\ u.id # NoId => u.id \in used
    /\ \A k \in 1..Len(st) : Extends(u, st, k) => GivenOut(u.steps[k + 1], st[k], used)

UrisGiven ==
    /\ IsFiniteSet(uris.set) /\ uris.set \subseteq UriType
    /\ uris.number = Cardinality(uris.set)
    /\ elements = 0 => uris.set = {}
    /\ Counting(stack, ids)
    /\ \A u \in uris.set : Given(u, stack, ids)

\* The open elements are numbered upwards, none beyond the count.
Numbered ==
    /\ \A i \in 1..Len(open) : open[i].num <= elements
    /\ \A i, j \in 1..Len(open) : i < j => open[i].num < open[j].num

\* An open element is marked as text if the innermost element on the stack that
\* it is or is in has text.
Marked ==
    \A i \in 1..Len(open) :
        open[i].text <=>
            \/ i <= Len(stack) /\ stack[i].name \in xtm_simple.text_elements
            \/ /\ i > Len(stack) /\ stack # <<>>
               /\ Parent.name \in xtm_simple.text_elements

\* What Own and Stray are for a number, among any characters.
OwnIn(cs, num) == {o \in cs : ~o.ignored /\ o.num = num}
StrayIn(cs, num) == {o \in cs : o.ignored /\ o.parent = num}

CharsTyped == chars \subseteq OriginType /\ \A o \in chars : o.num <= elements

TextInv == Numbered /\ Marked /\ CharsTyped /\ TextAsWritten

IInv == Shape /\ TextInv /\ UrisGiven

-----------------------------------------------------------------------------

LEMMA InitIInv == Init => IInv
<1> SUFFICES ASSUME Init PROVE IInv
  OBVIOUS
<1> USE DEF Init, InitOmnivore
<1>1. Shape
  BY DEF Shape
<1>2. TextInv
  BY DEF TextInv, Numbered, Marked, CharsTyped, TextAsWritten
<1>3. UrisGiven
  BY FS_EmptySet DEF UrisGiven, Counting
<1> QED BY <1>1, <1>2, <1>3 DEF IInv

\* The names that a tag can have are names.
LEMMA ContentsAreNames == Contents \subseteq Name
<1>1. Contents \subseteq {"topicMap", "topic"}
      \/ \E name \in DOMAIN Content : Contents = Content[name]
  BY DEF Contents
<1>2. \A name \in DOMAIN Content : Content[name] \subseteq Name
  BY ContentAssumption
<1> QED BY <1>1, <1>2, ContentAssumption

LEMMA TagTyped ==
    ASSUME NEW tag \in Tags
    PROVE  /\ tag.name \in Name
           /\ tag.id \in (Id \ ids) \cup {NoId}
           /\ tag.ref \in [id : Ref \cup {NoId}, steps : {<<>>}]
BY ContentsAreNames DEF Tags, EmptyUri, Uri, IdUri

\* A step of the xpointer, and a whole URI.
LEMMA StepTyped ==
    ASSUME NEW st \in Seq(ElementType), NEW i \in 1..Len(st)
    PROVE  Step(st, i) \in StepType
<1>1. st[i] \in ElementType
  OBVIOUS
<1>2. i # 1 => i - 1 \in 1..Len(st) /\ st[i - 1] \in ElementType
  OBVIOUS
<1>3. ASSUME NEW p \in ElementType, NEW n \in Name PROVE ChildCount(p, n) \in Nat
  <2>1. p.childs \in [Name -> Nat]
    BY DEF ElementType
  <2>2. p.childs[n] \in Nat
    BY <2>1
  <2> QED BY <2>2 DEF ChildCount
<1>4. st[i].name \in Name /\ st[i].id \in Id \cup {NoId}
  BY <1>1 DEF ElementType
<1>5. i # 1 => ChildCount(st[i - 1], st[i].name) \in Nat
  BY <1>2, <1>3, <1>4
<1> QED BY <1>4, <1>5 DEF Step, StepType

\* What the counting of a child changes: one counter of the innermost element.
LEMMA CountedIs ==
    ASSUME stack \in Seq(ElementType), NEW name \in Name
    PROVE  /\ Counted(name) \in Seq(ElementType)
           /\ Len(Counted(name)) = Len(stack)
           /\ \A i \in 1..Len(stack) :
                 /\ Counted(name)[i].name = stack[i].name
                 /\ Counted(name)[i].id = stack[i].id
                 /\ Counted(name)[i].num = stack[i].num
                 /\ Counted(name)[i].text = stack[i].text
                 /\ i # Len(stack) => Counted(name)[i] = stack[i]
           /\ stack # <<>> =>
                 Counted(name)[Len(stack)].childs
                     = [Parent.childs EXCEPT ![name] = @ + 1]
<1>1. CASE stack = <<>>
  BY <1>1 DEF Counted
<1>2. CASE stack # <<>>
  <2> DEFINE n == Len(stack)
             p == stack[n]
             q == [p EXCEPT !.childs[name] = @ + 1]
             st == [stack EXCEPT ![n] = q]
  <2>1. n \in 1..Len(stack) /\ p \in ElementType
    BY <1>2
  <2>2. p.childs \in [Name -> Nat]
    BY <2>1 DEF ElementType
  <2>3. [p.childs EXCEPT ![name] = @ + 1] \in [Name -> Nat]
    BY <2>2
  <2>4. /\ q \in ElementType
        /\ q.name = p.name /\ q.id = p.id /\ q.num = p.num /\ q.text = p.text
        /\ q.childs = [p.childs EXCEPT ![name] = @ + 1]
    BY <2>1, <2>3 DEF ElementType
  <2>5. Counted(name) = st
    BY <1>2 DEF Counted
  <2> HIDE DEF q
  <2>6. st \in Seq(ElementType) /\ Len(st) = n
    BY <2>1, <2>4
  <2>7. st[n] = q /\ \A i \in 1..n : i # n => st[i] = stack[i]
    BY <2>1
  <2> QED BY <2>1, <2>4, <2>5, <2>6, <2>7 DEF Parent
<1> QED BY <1>1, <1>2

\* The steps to the open elements stay as they are when a child is counted and
\* pushed: their numbers are those in the elements above.
LEMMA StepsStay ==
    ASSUME stack \in Seq(ElementType), NEW e \in ElementType,
           NEW i \in 1..Len(stack)
    PROVE  /\ Step(Counted(e.name), i) = Step(stack, i)
           /\ Step(Append(Counted(e.name), e), i) = Step(stack, i)
<1> DEFINE c == Counted(e.name)
           a == Append(c, e)
<1>1. e.name \in Name
  BY DEF ElementType
<1>2. /\ c \in Seq(ElementType) /\ Len(c) = Len(stack)
      /\ \A k \in 1..Len(stack) : /\ c[k].name = stack[k].name
                                  /\ c[k].id = stack[k].id
                                  /\ k # Len(stack) => c[k] = stack[k]
  BY <1>1, CountedIs
<1> HIDE DEF c
<1>3. \A k \in 1..Len(stack) : a[k] = c[k]
  BY <1>2
<1>4. i # 1 => i - 1 \in 1..Len(stack) /\ i - 1 # Len(stack)
  OBVIOUS
<1> HIDE DEF a
<1>5. /\ c[i].name = stack[i].name /\ c[i].id = stack[i].id
      /\ a[i].name = stack[i].name /\ a[i].id = stack[i].id
  BY <1>2, <1>3
<1>6. i # 1 => c[i - 1] = stack[i - 1] /\ a[i - 1] = stack[i - 1]
  BY <1>2, <1>3, <1>4
<1>7. Step(c, i) = Step(stack, i)
  BY <1>5, <1>6 DEF Step
<1>8. Step(a, i) = Step(stack, i)
  BY <1>5, <1>6 DEF Step
<1> QED BY <1>7, <1>8 DEF a, c

\* The number that a new child of the innermost element gets.
NextIndex(name) == IF stack = <<>> THEN 1 ELSE Parent.childs[name] + 1

\* The URI of a new element: its id, or the steps to the innermost element and
\* one more, with the next number.
LEMMA UriIs ==
    ASSUME stack \in Seq(ElementType), NEW name \in Name, NEW id \in Id \cup {NoId}
    PROVE  LET u == ElementUri(Counted(name), name, id)
           IN  /\ u \in UriType /\ u.id = id
               /\ id = NoId =>
                    /\ Len(u.steps) = Len(stack) + 1
                    /\ \A i \in 1..Len(stack) : u.steps[i] = Step(stack, i)
                    /\ u.steps[Len(stack) + 1]
                         = [name |-> name, id |-> NoId, index |-> NextIndex(name)]
<1> DEFINE c == Counted(name)
           u == ElementUri(c, name, id)
           n == Len(stack)
<1>0. n \in Nat
  OBVIOUS
<1>1. CASE id # NoId
  BY <1>1 DEF ElementUri, IdUri, UriType
<1>2. CASE id = NoId
  <2>1. c \in Seq(ElementType) /\ Len(c) = n
    BY CountedIs
  <2>2. LastStep(c, name) = [name |-> name, id |-> NoId, index |-> NextIndex(name)]
    <3>1. CASE stack = <<>>
      BY <3>1 DEF LastStep, NextIndex, Counted
    <3>2. CASE stack # <<>>
      <4>1. Parent.childs \in [Name -> Nat]
        <5>1. Parent \in ElementType
          BY <3>2 DEF Parent
        <5> QED BY <5>1 DEF ElementType
      <4>2. c[n].childs[name] = Parent.childs[name] + 1
        BY <3>2, <4>1, CountedIs
      <4>3. c[n].childs[name] # 0
        BY <4>1, <4>2
      <4>4. c # <<>> /\ Len(c) = n
        BY <3>2, <2>1
      <4> HIDE DEF c
      <4> QED BY <3>2, <4>2, <4>3, <4>4 DEF LastStep, NextIndex, ChildCount
    <3> QED BY <3>1, <3>2
  <2>3. NextIndex(name) \in Nat
    <3>1. CASE stack # <<>>
      <4>1. Parent.childs \in [Name -> Nat]
        <5>1. Parent \in ElementType
          BY <3>1 DEF Parent
        <5> QED BY <5>1 DEF ElementType
      <4> QED BY <4>1 DEF NextIndex
    <3> QED BY <3>1 DEF NextIndex
  <2>4. LastStep(c, name) \in StepType
    BY <2>2, <2>3 DEF StepType
  <2> HIDE DEF c
  <2> DEFINE path == [i \in DOMAIN c |-> Step(c, i)]
  <2>5. \A i \in 1..n : Step(c, i) \in StepType
    BY <2>1, StepTyped
  <2>6. path \in Seq(StepType) /\ Len(path) = n /\ \A i \in 1..n : path[i] = Step(c, i)
    <3>1. DOMAIN c = 1..n
      BY <2>1
    <3>2. path \in [1..n -> StepType]
      BY <3>1, <2>5
    <3>3. DOMAIN path = 1..n
      BY <3>1
    <3> QED BY <1>0, <3>1, <3>2, <3>3
  <2>7. u = [id |-> NoId, steps |-> Append(path, LastStep(c, name))]
    BY <1>2 DEF ElementUri
  <2> HIDE DEF path
  <2>8. /\ Append(path, LastStep(c, name)) \in Seq(StepType)
        /\ Len(Append(path, LastStep(c, name))) = n + 1
        /\ \A i \in 1..n : Append(path, LastStep(c, name))[i] = Step(c, i)
        /\ Append(path, LastStep(c, name))[n + 1] = LastStep(c, name)
    BY <2>4, <2>6
  <2>9. \A i \in 1..n : Step(c, i) = Step(stack, i)
    <3>1. SUFFICES ASSUME NEW i \in 1..n PROVE Step(c, i) = Step(stack, i)
      OBVIOUS
    <3>2. /\ c[i].name = stack[i].name /\ c[i].id = stack[i].id
          /\ i # 1 => c[i - 1] = stack[i - 1]
      <4>1. i # 1 => i - 1 \in 1..n /\ i - 1 # n
        BY <1>0
      <4> QED BY <4>1, CountedIs DEF c
    <3> QED BY <3>2 DEF Step
  <2>10. u \in UriType /\ u.id = NoId
    BY <2>7, <2>8 DEF UriType
  <2> HIDE DEF u
  <2>11. u.steps = Append(path, LastStep(c, name))
    BY <2>7 DEF u
  <2> QED BY <1>2, <2>2, <2>8, <2>9, <2>10, <2>11 DEF u, c
<1> QED BY <1>1, <1>2

-----------------------------------------------------------------------------
(* A start tag *)

\* A new element that is pushed is an element, open[1] .. open[depth] are as on
\* the stack, and it has no text yet.
LEMMA NewElementTyped ==
    ASSUME Shape, NEW tag \in Tags
    PROVE  NewElement(tag.name, tag.id, tag.ref, elements + 1) \in ElementType
<1> DEFINE e == NewElement(tag.name, tag.id, tag.ref, elements + 1)
<1>1. tag.name \in Name /\ tag.id \in Id \cup {NoId}
  BY TagTyped
<1>2. e.uri \in UriType
  BY <1>1, UriIs DEF Shape, NewElement
<1>3. e.ref \in UriType
  <2>1. tag.ref \in [id : Ref \cup {NoId}, steps : {<<>>}]
    BY TagTyped
  <2>2. <<>> \in Seq(StepType)
    OBVIOUS
  <2> QED BY <2>1, <2>2 DEF NewElement, UriType
<1>4. e.path \in Seq(Name)
  <2>1. \A i \in 1..Len(stack) : stack[i].name \in Name
    <3>1. \A i \in 1..Len(stack) : stack[i] \in ElementType
      BY DEF Shape
    <3> QED BY <3>1 DEF ElementType
  <2>2. Len(stack) \in Nat /\ DOMAIN stack = 1..Len(stack)
    BY DEF Shape
  <2>3. [i \in DOMAIN stack |-> stack[i].name] \in Seq(Name)
    BY <2>1, <2>2
  <2>4. <<tag.name>> \in Seq(Name)
    BY <1>1
  <2>5. e.path = [i \in DOMAIN stack |-> stack[i].name] \o <<tag.name>>
    BY DEF NewElement, Path
  <2> HIDE DEF e
  <2> QED BY <2>3, <2>4, <2>5, ConcatProperties
<1>5. /\ e.name = tag.name /\ e.id = tag.id /\ e.num = elements + 1 /\ e.text = {}
      /\ e.childs = [n \in Name |-> 0]
      /\ e = [name |-> e.name, id |-> e.id, uri |-> e.uri, ref |-> e.ref,
              path |-> e.path, childs |-> e.childs, num |-> e.num, text |-> e.text]
  BY DEF NewElement
<1>6. elements + 1 \in Nat
  BY DEF Shape
<1> HIDE DEF e
<1>7. e.childs \in [Name -> Nat]
  BY <1>5
<1>8. e.text \in SUBSET OriginType
  BY <1>5
<1> QED BY <1>1, <1>2, <1>3, <1>4, <1>5, <1>6, <1>7, <1>8 DEF ElementType, e

\* What a start tag does to the document.
Opens(tag) ==
    /\ open # <<>> \/ elements = 0
    /\ elements' = elements + 1
    /\ open' = Append(open, Opened(tag))
    /\ ids' = ids \cup ({tag.id} \ {NoId})

LEMMA OpensShape ==
    ASSUME Shape, NEW tag \in Tags, Opens(tag)
    PROVE  /\ elements' \in Nat /\ elements' # 0
           /\ ids' \subseteq Id
           /\ open' \in Seq(OpenType)
           /\ Len(open') = Len(open) + 1
           /\ \A i \in 1..Len(open) : open'[i] = open[i]
           /\ open'[Len(open) + 1].num = elements + 1
           /\ open'[Len(open) + 1] = Opened(tag)
           /\ Opened(tag).ignored
                <=> ignoreDepth # 0 \/ tag.name \in xtm_simple.ignore_elements
<1>1. elements \in Nat /\ open \in Seq(OpenType) /\ ids \subseteq Id
  BY DEF Shape
<1>2. InIgnored \in BOOLEAN /\ (InIgnored <=> ignoreDepth # 0)
  <2>1. CASE open = <<>>
    BY <2>1 DEF Shape, InIgnored
  <2>2. CASE open # <<>>
    <3>1. Len(open) \in 1..Len(open) /\ depth = Len(open) /\ ignoreDepth \in 0..depth
      BY <2>2, <1>1 DEF Shape
    <3>2. Innermost.ignored <=> ignoreDepth # 0
      BY <3>1 DEF Shape, Innermost
    <3>3. open[Len(open)] \in OpenType
      BY <3>1, <1>1
    <3> QED BY <2>2, <3>2, <3>3 DEF InIgnored, Innermost, OpenType
  <2> QED BY <2>1, <2>2
<1> DEFINE r == Opened(tag)
<1>3. elements' \in Nat /\ elements' = elements + 1 /\ elements' # 0
  BY <1>1 DEF Opens
<1>4. r \in OpenType
  <2> DEFINE ignored == InIgnored \/ tag.name \in xtm_simple.ignore_elements
             text == IF ignored THEN open # <<>> /\ Innermost.text
                     ELSE tag.name \in xtm_simple.text_elements
  <2>1. r = [num |-> elements + 1, ignored |-> ignored, text |-> text]
    BY DEF Opened
  <2>2. ignored \in BOOLEAN
    BY <1>2
  <2>3. text \in BOOLEAN
    <3>1. (open # <<>> /\ Innermost.text) \in BOOLEAN
      OBVIOUS
    <3>2. (tag.name \in xtm_simple.text_elements) \in BOOLEAN
      OBVIOUS
    <3>3. CASE ignored
      BY <3>1, <3>3
    <3>4. CASE ~ignored
      BY <3>2, <3>4
    <3> QED BY <3>3, <3>4
  <2>4. elements + 1 \in Nat
    BY <1>3
  <2> HIDE DEF ignored, text, r
  <2> QED BY <2>1, <2>2, <2>3, <2>4 DEF OpenType
<1>5. open' = Append(open, r)
  BY DEF Opens
<1>6. r.num = elements + 1 /\ (r.ignored <=> ignoreDepth # 0 \/ tag.name \in xtm_simple.ignore_elements)
  BY <1>2, <1>3 DEF Opened
<1> HIDE DEF r
<1>7. tag.id \in (Id \ ids) \cup {NoId}
  BY TagTyped
<1>8. ids' \subseteq Id
  BY <1>1, <1>7 DEF Opens
<1> QED BY <1>1, <1>3, <1>4, <1>5, <1>6, <1>8 DEF r

\* The URIs handed out keep what is said of them as long as the stack stays and
\* no id is taken back.
LEMMA UrisStay ==
    ASSUME UrisGiven, stack' = stack, uris' = uris, ids \subseteq ids',
           elements' = 0 => elements = 0
    PROVE  UrisGiven'
<1>1. /\ IsFiniteSet(uris'.set) /\ uris'.set \subseteq UriType
      /\ uris'.number = Cardinality(uris'.set)
      /\ elements' = 0 => uris'.set = {}
  BY DEF UrisGiven
<1>2. Counting(stack', ids')
  BY DEF UrisGiven, Counting
<1>3. ASSUME NEW u \in uris'.set PROVE Given(u, stack', ids')
  <2>1. Given(u, stack, ids)
    BY <1>3 DEF UrisGiven
  <2>2. \A s, p : GivenOut(s, p, ids) => GivenOut(s, p, ids')
    BY DEF GivenOut
  <2>3. u.id # NoId => u.id \in ids'
    BY <2>1 DEF Given
  <2>4. \A k \in 1..Len(stack) :
           Extends(u, stack, k) => GivenOut(u.steps[k + 1], stack[k], ids')
    BY <2>1, <2>2 DEF Given
  <2> QED BY <2>3, <2>4 DEF Given
<1> QED BY <1>1, <1>2, <1>3 DEF UrisGiven

\* The new element has a number of its own.
LEMMA OpensNumbered ==
    ASSUME Shape, Numbered, CharsTyped, NEW tag \in Tags, Opens(tag), chars' = chars
    PROVE  Numbered' /\ CharsTyped'
<1>1. /\ elements' = elements + 1 /\ elements \in Nat /\ Len(open) \in Nat
      /\ \A i \in 1..Len(open) : open[i].num \in Nat
  <2>1. \A i \in 1..Len(open) : open[i] \in OpenType
    BY DEF Shape
  <2> QED BY <2>1 DEF Opens, Shape, OpenType
<1>2. /\ Len(open') = Len(open) + 1
      /\ \A i \in 1..Len(open) : open'[i] = open[i]
      /\ open'[Len(open) + 1].num = elements + 1
  BY OpensShape
<1>3. \A i \in 1..Len(open') : i \in 1..Len(open) \/ i = Len(open) + 1
  BY <1>1, <1>2
<1>4. \A i \in 1..Len(open') : open'[i].num <= elements'
  BY <1>1, <1>2, <1>3 DEF Numbered
<1>5. ASSUME NEW i \in 1..Len(open'), NEW j \in 1..Len(open'), i < j
      PROVE  open'[i].num < open'[j].num
  <2>1. i \in 1..Len(open)
    BY <1>1, <1>2, <1>5
  <2>2. CASE j \in 1..Len(open)
    BY <2>1, <2>2, <1>2, <1>5 DEF Numbered
  <2>3. CASE j = Len(open) + 1
    BY <2>1, <2>3, <1>1, <1>2 DEF Numbered
  <2> QED BY <2>2, <2>3, <1>3
<1>6. CharsTyped'
  <2>1. \A o \in chars : o.num \in Nat /\ o.num <= elements
    BY DEF CharsTyped, OriginType
  <2> QED BY <2>1, <1>1 DEF CharsTyped
<1> QED BY <1>4, <1>5, <1>6 DEF Numbered

\* The mark of the innermost element is that of the top of the stack.
LEMMA InnermostMarked ==
    ASSUME Shape, Marked, open # <<>>
    PROVE  Innermost.text <=> stack # <<>> /\ Parent.name \in xtm_simple.text_elements
<1>1. /\ Len(open) \in 1..Len(open) /\ Len(open) \in Nat
      /\ Len(stack) \in Nat /\ Len(stack) <= Len(open)
      /\ stack # <<>> => Len(stack) # 0
      /\ Len(stack) # 0 => stack # <<>>
  BY DEF Shape
<1>2. Innermost.text <=>
            \/ /\ Len(open) <= Len(stack)
               /\ stack[Len(open)].name \in xtm_simple.text_elements
            \/ /\ Len(open) > Len(stack) /\ stack # <<>>
               /\ Parent.name \in xtm_simple.text_elements
  BY <1>1 DEF Marked, Innermost
<1>3. CASE Len(open) = Len(stack)
  BY <1>1, <1>2, <1>3 DEF Parent
<1>4. CASE Len(open) > Len(stack)
  BY <1>1, <1>2, <1>4
<1> QED BY <1>1, <1>3, <1>4

\* A tag in an ignored subtree, or one that begins such a subtree.
LEMMA StartIgnoredKeeps ==
    ASSUME IInv, NEW tag \in Tags, Opens(tag),
           StartIgnored \/ StartIgnoring(xtm_simple, tag.name), UNCHANGED history
    PROVE  IInv'
<1>1. Shape /\ TextInv /\ UrisGiven
  BY DEF IInv
<1>2. /\ elements' \in Nat /\ elements' # 0 /\ ids' \subseteq Id
      /\ open' \in Seq(OpenType)
      /\ Len(open') = Len(open) + 1
      /\ \A i \in 1..Len(open) : open'[i] = open[i]
      /\ open'[Len(open) + 1] = Opened(tag)
      /\ Opened(tag).ignored
           <=> ignoreDepth # 0 \/ tag.name \in xtm_simple.ignore_elements
  BY <1>1, OpensShape
<1>3. stack' = stack /\ depth' = depth + 1 /\ uris' = uris
  BY DEF StartIgnored, StartIgnoring, history
<1>4. IF ignoreDepth # 0 THEN ignoreDepth' = ignoreDepth
      ELSE ignoreDepth' = depth + 1 /\ tag.name \in xtm_simple.ignore_elements
  BY DEF StartIgnored, StartIgnoring
<1>5. Shape'
  <2>1. /\ stack \in Seq(ElementType) /\ depth = Len(open) /\ Len(open) \in Nat
        /\ ignoreDepth \in 0..depth
        /\ Len(stack) = IF ignoreDepth = 0 THEN depth ELSE ignoreDepth - 1
        /\ \A i \in 1..Len(open) : open[i].ignored <=> ignoreDepth # 0 /\ i >= ignoreDepth
        /\ \A i \in 1..Len(stack) : stack[i].num = open[i].num
    BY <1>1 DEF Shape
  <2>2. ignoreDepth' \in 0..depth' /\ depth' = Len(open')
        /\ Len(stack) = IF ignoreDepth' = 0 THEN depth' ELSE ignoreDepth' - 1
    BY <2>1, <1>2, <1>3, <1>4
  <2>3. \A i \in 1..Len(stack) : i \in 1..Len(open)
    BY <2>1
  <2>4. \A i \in 1..Len(stack') : stack'[i].num = open'[i].num
    BY <2>1, <2>3, <1>2, <1>3
  <2>5. ASSUME NEW i \in 1..Len(open')
        PROVE  open'[i].ignored <=> ignoreDepth' # 0 /\ i >= ignoreDepth'
    <3>1. i \in 1..Len(open) \/ i = Len(open) + 1
      BY <1>2, <2>1
    <3>2. CASE i \in 1..Len(open)
      BY <3>2, <1>2, <1>4, <2>1
    <3>3. CASE i = Len(open) + 1
      BY <3>3, <1>2, <1>4, <2>1
    <3> QED BY <3>1, <3>2, <3>3
  <2> QED BY <2>1, <2>2, <2>4, <2>5, <1>2, <1>3 DEF Shape
<1>6. TextInv'
  <2>1. chars' = chars /\ Numbered /\ Marked /\ CharsTyped /\ TextAsWritten
    BY <1>1 DEF TextInv, history
  <2>2. Numbered' /\ CharsTyped'
    BY <2>1, <1>1, OpensNumbered
  <2>3. /\ Len(open) \in Nat /\ Len(stack) \in Nat /\ Len(stack) <= Len(open)
        /\ open = <<>> => stack = <<>>
    BY <1>1 DEF Shape
  <2>4. Opened(tag).ignored
    BY <1>2, <1>4
  <2>5. Opened(tag).text <=> open # <<>> /\ Innermost.text
    BY <2>4 DEF Opened
  <2>6. Opened(tag).text <=> stack # <<>> /\ Parent.name \in xtm_simple.text_elements
    BY <2>1, <2>3, <2>5, <1>1, InnermostMarked
  <2>7. Marked'
    <3>1. SUFFICES ASSUME NEW i \in 1..Len(open')
                   PROVE  open'[i].text <=>
                            \/ i <= Len(stack) /\ stack[i].name \in xtm_simple.text_elements
                            \/ /\ i > Len(stack) /\ stack # <<>>
                               /\ Parent.name \in xtm_simple.text_elements
      BY <1>3 DEF Marked, Parent
    <3>2. CASE i \in 1..Len(open)
      BY <3>2, <2>1, <1>2 DEF Marked
    <3>3. CASE i = Len(open) + 1
      BY <3>3, <2>3, <2>6, <1>2
    <3> QED BY <3>2, <3>3, <2>3, <1>2
  <2>8. TextAsWritten'
    BY <2>1, <1>3 DEF TextAsWritten, Own, Stray
  <2> QED BY <2>2, <2>7, <2>8 DEF TextInv
<1>7. UrisGiven'
  <2>1. ids \subseteq ids'
    BY DEF Opens
  <2> QED BY <1>1, <1>2, <1>3, <2>1, UrisStay
<1> QED BY <1>5, <1>6, <1>7 DEF IInv

\* An element that is pushed.  What Push does, said of the parts of the stack.
LEMMA PushIs ==
    ASSUME Shape, NEW e \in ElementType, Push(xtm_simple, e)
    PROVE  /\ ignoreDepth = 0 /\ ignoreDepth' = 0 /\ depth' = depth + 1
           /\ e.name \notin xtm_simple.ignore_elements
           /\ stack' = Append(Counted(e.name), e)
           /\ stack' \in Seq(ElementType)
           /\ Len(stack) \in Nat /\ Len(stack') = Len(stack) + 1
           /\ stack'[Len(stack) + 1] = e
           /\ \A i \in 1..Len(stack) :
                 /\ stack'[i].name = stack[i].name /\ stack'[i].id = stack[i].id
                 /\ stack'[i].num = stack[i].num /\ stack'[i].text = stack[i].text
                 /\ i # Len(stack) => stack'[i] = stack[i]
                 /\ Step(stack', i) = Step(stack, i)
           /\ stack # <<>> => stack'[Len(stack)].childs
                                = [Parent.childs EXCEPT ![e.name] = @ + 1]
<1> DEFINE c == Counted(e.name)
<1>1. e.name \in Name
  BY DEF ElementType
<1>2. stack \in Seq(ElementType)
  BY DEF Shape
<1>3. stack' = Append(c, e) /\ ignoreDepth = 0 /\ ignoreDepth' = 0 /\ depth' = depth + 1
      /\ e.name \notin xtm_simple.ignore_elements
  BY DEF Push
<1>4. /\ c \in Seq(ElementType) /\ Len(c) = Len(stack)
      /\ \A i \in 1..Len(stack) :
            /\ c[i].name = stack[i].name /\ c[i].id = stack[i].id
            /\ c[i].num = stack[i].num /\ c[i].text = stack[i].text
            /\ i # Len(stack) => c[i] = stack[i]
      /\ stack # <<>> => c[Len(stack)].childs = [Parent.childs EXCEPT ![e.name] = @ + 1]
  BY <1>1, <1>2, CountedIs
<1>5. \A i \in 1..Len(stack) : Step(stack', i) = Step(stack, i)
  BY <1>2, <1>3, StepsStay
<1> HIDE DEF c
<1>6. Len(stack) \in Nat /\ (stack # <<>> => Len(stack) \in 1..Len(stack))
  BY <1>2
<1>7. \A i \in 1..Len(stack) : stack'[i] = c[i]
  BY <1>3, <1>4
<1>8. stack' \in Seq(ElementType) /\ Len(stack') = Len(stack) + 1
      /\ stack'[Len(stack) + 1] = e
  BY <1>3, <1>4
<1> QED BY <1>3, <1>4, <1>5, <1>6, <1>7, <1>8 DEF c

LEMMA PushKeepsShape ==
    ASSUME Shape, TextInv, NEW tag \in Tags, Opens(tag), NEW e \in ElementType,
           e.name = tag.name, e.num = elements + 1, e.text = {}, Push(xtm_simple, e),
           chars' = chars
    PROVE  Shape' /\ TextInv'
<1>1. /\ elements' \in Nat /\ elements' # 0 /\ ids' \subseteq Id
      /\ open' \in Seq(OpenType)
      /\ Len(open') = Len(open) + 1
      /\ \A i \in 1..Len(open) : open'[i] = open[i]
      /\ open'[Len(open) + 1].num = elements + 1
      /\ open'[Len(open) + 1] = Opened(tag)
      /\ Opened(tag).ignored
           <=> ignoreDepth # 0 \/ tag.name \in xtm_simple.ignore_elements
  BY OpensShape
<1>2. /\ ignoreDepth = 0 /\ ignoreDepth' = 0 /\ depth' = depth + 1
      /\ e.name \notin xtm_simple.ignore_elements
      /\ stack' \in Seq(ElementType)
      /\ Len(stack) \in Nat /\ Len(stack') = Len(stack) + 1
      /\ stack'[Len(stack) + 1] = e
      /\ \A i \in 1..Len(stack) : /\ stack'[i].num = stack[i].num
                                  /\ stack'[i].name = stack[i].name
                                  /\ stack'[i].text = stack[i].text
  BY PushIs
<1>3. /\ depth = Len(open) /\ Len(open) \in Nat
      /\ Len(stack) = depth
      /\ \A i \in 1..Len(open) : ~ open[i].ignored
      /\ \A i \in 1..Len(stack) : stack[i].num = open[i].num
  BY <1>2 DEF Shape
<1>4. \A i \in 1..Len(stack') : i \in 1..Len(stack) \/ i = Len(stack) + 1
  BY <1>2
<1>5. \A i \in 1..Len(open') : ~ open'[i].ignored
  BY <1>1, <1>2, <1>3, <1>4
<1>6. \A i \in 1..Len(stack') : stack'[i].num = open'[i].num
  BY <1>1, <1>2, <1>3, <1>4
<1>7. Shape'
  BY <1>1, <1>2, <1>3, <1>5, <1>6 DEF Shape
<1>8. Numbered /\ Marked /\ CharsTyped /\ TextAsWritten
  BY DEF TextInv
<1>9. Numbered' /\ CharsTyped'
  BY <1>8, OpensNumbered
<1>10. Marked'
  <2>1. Opened(tag).text <=> e.name \in xtm_simple.text_elements
    BY <1>1, <1>2 DEF Opened
  <2>2. SUFFICES ASSUME NEW i \in 1..Len(open')
                 PROVE  /\ i <= Len(stack')
                        /\ open'[i].text <=> stack'[i].name \in xtm_simple.text_elements
    BY <1>2 DEF Marked
  <2>3. CASE i \in 1..Len(stack)
    <3>1. open[i].text <=> stack[i].name \in xtm_simple.text_elements
      BY <2>3, <1>3, <1>8 DEF Marked
    <3> QED BY <3>1, <2>3, <1>1, <1>2, <1>3
  <2>4. CASE i = Len(stack) + 1
    BY <2>1, <2>4, <1>1, <1>2, <1>3
  <2> QED BY <2>3, <2>4, <1>1, <1>2, <1>3
<1>11. TextAsWritten'
  <2>1. DOMAIN stack' = 1..Len(stack') /\ DOMAIN stack = 1..Len(stack)
    BY <1>2 DEF Shape
  <2>2. SUFFICES ASSUME NEW i \in 1..Len(stack'),
                        StrayIn(chars, stack'[i].num) = {}
                 PROVE  stack'[i].text = OwnIn(chars, stack'[i].num)
    BY <2>1 DEF TextAsWritten, Own, Stray, OwnIn, StrayIn
  <2>3. CASE i \in 1..Len(stack)
    <3>1. StrayIn(chars, stack[i].num) = {}
      BY <2>2, <2>3, <1>2
    <3>2. stack[i].text = OwnIn(chars, stack[i].num)
      BY <3>1, <2>1, <2>3, <1>8 DEF TextAsWritten, Own, Stray, OwnIn, StrayIn
    <3> QED BY <3>2, <2>3, <1>2
  <2>4. CASE i = Len(stack) + 1
    <3>1. ASSUME NEW o \in chars PROVE o.num # elements + 1
      <4>1. o.num \in Nat /\ o.num <= elements
        BY <1>8 DEF CharsTyped, OriginType
      <4>2. elements \in Nat
        BY DEF Shape
      <4> QED BY <4>1, <4>2
    <3>2. OwnIn(chars, elements + 1) = {}
      BY <3>1 DEF OwnIn
    <3>3. stack'[i].num = elements + 1 /\ stack'[i].text = {}
      BY <2>4, <1>2
    <3> QED BY <3>2, <3>3
  <2> QED BY <2>3, <2>4, <1>4
<1> QED BY <1>7, <1>9, <1>10, <1>11 DEF TextInv

\* The URI of a new element has not been given out, and is from then on; the
\* URIs given out before are not among those that may come.
LEMMA PushKeepsUris ==
    ASSUME Shape, UrisGiven, NEW tag \in Tags, Opens(tag), NEW e \in ElementType,
           e.name = tag.name, e.id = tag.id,
           e.uri = ElementUri(Counted(e.name), e.name, e.id),
           Push(xtm_simple, e),
           uris' = [set |-> uris.set \cup {e.uri}, number |-> uris.number + 1]
    PROVE  UrisGiven'
<1> DEFINE n == Len(stack)
           u0 == e.uri
<1>1. /\ e.name \in Name /\ e.id \in (Id \ ids) \cup {NoId}
      /\ ids' = ids \cup ({e.id} \ {NoId})
      /\ stack \in Seq(ElementType) /\ n \in Nat
      /\ elements \in Nat /\ elements' = elements + 1
  BY TagTyped DEF Opens, Shape
<1>2. /\ stack' \in Seq(ElementType) /\ Len(stack') = n + 1 /\ stack'[n + 1] = e
      /\ \A i \in 1..n :
            /\ stack'[i].name = stack[i].name /\ stack'[i].id = stack[i].id
            /\ i # n => stack'[i] = stack[i]
            /\ Step(stack', i) = Step(stack, i)
      /\ stack # <<>> => stack'[n].childs = [Parent.childs EXCEPT ![e.name] = @ + 1]
  BY PushIs
<1>3. n = 0 => elements = 0
  BY PushIs DEF Shape, Opens
<1>4. /\ IsFiniteSet(uris.set) /\ uris.set \subseteq UriType
      /\ uris.number = Cardinality(uris.set)
      /\ elements = 0 => uris.set = {}
      /\ Counting(stack, ids)
      /\ \A u \in uris.set : Given(u, stack, ids)
  BY DEF UrisGiven
<1>5. /\ u0 \in UriType /\ u0.id = e.id
      /\ e.id = NoId =>
            /\ Len(u0.steps) = n + 1
            /\ \A i \in 1..n : u0.steps[i] = Step(stack, i)
            /\ u0.steps[n + 1] = [name |-> e.name, id |-> NoId, index |-> NextIndex(e.name)]
  BY <1>1, UriIs
<1> HIDE DEF u0, n
<1>6. n # 0 => /\ n \in 1..n /\ Parent = stack[n] /\ stack # <<>>
               /\ stack[n].childs \in [Name -> Nat]
               /\ NextIndex(e.name) = stack[n].childs[e.name] + 1
               /\ stack'[n].childs = [stack[n].childs EXCEPT ![e.name] = @ + 1]
  <2> SUFFICES ASSUME n # 0
               PROVE  /\ n \in 1..n /\ Parent = stack[n] /\ stack # <<>>
                      /\ stack[n].childs \in [Name -> Nat]
                      /\ NextIndex(e.name) = stack[n].childs[e.name] + 1
                      /\ stack'[n].childs = [stack[n].childs EXCEPT ![e.name] = @ + 1]
    OBVIOUS
  <2>1. n \in 1..n /\ stack # <<>> /\ Parent = stack[n]
    BY <1>1 DEF n, Parent
  <2>2. stack[n] \in ElementType
    BY <2>1, <1>1 DEF n
  <2>3. stack[n].childs \in [Name -> Nat]
    BY <2>2 DEF ElementType
  <2> QED BY <2>1, <2>3, <1>2 DEF NextIndex
\* A URI given out before that goes on from the innermost element does not go
\* on with the step of e.
<1>7. ASSUME NEW u \in uris.set, n # 0, Extends(u, stack, n), u.steps[n + 1].name = e.name,
             u.steps[n + 1].id = e.id
      PROVE  e.id = NoId /\ u.steps[n + 1].index # NextIndex(e.name)
  <2>1. GivenOut(u.steps[n + 1], stack[n], ids)
    BY <1>4, <1>6, <1>7 DEF Given, n
  <2>2. e.id = NoId
    BY <2>1, <1>1, <1>7, NoIdAssumption DEF GivenOut, Shape
  <2>3. u.steps[n + 1].index <= stack[n].childs[e.name]
    BY <2>1, <2>2, <1>7 DEF GivenOut
  <2>4. u.steps[n + 1].index \in Nat
    <3>1. u.steps \in Seq(StepType) /\ Len(u.steps) > n
      BY <1>4, <1>7 DEF UriType, Extends
    <3>2. u.steps[n + 1] \in StepType
      BY <3>1, <1>1
    <3> QED BY <3>2 DEF StepType
  <2>5. stack[n].childs[e.name] \in Nat
    BY <1>1, <1>6, <1>7
  <2> QED BY <2>2, <2>3, <2>4, <2>5, <1>6, <1>7
<1>8. u0 \notin uris.set
  <2> SUFFICES ASSUME u0 \in uris.set PROVE FALSE
    OBVIOUS
  <2>1. u0.id # NoId => u0.id \in ids
    BY <1>4 DEF Given
  <2>2. e.id = NoId
    BY <2>1, <1>1, <1>5
  <2>3. n # 0
    BY <1>3, <1>4
  <2>4. Extends(u0, stack, n)
    BY <2>2, <1>1, <1>5 DEF Extends
  <2> QED BY <2>2, <2>3, <2>4, <1>5, <1>7
<1>9. uris'.set = uris.set \cup {u0} /\ uris'.number = uris.number + 1
  BY DEF u0
<1>10. /\ IsFiniteSet(uris'.set) /\ uris'.set \subseteq UriType
       /\ uris'.number = Cardinality(uris'.set)
  <2>1. IsFiniteSet(uris.set \cup {u0})
        /\ Cardinality(uris.set \cup {u0}) = Cardinality(uris.set) + 1
    BY <1>4, <1>8, FS_AddElement
  <2> QED BY <2>1, <1>4, <1>5, <1>9
<1>11. elements' # 0
  BY <1>1
<1>12. Counting(stack', ids')
  <2>1. ASSUME NEW i \in 1..(n + 1) PROVE stack'[i].id # NoId => stack'[i].id \in ids'
    <3>1. i \in 1..n \/ i = n + 1
      BY <1>1
    <3>2. i \in 1..n => (stack[i].id # NoId => stack[i].id \in ids)
      BY <1>4 DEF Counting, n
    <3> QED BY <3>1, <3>2, <1>1, <1>2
  <2>2. ASSUME NEW i \in 2..(n + 1) PROVE stack'[i - 1].childs[stack'[i].name] # 0
    <3>1. i \in 2..n \/ i = n + 1
      BY <1>1
    <3>2. CASE i \in 2..n
      <4>1. i \in 1..n /\ i - 1 \in 1..n /\ i - 1 # n
        BY <3>2, <1>1
      <4>2. stack[i - 1].childs[stack[i].name] # 0
        BY <3>2, <1>4 DEF Counting, n
      <4> QED BY <4>1, <4>2, <1>2
    <3>3. CASE i = n + 1
      <4>1. n # 0 /\ i - 1 = n /\ stack'[i].name = e.name
        BY <3>3, <1>1, <1>2
      <4>2. stack'[n].childs[e.name] = stack[n].childs[e.name] + 1
        BY <4>1, <1>1, <1>6
      <4>3. stack[n].childs[e.name] \in Nat
        BY <4>1, <1>1, <1>6
      <4> QED BY <4>1, <4>2, <4>3
    <3> QED BY <3>1, <3>2, <3>3
  <2> QED BY <2>1, <2>2, <1>2 DEF Counting
<1>13. ASSUME NEW u \in uris.set PROVE Given(u, stack', ids')
  <2>1. u.id # NoId => u.id \in ids'
    BY <1>1, <1>4 DEF Given
  <2>2. ASSUME NEW k \in 1..(n + 1), Extends(u, stack', k)
        PROVE  GivenOut(u.steps[k + 1], stack'[k], ids')
    <3>1. k \in 1..n \/ k = n + 1
      BY <1>1
    <3>2. CASE k \in 1..n
      <4>1. \A i \in 1..k : i \in 1..n
        BY <3>2, <1>1
      <4>2. Extends(u, stack, k)
        BY <4>1, <2>2, <1>2 DEF Extends
      <4>3. GivenOut(u.steps[k + 1], stack[k], ids)
        BY <3>2, <4>2, <1>4 DEF Given, n
      <4>4. CASE k # n
        BY <3>2, <4>3, <4>4, <1>1, <1>2 DEF GivenOut
      <4>5. CASE k = n
        <5>1. n # 0
          BY <4>5, <3>2
        <5>2. u.steps[n + 1] \in StepType
          <6>1. u.steps \in Seq(StepType) /\ Len(u.steps) > n
            BY <1>4, <4>2, <4>5 DEF UriType, Extends
          <6> QED BY <6>1, <1>1
        <5>3. u.steps[n + 1].name \in Name
          BY <5>2 DEF StepType
        <5>4. /\ u.steps[n + 1].index \in Nat
              /\ stack[n].childs[u.steps[n + 1].name] \in Nat
          BY <5>1, <5>2, <5>3, <1>6 DEF StepType
        <5>5. /\ stack'[n].childs[u.steps[n + 1].name] \in Nat
              /\ stack'[n].childs[u.steps[n + 1].name] >= stack[n].childs[u.steps[n + 1].name]
          <6>1. stack'[n].childs[u.steps[n + 1].name]
                  = IF u.steps[n + 1].name = e.name THEN stack[n].childs[e.name] + 1
                    ELSE stack[n].childs[u.steps[n + 1].name]
            BY <5>1, <5>3, <1>6
          <6> QED BY <6>1, <5>4
        <5> QED BY <4>3, <4>5, <5>4, <5>5, <1>1 DEF GivenOut
      <4> QED BY <4>4, <4>5
    <3>3. CASE k = n + 1
      <4>1. n # 0
        BY <1>3, <1>4
      <4>2. /\ u.id = NoId /\ Len(u.steps) > n + 1
            /\ \A i \in 1..(n + 1) : u.steps[i] = Step(stack', i)
        BY <3>3, <2>2 DEF Extends
      <4>3. u.steps \in Seq(StepType)
        BY <1>4 DEF UriType
      <4>4. Extends(u, stack, n)
        <5>1. Len(u.steps) > n /\ \A i \in 1..n : i \in 1..(n + 1)
          BY <4>2, <4>3, <1>1
        <5> QED BY <4>2, <5>1, <1>2 DEF Extends
      <4>5. u.steps[n + 1] = Step(stack', n + 1)
        BY <4>2, <1>1
      <4>6. u.steps[n + 1].name = e.name /\ u.steps[n + 1].id = e.id
        BY <4>5, <1>2 DEF Step
      <4>7. e.id = NoId /\ u.steps[n + 1].index # NextIndex(e.name)
        BY <4>1, <4>4, <4>6, <1>7
      <4>8. u.steps[n + 1].index = ChildCount(stack'[n], e.name)
        <5>1. n + 1 # 1 /\ (n + 1) - 1 = n
          BY <4>1, <1>1
        <5> QED BY <4>5, <4>7, <5>1, <1>2 DEF Step
      <4>9. stack'[n].childs[e.name] = NextIndex(e.name) /\ NextIndex(e.name) # 0
        BY <4>1, <1>1, <1>6
      <4>10. ChildCount(stack'[n], e.name) = NextIndex(e.name)
        BY <4>9 DEF ChildCount
      <4> QED BY <4>7, <4>8, <4>10
    <3> QED BY <3>1, <3>2, <3>3
  <2> QED BY <2>1, <2>2, <1>2 DEF Given
<1>14. Given(u0, stack', ids')
  <2>1. u0.id # NoId => u0.id \in ids'
    BY <1>1, <1>5
  <2>2. ASSUME NEW k \in 1..(n + 1), Extends(u0, stack', k)
        PROVE  GivenOut(u0.steps[k + 1], stack'[k], ids')
    <3>1. e.id = NoId /\ k \in 1..n
      BY <2>2, <1>1, <1>5 DEF Extends
    <3>2. n # 0
      BY <3>1
    <3>3. CASE k = n
      <4>1. u0.steps[k + 1] = [name |-> e.name, id |-> NoId, index |-> NextIndex(e.name)]
        BY <3>1, <3>3, <1>5
      <4>2. stack'[n].childs[e.name] = NextIndex(e.name) /\ NextIndex(e.name) \in Nat
        BY <3>2, <1>1, <1>6
      <4> QED BY <3>3, <4>1, <4>2 DEF GivenOut
    <3>4. CASE k # n
      <4>1. k + 1 \in 1..n /\ k + 1 \in 2..n /\ (k + 1) - 1 = k /\ k + 1 # 1
        BY <3>1, <3>4, <1>1
      <4>2. u0.steps[k + 1] = Step(stack, k + 1)
        BY <3>1, <4>1, <1>5
      <4>3. /\ u0.steps[k + 1].name = stack[k + 1].name
            /\ u0.steps[k + 1].id = stack[k + 1].id
            /\ u0.steps[k + 1].id = NoId =>
                  u0.steps[k + 1].index = ChildCount(stack[k], stack[k + 1].name)
        BY <4>1, <4>2 DEF Step
      <4>4. stack[k].childs[stack[k + 1].name] # 0
        BY <4>1, <1>4 DEF Counting, n
      <4>5. stack[k].childs[stack[k + 1].name] \in Nat
        <5>1. stack[k] \in ElementType /\ stack[k + 1] \in ElementType
          BY <3>1, <4>1, <1>1 DEF n
        <5>2. stack[k].childs \in [Name -> Nat] /\ stack[k + 1].name \in Name
          BY <5>1 DEF ElementType
        <5> QED BY <5>2
      <4>6. stack'[k] = stack[k]
        BY <3>1, <3>4, <1>2
      <4>7. stack[k + 1].id # NoId => stack[k + 1].id \in ids'
        BY <4>1, <1>1, <1>4 DEF Counting, n
      <4> QED BY <4>3, <4>4, <4>5, <4>6, <4>7 DEF GivenOut, ChildCount
    <3> QED BY <3>3, <3>4
  <2> QED BY <2>1, <2>2, <1>2 DEF Given
<1> QED BY <1>9, <1>10, <1>11, <1>12, <1>13, <1>14 DEF UrisGiven

-----------------------------------------------------------------------------
(* An end tag and characters *)

\* What an end tag does to the document: the innermost element is over.
Closes ==
    /\ open # <<>>
    /\ open' = SubSeq(open, 1, Len(open) - 1)
    /\ chars' = {origin \in chars : Concerned(origin) # Innermost.num}
    /\ UNCHANGED <<elements, ids, uris>>

\* A sequence without its last element.
LEMMA WithoutLast ==
    ASSUME NEW S, NEW q \in Seq(S), Len(q) \in Nat \ {0}
    PROVE  LET r == SubSeq(q, 1, Len(q) - 1)
           IN  /\ r \in Seq(S) /\ Len(r) = Len(q) - 1
               /\ \A i \in 1..(Len(q) - 1) : r[i] = q[i]
<1> DEFINE n == Len(q)
           r == SubSeq(q, 1, n - 1)
<1>1. n \in Nat \ {0} /\ DOMAIN q = 1..n
  OBVIOUS
<1>2. r \in Seq(S) /\ Len(r) = n - 1
  BY <1>1
<1>3. \A i \in 1..(n - 1) : r[i] = q[i]
  BY <1>1
<1> QED BY <1>2, <1>3

LEMMA ClosesShape ==
    ASSUME Shape, Closes
    PROVE  /\ Len(open) \in Nat \ {0}
           /\ open' \in Seq(OpenType) /\ Len(open') = Len(open) - 1
           /\ \A i \in 1..(Len(open) - 1) : open'[i] = open[i]
<1>1. open \in Seq(OpenType) /\ open # <<>> /\ Len(open) \in Nat \ {0}
  BY DEF Shape, Closes
<1>2. open' = SubSeq(open, 1, Len(open) - 1)
  BY DEF Closes
<1> QED BY <1>1, <1>2, WithoutLast

\* The end of an element leaves the numbers, and what is known of the characters
\* that matter to the elements around it.
LEMMA ClosesKeeps ==
    ASSUME Shape, Numbered, CharsTyped, Closes
    PROVE  /\ Numbered' /\ CharsTyped'
           /\ \A i \in 1..(Len(open) - 1) : open[i].num # Innermost.num
           /\ \A num : num # Innermost.num =>
                 /\ OwnIn(chars', num) = OwnIn(chars, num)
                 /\ StrayIn(chars', num) = StrayIn(chars, num)
<1>1. /\ Len(open) \in Nat \ {0} /\ Len(open') = Len(open) - 1
      /\ \A i \in 1..(Len(open) - 1) : open'[i] = open[i]
  BY ClosesShape DEF Shape, Closes
<1>2. elements' = elements
      /\ chars' = {o \in chars : Concerned(o) # Innermost.num}
  BY DEF Closes
<1>3. \A i \in 1..(Len(open) - 1) : i \in 1..Len(open) /\ i < Len(open)
                                       /\ Len(open) \in 1..Len(open)
  BY <1>1
<1>4. Numbered'
  BY <1>1, <1>2, <1>3 DEF Numbered
<1>5. CharsTyped'
  BY <1>2 DEF CharsTyped
<1>6. ASSUME NEW i \in 1..(Len(open) - 1) PROVE open[i].num # Innermost.num
  <2>1. open[i].num < open[Len(open)].num
    BY <1>3 DEF Numbered
  <2>2. open[i] \in OpenType /\ open[Len(open)] \in OpenType
    BY <1>3 DEF Shape
  <2>3. open[i].num \in Nat /\ open[Len(open)].num \in Nat
    BY <2>2 DEF OpenType
  <2> QED BY <2>1, <2>3 DEF Innermost
<1>7. ASSUME NEW num, num # Innermost.num
      PROVE  /\ OwnIn(chars', num) = OwnIn(chars, num)
             /\ StrayIn(chars', num) = StrayIn(chars, num)
  BY <1>2, <1>7 DEF OwnIn, StrayIn, Concerned
<1> QED BY <1>4, <1>5, <1>6, <1>7

\* What is left on the stack keeps its text, as what is known of it stays.
LEMMA TextStays ==
    ASSUME TextAsWritten, NEW n \in Nat, NEW m \in Nat, n <= m,
           DOMAIN stack = 1..m, DOMAIN stack' = 1..n,
           \A i \in 1..n :
              /\ stack'[i].num = stack[i].num /\ stack'[i].text = stack[i].text
              /\ OwnIn(chars', stack[i].num) = OwnIn(chars, stack[i].num)
              /\ StrayIn(chars', stack[i].num) = StrayIn(chars, stack[i].num)
    PROVE  TextAsWritten'
<1>1. SUFFICES ASSUME NEW i \in 1..n, StrayIn(chars', stack'[i].num) = {}
               PROVE  stack'[i].text = OwnIn(chars', stack'[i].num)
  BY DEF TextAsWritten, Own, Stray, OwnIn, StrayIn
<1>2. StrayIn(chars, stack[i].num) = {} => stack[i].text = OwnIn(chars, stack[i].num)
  BY DEF TextAsWritten, Own, Stray, OwnIn, StrayIn
<1> QED BY <1>1, <1>2

\* In an ignored subtree, and at the end of one.
LEMMA EndIgnoredKeeps ==
    ASSUME IInv, Closes, EndIgnored \/ EndIgnoring
    PROVE  IInv'
<1>1. Shape /\ TextInv /\ UrisGiven
  BY DEF IInv
<1>2. /\ Len(open) \in Nat \ {0}
      /\ open' \in Seq(OpenType) /\ Len(open') = Len(open) - 1
      /\ \A i \in 1..(Len(open) - 1) : open'[i] = open[i]
  BY <1>1, ClosesShape
<1>3. stack' = stack /\ depth' = depth - 1 /\ ignoreDepth # 0
      /\ elements' = elements /\ ids' = ids /\ uris' = uris
  BY DEF EndIgnored, EndIgnoring, Closes
<1>4. IF ignoreDepth < depth THEN ignoreDepth' = ignoreDepth ELSE ignoreDepth' = 0
  BY <1>1 DEF EndIgnored, EndIgnoring, Shape
<1>5. Shape'
  <2>1. /\ stack \in Seq(ElementType) /\ depth = Len(open) /\ elements # 0
        /\ elements \in Nat /\ ids \subseteq Id
        /\ ignoreDepth \in 0..depth /\ Len(stack) = ignoreDepth - 1
        /\ \A i \in 1..Len(open) : open[i].ignored <=> i >= ignoreDepth
        /\ \A i \in 1..Len(stack) : stack[i].num = open[i].num
    BY <1>1, <1>3 DEF Shape, Closes
  <2>2. \A i \in 1..Len(open') : i \in 1..Len(open) /\ open'[i] = open[i]
    BY <1>2
  <2>3. \A i \in 1..Len(stack) : i \in 1..Len(open')
    BY <2>1, <1>2
  <2>4. \A i \in 1..Len(open') : open'[i].ignored <=> ignoreDepth' # 0 /\ i >= ignoreDepth'
    <3>1. SUFFICES ASSUME NEW i \in 1..Len(open')
                   PROVE  open'[i].ignored <=> ignoreDepth' # 0 /\ i >= ignoreDepth'
      OBVIOUS
    <3> QED BY <2>1, <2>2, <1>2, <1>3, <1>4
  <2>5. \A i \in 1..Len(stack') : stack'[i].num = open'[i].num
    BY <2>1, <2>2, <2>3, <1>3
  <2>6. /\ depth' = Len(open') /\ ignoreDepth' \in 0..depth'
        /\ Len(stack) = IF ignoreDepth' = 0 THEN depth' ELSE ignoreDepth' - 1
    BY <2>1, <1>2, <1>3, <1>4
  <2> QED BY <2>1, <2>4, <2>5, <2>6, <1>2, <1>3 DEF Shape
<1>6. TextInv'
  <2>1. Numbered /\ Marked /\ CharsTyped /\ TextAsWritten
    BY <1>1 DEF TextInv
  <2>2. /\ Numbered' /\ CharsTyped'
        /\ \A i \in 1..(Len(open) - 1) : open[i].num # Innermost.num
        /\ \A num : num # Innermost.num =>
              /\ OwnIn(chars', num) = OwnIn(chars, num)
              /\ StrayIn(chars', num) = StrayIn(chars, num)
    BY <2>1, <1>1, ClosesKeeps
  <2>3. /\ DOMAIN stack = 1..Len(stack) /\ Len(stack) < Len(open) /\ Len(stack) \in Nat
        /\ \A i \in 1..Len(stack) : stack[i].num = open[i].num
    BY <1>1, <1>3 DEF Shape
  <2>4. Marked'
    <3>1. \A i \in 1..Len(open') : i \in 1..Len(open) /\ open'[i] = open[i]
      BY <1>2
    <3> QED BY <3>1, <2>1, <1>3 DEF Marked, Parent
  <2>5. TextAsWritten'
    <3> DEFINE n == Len(stack)
    <3>1. n \in Nat /\ n <= n /\ DOMAIN stack = 1..n /\ DOMAIN stack' = 1..n
      BY <2>3, <1>3
    <3>2. \A i \in 1..n : i \in 1..(Len(open) - 1)
      BY <2>3, <1>2
    <3>3. \A i \in 1..n : stack[i].num # Innermost.num
      BY <3>2, <2>2, <2>3
    <3>4. \A i \in 1..n :
             /\ stack'[i].num = stack[i].num /\ stack'[i].text = stack[i].text
             /\ OwnIn(chars', stack[i].num) = OwnIn(chars, stack[i].num)
             /\ StrayIn(chars', stack[i].num) = StrayIn(chars, stack[i].num)
      BY <3>3, <2>2, <1>3
    <3> HIDE DEF n
    <3> QED BY <3>1, <3>4, <2>1, TextStays
  <2> QED BY <2>2, <2>4, <2>5 DEF TextInv
<1>7. UrisGiven'
  BY <1>1, <1>2, <1>3, UrisStay
<1> QED BY <1>5, <1>6, <1>7 DEF IInv

\* The innermost element is popped; what is below stays as it was.
LEMMA PopKeeps ==
    ASSUME IInv, Closes, Pop
    PROVE  IInv'
<1> DEFINE n == Len(stack)
<1>1. Shape /\ TextInv /\ UrisGiven
  BY DEF IInv
<1>2. /\ Len(open) \in Nat \ {0}
      /\ open' \in Seq(OpenType) /\ Len(open') = Len(open) - 1
      /\ \A i \in 1..(Len(open) - 1) : open'[i] = open[i]
  BY <1>1, ClosesShape
<1>3. /\ ignoreDepth = 0 /\ ignoreDepth' = 0 /\ depth' = depth - 1
      /\ stack' = SubSeq(stack, 1, n - 1)
      /\ elements' = elements /\ ids' = ids /\ uris' = uris
  BY DEF Pop, Closes
<1>4. /\ stack \in Seq(ElementType) /\ depth = Len(open) /\ elements # 0
      /\ elements \in Nat /\ ids \subseteq Id /\ n = depth
      /\ \A i \in 1..Len(open) : ~ open[i].ignored
      /\ \A i \in 1..n : stack[i].num = open[i].num
  BY <1>1, <1>3 DEF Shape, Closes
<1>5. n \in Nat \ {0} /\ DOMAIN stack = 1..n
  BY <1>2, <1>4
<1>6. /\ stack' \in Seq(ElementType) /\ Len(stack') = n - 1
      /\ \A i \in 1..(n - 1) : stack'[i] = stack[i]
  BY <1>3, <1>4, <1>5
<1> HIDE DEF n
<1>7. \A i \in 1..(n - 1) : i \in 1..n
  BY <1>5
<1>8. Shape'
  <2>1. \A i \in 1..Len(open') : i \in 1..Len(open) /\ open'[i] = open[i]
    BY <1>2
  <2>2. \A i \in 1..Len(open') : ~ open'[i].ignored
    BY <2>1, <1>4
  <2>3. \A i \in 1..Len(stack') : stack'[i].num = open'[i].num
    BY <2>1, <1>2, <1>4, <1>6, <1>7
  <2> QED BY <2>2, <2>3, <1>2, <1>3, <1>4, <1>5, <1>6 DEF Shape
<1>9. TextInv'
  <2>1. Numbered /\ Marked /\ CharsTyped /\ TextAsWritten
    BY <1>1 DEF TextInv
  <2>2. /\ Numbered' /\ CharsTyped'
        /\ \A i \in 1..(Len(open) - 1) : open[i].num # Innermost.num
        /\ \A num : num # Innermost.num =>
              /\ OwnIn(chars', num) = OwnIn(chars, num)
              /\ StrayIn(chars', num) = StrayIn(chars, num)
    BY <2>1, <1>1, ClosesKeeps
  <2>3. DOMAIN stack' = 1..(n - 1) /\ n - 1 \in Nat
    BY <1>5, <1>6
  <2>4. Marked'
    <3>1. SUFFICES ASSUME NEW i \in 1..(n - 1)
                   PROVE  open'[i].text <=> stack'[i].name \in xtm_simple.text_elements
      BY <2>3, <1>2, <1>4, <1>6 DEF Marked
    <3>2. i \in 1..Len(open) /\ i <= n
      BY <1>4, <1>5
    <3>3. open[i].text <=> stack[i].name \in xtm_simple.text_elements
      BY <3>2, <2>1, <1>5 DEF Marked, n
    <3> QED BY <3>3, <1>2, <1>4, <1>6
  <2>5. \A i \in 1..(n - 1) :
              /\ stack'[i].num = stack[i].num /\ stack'[i].text = stack[i].text
              /\ OwnIn(chars', stack[i].num) = OwnIn(chars, stack[i].num)
              /\ StrayIn(chars', stack[i].num) = StrayIn(chars, stack[i].num)
    BY <2>2, <1>4, <1>6, <1>7
  <2>6. TextAsWritten'
    BY <2>1, <2>3, <2>5, <1>5, TextStays
  <2> QED BY <2>2, <2>4, <2>6 DEF TextInv
<1>10. Counting(stack', ids')
  <2>1. Counting(stack, ids)
    BY <1>1 DEF UrisGiven
  <2>2. \A i \in 1..(n - 1) : stack'[i].id # NoId => stack'[i].id \in ids'
    BY <2>1, <1>3, <1>6, <1>7 DEF Counting, n
  <2>3. \A i \in 2..(n - 1) : i \in 2..n /\ i \in 1..(n - 1) /\ i - 1 \in 1..(n - 1)
    BY <1>5
  <2>4. \A i \in 2..(n - 1) : stack'[i - 1].childs[stack'[i].name] # 0
    <3> SUFFICES ASSUME NEW i \in 2..(n - 1)
                 PROVE  stack'[i - 1].childs[stack'[i].name] # 0
      OBVIOUS
    <3>1. stack[i - 1].childs[stack[i].name] # 0
      BY <2>1, <2>3 DEF Counting, n
    <3>2. stack'[i] = stack[i] /\ stack'[i - 1] = stack[i - 1]
      BY <2>3, <1>6
    <3> QED BY <3>1, <3>2
  <2> QED BY <2>2, <2>4, <1>6 DEF Counting
<1>11. ASSUME NEW u \in uris.set PROVE Given(u, stack', ids')
  <2>1. Given(u, stack, ids)
    BY <1>1 DEF UrisGiven
  <2>2. ASSUME NEW k \in 1..(n - 1), Extends(u, stack', k)
        PROVE  GivenOut(u.steps[k + 1], stack'[k], ids')
    <3>1. \A i \in 1..k : i \in 1..(n - 1) /\ (i # 1 => i - 1 \in 1..(n - 1))
      BY <1>5
    <3>2. \A i \in 1..k : stack'[i] = stack[i] /\ (i # 1 => stack'[i - 1] = stack[i - 1])
      BY <3>1, <1>6
    <3>3. \A i \in 1..k : Step(stack', i) = Step(stack, i)
      BY <3>2 DEF Step
    <3>4. Extends(u, stack, k)
      BY <2>2, <3>3 DEF Extends
    <3>5. GivenOut(u.steps[k + 1], stack[k], ids)
      BY <3>4, <2>1, <1>7 DEF Given, n
    <3> QED BY <3>5, <1>3, <1>6
  <2> QED BY <2>1, <2>2, <1>3, <1>6 DEF Given
<1>12. UrisGiven'
  BY <1>1, <1>3, <1>10, <1>11 DEF UrisGiven
<1> QED BY <1>8, <1>9, <1>12 DEF IInv

\* Where characters come from: the top of the stack or, in an ignored element, an
\* element inside it.
LEMMA OriginIs ==
    ASSUME Shape, open # <<>>
    PROVE  /\ Origin \in OriginType
           /\ Origin.num = open[Len(open)].num
           /\ Origin.ignored <=> ignoreDepth # 0
           /\ ignoreDepth = 0 => Origin.num = Parent.num
           /\ ignoreDepth = depth /\ stack # <<>> => Origin.parent = Parent.num
<1> DEFINE m == Len(open)
<1>1. /\ open \in Seq(OpenType) /\ m \in Nat \ {0} /\ m \in 1..m
      /\ depth = m /\ ignoreDepth \in 0..m
      /\ Len(stack) = IF ignoreDepth = 0 THEN depth ELSE ignoreDepth - 1
      /\ \A i \in 1..m : open[i].ignored <=> ignoreDepth # 0 /\ i >= ignoreDepth
      /\ \A i \in 1..Len(stack) : stack[i].num = open[i].num
      /\ Len(stack) \in Nat /\ (stack # <<>> => Len(stack) # 0)
  BY DEF Shape
<1>2. open[m] \in OpenType /\ (m # 1 => m - 1 \in 1..m /\ open[m - 1] \in OpenType)
  BY <1>1
<1>3. open[m].ignored <=> ignoreDepth # 0
  BY <1>1
<1>4. ignoreDepth = 0 => open[m].num = Parent.num
  BY <1>1 DEF Parent
<1>5. ignoreDepth = depth /\ stack # <<>> => m # 1 /\ open[m - 1].num = Parent.num
  <2>1. SUFFICES ASSUME ignoreDepth = depth, stack # <<>>
                 PROVE  m # 1 /\ open[m - 1].num = Parent.num
    OBVIOUS
  <2>2. Len(stack) = m - 1 /\ Len(stack) \in 1..Len(stack)
    BY <2>1, <1>1
  <2> QED BY <2>2, <1>1 DEF Parent
<1> HIDE DEF m
<1> QED BY <1>2, <1>3, <1>4, <1>5 DEF m, Origin, Innermost, OriginType, OpenType

\* Characters from an ignored element are none of another's own.
LEMMA CharsGrow ==
    ASSUME Characters, chars' = chars \/ Origin.ignored, NEW num
    PROVE  /\ OwnIn(chars', num) = OwnIn(chars, num)
           /\ StrayIn(chars, num) \subseteq StrayIn(chars', num)
BY DEF Characters, OwnIn, StrayIn

LEMMA TextIsTheSame ==
    ASSUME TextAsWritten, NEW n \in Nat, DOMAIN stack = 1..n, DOMAIN stack' = 1..n,
           \A i \in 1..n :
              /\ stack'[i].num = stack[i].num /\ stack'[i].text = stack[i].text
              /\ OwnIn(chars', stack[i].num) = OwnIn(chars, stack[i].num)
              /\ StrayIn(chars, stack[i].num) \subseteq StrayIn(chars', stack[i].num)
    PROVE  TextAsWritten'
<1>1. SUFFICES ASSUME NEW i \in 1..n, StrayIn(chars', stack'[i].num) = {}
               PROVE  stack'[i].text = OwnIn(chars', stack'[i].num)
  BY DEF TextAsWritten, Own, Stray, OwnIn, StrayIn
<1>2. StrayIn(chars, stack[i].num) = {}
  BY <1>1
<1>3. stack[i].text = OwnIn(chars, stack[i].num)
  BY <1>2 DEF TextAsWritten, Own, Stray, OwnIn, StrayIn
<1> QED BY <1>3

\* What characters leave as it is.
LEMMA CharactersLeave ==
    ASSUME Shape, TextInv, Characters, TextAsWritten',
           Len(stack') = Len(stack),
           \A i \in 1..Len(stack) : stack'[i].name = stack[i].name
    PROVE  TextInv'
<1>1. /\ open' = open /\ elements' = elements /\ open # <<>>
      /\ chars' = chars \/ chars' = chars \cup {Origin}
  BY DEF Characters, documentVars
<1>2. Numbered /\ Marked /\ CharsTyped
  BY DEF TextInv
<1>3. Numbered'
  BY <1>1, <1>2 DEF Numbered
<1>4. Marked'
  <2>1. /\ stack # <<>> => Len(stack) \in 1..Len(stack)
        /\ stack' # <<>> <=> stack # <<>>
        /\ stack # <<>> => Parent'.name = Parent.name
    BY DEF Shape, Parent
  <2>2. \A i \in 1..Len(open) : i <= Len(stack) => i \in 1..Len(stack)
    BY DEF Shape
  <2> QED BY <2>1, <2>2, <1>1, <1>2 DEF Marked
<1>5. CharsTyped'
  <2>1. Len(open) \in 1..Len(open)
    BY <1>1 DEF Shape
  <2>2. Origin \in OriginType /\ Origin.num <= elements
    BY <2>1, <1>1, <1>2, OriginIs DEF Numbered
  <2> QED BY <2>2, <1>1, <1>2 DEF CharsTyped
<1> QED BY <1>3, <1>4, <1>5 DEF TextInv

\* Characters go into the innermost element on the stack, which they stand in or
\* which is around the ignored element that they stand in.
LEMMA CharactersKeep ==
    ASSUME IInv, Characters
    PROVE  IInv'
<1> DEFINE n == Len(stack)
           origin == Origin
           Takes == /\ ~TextIgnored /\ stack # <<>>
                    /\ Parent.name \in xtm_simple.text_elements
<1>1. Shape /\ TextInv /\ UrisGiven
  BY DEF IInv
<1>2. /\ depth' = depth /\ ignoreDepth' = ignoreDepth /\ open' = open
      /\ elements' = elements /\ ids' = ids /\ uris' = uris /\ open # <<>>
  BY DEF Characters, CharData, documentVars
<1>3. stack' = IF Takes THEN [stack EXCEPT ![n].text = @ \cup {origin}] ELSE stack
  BY DEF Characters, CharData
<1>4. CASE ~Takes
  <2>1. stack' = stack
    BY <1>3, <1>4
  <2>2. Shape'
    BY <2>1, <1>1, <1>2 DEF Shape
  <2>3. TextInv'
    <3>1. chars' = chars \/ TextIgnored
      BY <1>1, <1>2, <1>4, InnermostMarked DEF Characters, TextInv
    <3>2. \A i \in 1..n : stack'[i].num = stack[i].num /\ stack'[i].text = stack[i].text
                            /\ stack'[i].name = stack[i].name
      BY <2>1
    <3>3. TextIgnored => Origin.ignored
      BY <1>1, <1>2, OriginIs DEF TextIgnored
    <3>4. DOMAIN stack = 1..n /\ DOMAIN stack' = 1..n /\ n \in Nat
      BY <2>1, <1>1 DEF Shape
    <3>5. \A i \in 1..n : /\ OwnIn(chars', stack[i].num) = OwnIn(chars, stack[i].num)
                            /\ StrayIn(chars, stack[i].num) \subseteq StrayIn(chars', stack[i].num)
      BY <3>1, <3>3, CharsGrow
    <3>6. TextAsWritten'
      BY <3>2, <3>4, <3>5, <1>1, TextIsTheSame DEF TextInv
    <3> QED BY <3>2, <3>4, <3>6, <1>1, <1>2, CharactersLeave DEF n
  <2>4. UrisGiven'
    BY <2>1, <1>1, <1>2, UrisStay
  <2> QED BY <2>2, <2>3, <2>4 DEF IInv
<1>5. CASE Takes
  <2> DEFINE p == stack[n]
             q == [p EXCEPT !.text = @ \cup {origin}]
  <2>1. /\ stack \in Seq(ElementType) /\ open \in Seq(OpenType)
        /\ depth = Len(open) /\ ignoreDepth \in 0..depth
        /\ n = IF ignoreDepth = 0 THEN depth ELSE ignoreDepth - 1
        /\ \A i \in 1..Len(open) : open[i].ignored <=> ignoreDepth # 0 /\ i >= ignoreDepth
        /\ \A i \in 1..n : stack[i].num = open[i].num
    BY <1>1 DEF Shape
  <2>2. n \in 1..n /\ n \in Nat \ {0} /\ DOMAIN stack = 1..n /\ p \in ElementType
    BY <1>5, <2>1
  <2>3. Len(open) \in Nat \ {0} /\ Len(open) \in 1..Len(open)
    BY <1>2, <2>1
  <2>4. ignoreDepth = 0 \/ ignoreDepth = depth
    BY <1>5, <2>1, <2>3 DEF TextIgnored
  <2>5. /\ origin \in OriginType
        /\ ignoreDepth = 0 => ~origin.ignored /\ origin.num = p.num
        /\ ignoreDepth # 0 => origin.ignored /\ origin.parent = p.num
    <3>1. p = Parent /\ stack # <<>>
      BY <1>5 DEF Parent
    <3>2. /\ Origin \in OriginType
          /\ Origin.ignored <=> ignoreDepth # 0
          /\ ignoreDepth = 0 => Origin.num = Parent.num
          /\ ignoreDepth = depth /\ stack # <<>> => Origin.parent = Parent.num
      BY <1>1, <1>2, OriginIs
    <3> HIDE DEF p, n, Takes
    <3> QED BY <3>1, <3>2, <2>4
  <2>6. chars' = chars \cup {origin}
    BY <1>1, <1>2, <1>5, InnermostMarked DEF Characters, TextInv
  <2> HIDE DEF origin, Takes
  <2>7. /\ q \in ElementType
        /\ q.name = p.name /\ q.id = p.id /\ q.num = p.num /\ q.childs = p.childs
        /\ q.text = p.text \cup {origin}
    BY <2>2, <2>5 DEF ElementType
  <2>8. stack' = [stack EXCEPT ![n] = q]
    BY <1>3, <1>5
  <2> HIDE DEF q
  <2>9. /\ stack' \in Seq(ElementType) /\ Len(stack') = n /\ DOMAIN stack' = 1..n
        /\ \A i \in 1..n : stack'[i] = IF i = n THEN q ELSE stack[i]
    BY <2>1, <2>2, <2>7, <2>8
  <2> HIDE DEF n
  <2>10. \A i \in 1..n : /\ stack'[i].name = stack[i].name
                         /\ stack'[i].id = stack[i].id
                         /\ stack'[i].num = stack[i].num
                         /\ stack'[i].childs = stack[i].childs
    BY <2>7, <2>9
  <2>11. Shape'
    BY <2>1, <2>9, <2>10, <1>1, <1>2 DEF Shape, n
  <2>12. TextInv'
    <3>1. TextAsWritten /\ Numbered
      BY <1>1 DEF TextInv
    <3>2. SUFFICES ASSUME NEW i \in 1..n, StrayIn(chars', stack[i].num) = {}
                   PROVE  stack'[i].text = OwnIn(chars', stack[i].num)
      <4>1. TextAsWritten'
        BY <3>2, <2>9, <2>10 DEF TextAsWritten, Own, Stray, OwnIn, StrayIn
      <4> QED BY <4>1, <2>2, <2>9, <2>10, <1>1, <1>2, CharactersLeave DEF n
    <3>3. StrayIn(chars, stack[i].num) = {}
      BY <3>2, <2>6 DEF StrayIn
    <3>4. stack[i].text = OwnIn(chars, stack[i].num)
      BY <3>1, <3>3, <2>2 DEF TextAsWritten, Own, Stray, OwnIn, StrayIn
    <3>5. CASE i = n
      <4>1. ignoreDepth = 0
        BY <3>2, <3>5, <2>5, <2>6 DEF StrayIn
      <4>2. OwnIn(chars', p.num) = OwnIn(chars, p.num) \cup {origin}
        BY <4>1, <2>5, <2>6 DEF OwnIn
      <4> QED BY <4>2, <3>4, <3>5, <2>7, <2>9
    <3>6. CASE i # n
      <4>1. i < n /\ n \in 1..Len(open) /\ i \in 1..Len(open)
        BY <3>6, <2>1, <2>2, <2>3
      <4>2. open[i].num < open[n].num
        BY <4>1, <3>1 DEF Numbered
      <4>3. stack[i].num # p.num
        <5>1. open[i] \in OpenType /\ open[n] \in OpenType
          BY <4>1, <2>1
        <5>2. open[i].num \in Nat /\ open[n].num \in Nat
          BY <5>1 DEF OpenType
        <5> QED BY <5>2, <4>1, <4>2, <2>1, <2>2
      <4>4. OwnIn(chars', stack[i].num) = OwnIn(chars, stack[i].num)
        BY <4>3, <2>4, <2>5, <2>6 DEF OwnIn
      <4> QED BY <4>4, <3>4, <3>6, <2>9
    <3> QED BY <3>5, <3>6
  <2>13. \A i \in 1..n : Step(stack', i) = Step(stack, i)
    <3>1. SUFFICES ASSUME NEW i \in 1..n PROVE Step(stack', i) = Step(stack, i)
      OBVIOUS
    <3>2. i # 1 => i - 1 \in 1..n
      BY <2>2
    <3> QED BY <3>2, <2>10 DEF Step, ChildCount
  <2>14. UrisGiven'
    <3>1. Counting(stack, ids) /\ \A u \in uris.set : Given(u, stack, ids)
      BY <1>1 DEF UrisGiven
    <3>2. Counting(stack', ids')
      <4>1. \A i \in 2..n : i \in 1..n /\ i - 1 \in 1..n
        BY <2>2
      <4> QED BY <4>1, <3>1, <2>9, <2>10, <1>2 DEF Counting, n
    <3>3. ASSUME NEW u \in uris.set PROVE Given(u, stack', ids')
      <4>1. Given(u, stack, ids)
        BY <3>1
      <4>2. ASSUME NEW k \in 1..n, Extends(u, stack', k)
            PROVE  GivenOut(u.steps[k + 1], stack'[k], ids')
        <5>1. \A i \in 1..k : i \in 1..n
          BY <2>2
        <5>2. Extends(u, stack, k)
          BY <5>1, <4>2, <2>13 DEF Extends
        <5>3. GivenOut(u.steps[k + 1], stack[k], ids)
          BY <5>2, <4>1 DEF Given, n
        <5> QED BY <5>3, <2>10, <1>2 DEF GivenOut
      <4> QED BY <4>1, <4>2, <2>9, <1>2 DEF Given
    <3> QED BY <3>1, <3>2, <3>3, <1>1, <1>2 DEF UrisGiven
  <2> QED BY <2>11, <2>12, <2>14 DEF IInv
<1> QED BY <1>4, <1>5

-----------------------------------------------------------------------------
(* The theorems *)

LEMMA StartTagKeeps ==
    ASSUME IInv, NEW tag \in Tags, StartTag(tag)
    PROVE  IInv'
<1> DEFINE e == NewElement(tag.name, tag.id, tag.ref, elements + 1)
<1>1. Opens(tag)
  BY DEF StartTag, Opens
<1>2. CASE (StartIgnored \/ StartIgnoring(xtm_simple, tag.name)) /\ UNCHANGED history
  BY <1>1, <1>2, StartIgnoredKeeps
<1>3. CASE /\ Push(xtm_simple, e)
           /\ uris' = [set |-> uris.set \cup {e.uri}, number |-> uris.number + 1]
           /\ chars' = chars
  <2>1. Shape /\ TextInv /\ UrisGiven
    BY DEF IInv
  <2>2. e \in ElementType
    BY <2>1, NewElementTyped
  <2>3. /\ e.name = tag.name /\ e.id = tag.id /\ e.num = elements + 1 /\ e.text = {}
        /\ e.uri = ElementUri(Counted(e.name), e.name, e.id)
    BY DEF NewElement
  <2> HIDE DEF e
  <2>4. Shape' /\ TextInv'
    BY <1>1, <1>3, <2>1, <2>2, <2>3, PushKeepsShape
  <2>5. UrisGiven'
    BY <1>1, <1>3, <2>1, <2>2, <2>3, PushKeepsUris
  <2> QED BY <2>4, <2>5 DEF IInv
<1>4. elements' = elements + 1
  BY <1>1 DEF Opens
<1> QED BY <1>2, <1>3, <1>4 DEF StartTag

LEMMA NextKeepsIInv == IInv /\ [Next]_vars => IInv'
<1> SUFFICES ASSUME IInv, [Next]_vars PROVE IInv'
  OBVIOUS
<1>1. ASSUME NEW tag \in Tags, StartTag(tag) PROVE IInv'
  BY <1>1, StartTagKeeps
<1>2. CASE EndTag
  <2>1. Closes
    BY <1>2 DEF EndTag, Closes
  <2>2. (EndIgnored \/ EndIgnoring) \/ Pop
    BY <1>2 DEF EndTag
  <2> QED BY <2>1, <2>2, EndIgnoredKeeps, PopKeeps
<1>3. CASE Characters
  BY <1>3, CharactersKeep
<1>4. CASE UNCHANGED vars
  BY <1>4 DEF vars, omnivore, documentVars, history, IInv, Shape, TextInv,
              Numbered, Marked, CharsTyped, TextAsWritten, Own, Stray, Parent, UrisGiven, Counting, Given, GivenOut, Extends, Step
<1> QED BY <1>1, <1>2, <1>3, <1>4 DEF Next

LEMMA Invariance == Spec => []IInv
BY InitIInv, NextKeepsIInv, PTL DEF Spec

\* Omnivore's stack is the elements that are open outside ignored subtrees, its
\* depth is that of the document, and an ignored subtree ends where it began
\* (omnivore.c: expat_start, expat_end), for documents of any size and depth.
THEOREM StackFollows == Spec => []StackFollowsDocument
<1>1. IInv => StackFollowsDocument
  <2> SUFFICES ASSUME Shape PROVE StackFollowsDocument
    BY DEF IInv
  <2> DEFINE kept == {i \in DOMAIN open : ~open[i].ignored}
  <2>1. /\ open \in Seq(OpenType) /\ stack \in Seq(ElementType)
        /\ depth = Len(open) /\ ignoreDepth \in 0..depth
        /\ Len(stack) = IF ignoreDepth = 0 THEN depth ELSE ignoreDepth - 1
        /\ \A i \in 1..Len(open) : open[i].ignored <=> ignoreDepth # 0 /\ i >= ignoreDepth
        /\ \A i \in 1..Len(stack) : stack[i].num = open[i].num
    BY DEF Shape
  <2>2. DOMAIN open = 1..Len(open) /\ DOMAIN stack = 1..Len(stack) /\ Len(open) \in Nat
    BY <2>1
  <2>3. kept = {i \in 1..Len(open) : ignoreDepth = 0 \/ i < ignoreDepth}
    BY <2>1, <2>2
  <2>4. kept = 1..Len(stack)
    <3>1. CASE ignoreDepth = 0
      BY <3>1, <2>1, <2>2, <2>3
    <3>2. CASE ignoreDepth # 0
      BY <3>2, <2>1, <2>2, <2>3
    <3> QED BY <3>1, <3>2
  <2> QED BY <2>1, <2>2, <2>4 DEF StackFollowsDocument
<1> QED BY <1>1, Invariance, PTL

\* The text of an element is what stands in it, and nothing from the subtrees
\* that are skipped in it (omnivore.c: expat_char_data), for documents of any
\* size and depth; but for elements with characters directly in an ignored one.
THEOREM TextIsOwn == Spec => []TextAsWritten
<1>1. IInv => TextAsWritten
  BY DEF IInv, TextInv
<1> QED BY <1>1, Invariance, PTL

\* No two elements of a document get the same URI, though the numbers of the
\* xpointer are looked up again for every element (omnivore.c:
\* _get_childcount): neither ids nor the counters of the open elements repeat.
THEOREM UrisDiffer == Spec => []UrisUnique
<1>1. IInv => UrisUnique
  BY DEF IInv, UrisGiven, UrisUnique
<1> QED BY <1>1, Invariance, PTL

=============================================================================
