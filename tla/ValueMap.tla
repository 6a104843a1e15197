------------------------------ MODULE ValueMap ------------------------------
(***************************************************************************)
(* What a value store promises (src/src/tmstorage.h): a value has a number *)
(* under which it is found again, whatever the store does to find it; a    *)
(* number stands for one value only, for ever; a value in which topics     *)
(* have been replaced is the image of the old one; and sets of texts that  *)
(* meet, as those that identify a topic do, are joined.                    *)
(*                                                                         *)
(* A value is here what it means: <<kind, x>>, where x is a text, a number,*)
(* a set, or the type of an assertion with its set of memberships.         *)
(***************************************************************************)
EXTENDS Integers, FiniteSets

CONSTANTS Values,     \* the values that callers bring
          MergeSets,  \* the merge sets: [stays, gone], a topic and a set
          MaxVid,     \* bound: the largest vid
          NoValue     \* no value has this vid

VARIABLES value,      \* value[v]: the value with the vid v
          next,       \* the next vid to be given out
          call,       \* the last call: its name and arguments
          answer      \* what it returned

vars == <<value, next, call, answer>>

NoCall == [op |-> "none", value |-> NoValue, vid |-> 0, merge |-> NoValue]

Init ==
    /\ value = [v \in 1..MaxVid |-> NoValue]
    /\ next = 1
    /\ call = NoCall
    /\ answer = 0

VidsOf(x) == {v \in 1..MaxVid : value[v] = x}

Find(x) ==
    /\ answer' \in VidsOf(x) \/ (answer' = 0 /\ VidsOf(x) = {})
    /\ UNCHANGED <<value, next>>

Create(x) ==
    /\ VidsOf(x) = {}
    /\ answer' = next
    /\ next' = next + 1
    /\ value' = [value EXCEPT ![next] = x]

FindOrCreate(x) == IF VidsOf(x) = {} THEN Create(x) ELSE Find(x)

Image(x, merge) ==
    LET f(t) == IF t \in merge.gone THEN merge.stays ELSE t
    IN  IF x[1] = "ASidp"
        THEN <<x[1], [type |-> f(x[2].type),
                      members |-> {<<f(m[1]), f(m[2])>> : m \in x[2].members}]>>
        ELSE <<x[1], {f(t) : t \in x[2]}>>

Lookup(x) ==
    /\ call' = [NoCall EXCEPT !.op = "lookup", !.value = x]
    /\ Find(x)

Store(x) ==
    /\ call' = [NoCall EXCEPT !.op = "store", !.value = x]
    /\ FindOrCreate(x)

\* Sets of texts that meet become one.
Meeting(x) ==
    {v \in 1..MaxVid : value[v] # NoValue /\ value[v][2] \cap x[2] # {}}

Combine(x) ==
    /\ x[1] = "TextSet"
    /\ call' = [NoCall EXCEPT !.op = "combine", !.value = x]
    /\ IF {value[v] : v \in Meeting(x)} = {x} THEN Find(x)
       ELSE /\ answer' = next
            /\ next' = next + 1
            /\ value' = [v \in 1..MaxVid |->
                   IF v = next
                   THEN <<x[1], x[2] \cup UNION {value[w][2] : w \in Meeting(x)}>>
                   ELSE IF v \in Meeting(x) THEN NoValue ELSE value[v]]

Replace(v, merge) ==
    /\ value[v] # NoValue
    /\ call' = [NoCall EXCEPT !.op = "replace", !.vid = v, !.merge = merge]
    /\ FindOrCreate(Image(value[v], merge))

Delete(v) ==
    /\ value[v] # NoValue
    /\ call' = [NoCall EXCEPT !.op = "delete", !.vid = v]
    /\ value' = [value EXCEPT ![v] = NoValue]
    /\ answer' = 0
    /\ UNCHANGED next

\* A scan is opened; it changes nothing.
Scan ==
    /\ call' = NoCall
    /\ answer' = 0
    /\ UNCHANGED <<value, next>>

Next ==
    \/ Scan
    \/ \E x \in Values : Lookup(x) \/ Store(x) \/ Combine(x)
    \/ \E v \in 1..MaxVid : Delete(v) \/ \E merge \in MergeSets : Replace(v, merge)

Spec == Init /\ [][Next]_vars

=============================================================================
