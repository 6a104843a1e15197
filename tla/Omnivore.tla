------------------------------ MODULE Omnivore ------------------------------
(***************************************************************************)
(* Omnivore's side of XML parsing (src/src/omnivore.c): the callbacks of   *)
(* expat keep a stack of the elements that are open, skip the subtrees the *)
(* processing model wants to ignore, give each element a URI and collect   *)
(* the text of the elements the processing model wants text of.            *)
(*                                                                         *)
(* A URI is a record: the id of the element it names, or the steps of the  *)
(* xpointer that leads to it.  The document's own URI, which all of them   *)
(* begin with, is left out, and so are the sizes of the fixed buffers.     *)
(* A processing model is a record of the names of the elements to ignore   *)
(* and of those with text.                                                 *)
(***************************************************************************)
EXTENDS Integers, Sequences, FiniteSets

CONSTANTS Name,   \* the names of elements
          Id,     \* the ids of elements
          Ref,    \* the ids that references name, of this document or not
          NoId    \* the element has no id

ASSUME NoIdAssumption == NoId \notin Id

VARIABLES stack,        \* element_stack[0..elem_index-1]
          depth,        \* the depth of the element in the document
          ignoreDepth   \* the depth at which the ignored subtree begins (0: none)

omnivore == <<stack, depth, ignoreDepth>>

InitOmnivore == stack = <<>> /\ depth = 0 /\ ignoreDepth = 0

-----------------------------------------------------------------------------

Parent == stack[Len(stack)]

Path(name) == [i \in DOMAIN stack |-> stack[i].name] \o <<name>>

\* A slip of Counted: the child is looked up and not counted.
LookedUp(name) == stack

\* _get_childcount with do_increment: the parent counts one more such child.
Counted(name) ==
    IF stack = <<>> THEN stack
    ELSE [stack EXCEPT ![Len(stack)].childs[name] = @ + 1]

ChildCount(p, name) == IF p.childs[name] = 0 THEN 1 ELSE p.childs[name]

\* One step of the xpointer, to the element at position i of st.
Step(st, i) ==
    [name  |-> st[i].name,
     id    |-> st[i].id,
     index |-> IF st[i].id # NoId THEN 0
               ELSE IF i = 1 THEN 1 ELSE ChildCount(st[i - 1], st[i].name)]

LastStep(st, name) ==
    [name |-> name, id |-> NoId,
     index |-> IF st = <<>> THEN 1 ELSE ChildCount(st[Len(st)], name)]

IdUri(id) == [id |-> id, steps |-> <<>>]

EmptyUri == IdUri(NoId)
Uri == {IdUri(id) : id \in Ref}

ElementUri(st, name, id) ==
    IF id # NoId THEN IdUri(id)
    ELSE [id |-> NoId,
          steps |-> Append([i \in DOMAIN st |-> Step(st, i)], LastStep(st, name))]

\* The element that expat_start hands to the processing model.  ref is the URI
\* of its href (EmptyUri: it has none); num tells which element of the
\* document it is, and text the elements whose characters it has collected.
NewElement(name, id, ref, num) ==
    [name |-> name, id |-> id, uri |-> ElementUri(Counted(name), name, id),
     ref |-> ref, path |-> Path(name), childs |-> [n \in Name |-> 0],
     num |-> num, text |-> {}]

\* expat_start
StartIgnored ==
    /\ ignoreDepth # 0
    /\ depth' = depth + 1
    /\ UNCHANGED <<stack, ignoreDepth>>

StartIgnoring(model, name) ==
    /\ ignoreDepth = 0
    /\ name \in model.ignore_elements
    /\ depth' = depth + 1
    /\ ignoreDepth' = depth'
    /\ UNCHANGED stack

Push(model, e) ==
    /\ ignoreDepth = 0
    /\ e.name \notin model.ignore_elements
    /\ depth' = depth + 1
    /\ stack' = Append(Counted(e.name), e)
    /\ UNCHANGED ignoreDepth

-----------------------------------------------------------------------------
(* expat_end *)

\* A slip of EndIgnored: the depth is not adjusted.
EndIgnoredOnly ==
    /\ ignoreDepth # 0 /\ ignoreDepth < depth
    /\ UNCHANGED omnivore

EndIgnored ==
    /\ ignoreDepth # 0 /\ ignoreDepth < depth
    /\ depth' = depth - 1
    /\ UNCHANGED <<stack, ignoreDepth>>

\* A slip of EndIgnoring: it goes on ignoring.
EndIgnoringNever ==
    /\ ignoreDepth # 0 /\ ignoreDepth = depth
    /\ depth' = depth - 1
    /\ UNCHANGED <<stack, ignoreDepth>>

EndIgnoring ==
    /\ ignoreDepth # 0 /\ ignoreDepth = depth
    /\ ignoreDepth' = 0
    /\ depth' = depth - 1
    /\ UNCHANGED stack

Pop ==
    /\ ignoreDepth = 0
    /\ depth' = depth - 1
    /\ stack' = SubSeq(stack, 1, Len(stack) - 1)
    /\ UNCHANGED ignoreDepth

-----------------------------------------------------------------------------
(* expat_char_data *)

\* A slip of TextIgnored: there is no such test.
TextIgnoredNever == FALSE

\* The comparison is strict: the characters directly in the element that is
\* ignored are not ignored.
TextIgnored == ignoreDepth # 0 /\ ignoreDepth < depth

\* Characters come from the element that origin describes.
CharData(model, origin) ==
    /\ stack' = IF ~TextIgnored /\ stack # <<>> /\ Parent.name \in model.text_elements
                THEN [stack EXCEPT ![Len(stack)].text = @ \cup {origin}]
                ELSE stack
    /\ UNCHANGED <<depth, ignoreDepth>>

=============================================================================
