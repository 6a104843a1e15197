----------------------------- MODULE Containers -----------------------------
(***************************************************************************)
(* The containers of the library (src/src/list.c, table.c, topicset.c) and *)
(* its case insensitive search (match.c).  A list is a sequence, its head  *)
(* first; a hash table is a function from the keys it has; a topic set is  *)
(* the sequence of its topics in the order they were added; a text is the  *)
(* sequence of its characters, a character the number a char of this       *)
(* platform holds: -128..127.                                              *)
(***************************************************************************)
EXTENDS Integers, Sequences, FiniteSets, SequencesExt

-----------------------------------------------------------------------------
(* list.c *)

ListPush(list, x) == <<x>> \o list

\* tm_list_copy pushes one element after the other: the copy is reversed.
ListCopy(list) == Reverse(list)

\* tm_list_remove takes out the first occurrence.
ListRemove(list, x) == RemoveFirst(list, x)

-----------------------------------------------------------------------------
(* table.c *)

EmptyTable == <<>>

\* NULL, here 0, for a key the table does not have.
TableGet(table, key) == IF key \in DOMAIN table THEN table[key] ELSE 0

TablePut(table, key, value) ==
    [k \in DOMAIN table \cup {key} |-> IF k = key THEN value ELSE table[k]]

TableRemove(table, key) == Restrict(table, DOMAIN table \ {key})

\* tm_table_keys follows the buckets: any order of the keys.
TableKeys(table) == SetToSeqs(DOMAIN table)

-----------------------------------------------------------------------------
(* topicset.c *)

SetContains(set, t) == Contains(set, t)

SetAdd(set, t) == IF SetContains(set, t) THEN set ELSE Append(set, t)

SetRemove(set, t) == RemoveFirst(set, t)

SetEqual(set, other) ==
    /\ Len(set) = Len(other)
    /\ \A i \in DOMAIN other : SetContains(set, other[i])

-----------------------------------------------------------------------------
(* match.c *)

\* ansiToLower.  Its cases for the letters above 128 are never reached: the
\* argument is a char, and the char of this platform is signed.
ToLower(c) == IF c \in 65..90 \/ c \in 192..214 \/ c \in 216..222 THEN c + 32
              ELSE IF c = 140 THEN 156
              ELSE IF c = 138 THEN 154
              ELSE IF c = 159 THEN 255
              ELSE c

\* tm_strstr, case insensitive: the needle fits somewhere.  In an empty text
\* nothing is found, not even the empty needle.
Like(haystack, needle) ==
    \E at \in DOMAIN haystack :
        /\ at + Len(needle) <= Len(haystack) + 1
        /\ \A i \in DOMAIN needle :
               ToLower(haystack[at + i - 1]) = ToLower(needle[i])

=============================================================================
