---------------------------- MODULE MCPageCache ----------------------------
(***************************************************************************)
(* The page cache for TLC.  MCPageCache.cfg: what the cache keeps true     *)
(* with any clients and fewer items than the file has pages, and, from a   *)
(* second initial state, with the meta store as its client, whose calls    *)
(* need two of the three pages.  MCPageCacheLocked.cfg: that a page in use *)
(* is locked.                                                              *)
(***************************************************************************)
EXTENDS FileMetaStore

VARIABLE user   \* who uses the cache, "any" or "meta store"

MCSymmetry == Permutations(Client)

MCInit ==
    /\ Init
    /\ MetaInit
    /\ user \in {"any", "meta store"}

\* A bound: any clients change the first page twice, the others once.
FewChanges == \A n \in DOMAIN latest' : latest'[n] <= IF n = 1 THEN 2 ELSE 1

MCNext ==
    /\ \/ user = "any" /\ Next /\ FewChanges /\ UNCHANGED metaVars
       \/ user = "meta store" /\ MetaNext
    /\ UNCHANGED user

MCSpec == MCInit /\ [][MCNext]_<<vars, metaVars, user>>

=============================================================================
