----------------------------- MODULE MCXtmParse -----------------------------
(***************************************************************************)
(* XtmParse for TLC.                                                       *)
(***************************************************************************)
EXTENDS XtmParse, TLC

\* Nothing in the model tells one id from another.
IdsAlike == Permutations(Ref)

=============================================================================
