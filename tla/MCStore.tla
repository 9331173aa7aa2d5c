----------------------------- MODULE MCStore -----------------------------
(***************************************************************************)
(* Small instances of Store for TLC.                                       *)
(***************************************************************************)
EXTENDS Store, TLC

\* Nothing tells two ids apart but their use, and so with two documents.
Alike == Permutations(Ids) \cup Permutations(Docs)
==========================================================================
