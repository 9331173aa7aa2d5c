----------------------- MODULE MCDistributedEngine -----------------------
(***************************************************************************)
(* Small instances of DistributedEngine for TLC.                           *)
(***************************************************************************)
EXTENDS DistributedEngine

\* Three scenarios do not divide evenly between two workers, and one is fewer
\* than they are.
MCScenarioLists == {<<1, 2, 3>>, <<1>>}
==========================================================================
