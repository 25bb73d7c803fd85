------------------------------ MODULE MCTasks ------------------------------
(***************************************************************************)
(* Instances of Tasks for TLC.                                             *)
(***************************************************************************)
EXTENDS Tasks

\* ECANCELED and a success.
MCResults == {-125, 3}
=============================================================================
