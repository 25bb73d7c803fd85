---------------------------- MODULE MCSharedRing ----------------------------
(***************************************************************************)
(* Instances of SharedRing for TLC.                                        *)
(***************************************************************************)
EXTENDS SharedRing
=============================================================================
