----------------------------- MODULE MCVminfod -----------------------------
(***************************************************************************)
(* Vminfod for TLC: the descriptions of the tasks are the events.          *)
(***************************************************************************)
EXTENDS Vminfod

MCDesc == [kind : Kinds, zone : Zone]
=============================================================================
