------------------------------ MODULE MCHandoff ------------------------------
(***************************************************************************)
(* TLC instance of Handoff: four messages, so that one can be in each of   *)
(* the two lists, one in flight and one left over from an earlier pass.    *)
(***************************************************************************)
EXTENDS Handoff
==============================================================================
