---------------------------- MODULE MCAprLists ----------------------------
(***************************************************************************)
(* TLC instance of AprLists.                                               *)
(***************************************************************************)
EXTENDS AprLists
==============================================================================
