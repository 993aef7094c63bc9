---------------------------- MODULE MCAccounting ----------------------------
(***************************************************************************)
(* TLC instance of Accounting: every worker reports its own tid, as with   *)
(* PerformanceUseTid On or a process per request.                          *)
(***************************************************************************)
EXTENDS Accounting
CONSTANTS w1, w2

MCWorkers == {w1, w2}
MCTidOf   == [w \in MCWorkers |-> w]
MCQuota   == [w \in MCWorkers |-> IF w = w1 THEN 2 ELSE 1]
MCOneEach == [w \in MCWorkers |-> 1]
==============================================================================
