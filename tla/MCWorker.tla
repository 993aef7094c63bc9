------------------------------ MODULE MCWorker ------------------------------
(***************************************************************************)
(* TLC instances of Worker.                                                *)
(***************************************************************************)
EXTENDS Worker, TLC
CONSTANTS t1, t2

MCThreads == {t1, t2}
Swaps     == Permutations(MCThreads)
BothModes == {FALSE, TRUE}
Filters   == {TRUE}
Nothing   == {{}}
==============================================================================
