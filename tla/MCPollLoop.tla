----------------------------- MODULE MCPollLoop -----------------------------
(***************************************************************************)
(* TLC instance of PollLoop.                                               *)
(***************************************************************************)
EXTENDS PollLoop
CONSTANTS w1, w2

\* Two workers and three connections.
MCWorkers == {w1, w2}
MCQuota   == [w \in MCWorkers |-> IF w = w1 THEN 2 ELSE 1]
Leaky     == {<<w1, 1>>, <<w1, 2>>}
==============================================================================
