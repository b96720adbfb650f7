--------------------------- MODULE MCSessionServer ---------------------------
(* Two clients of a view with two places, or with one; or two processes that  *)
(* list sessions while it starts, quits or dies.                              *)
EXTENDS SessionServer

MCScenarios ==
    {[clients |-> Client, places |-> n, scanners |-> {}, editors |-> 1] : n \in {1, 2}}
    \cup {[clients |-> {}, places |-> 1, scanners |-> Scanner, editors |-> 0]}
=============================================================================
