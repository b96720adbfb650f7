----------------------------- MODULE MCTerminal -----------------------------
(* Three keys and no wheel: enough to open an editor and type for it.        *)
EXTENDS Terminal
MCScenarios == {[keys |-> 3, scrolls |-> 0, failures |-> 0]}
=============================================================================
