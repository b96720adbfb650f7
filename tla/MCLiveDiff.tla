----------------------------- MODULE MCLiveDiff -----------------------------
(* The scenarios of the run: a watched worktree whose editor pauses the worker, with r and *)
(* live reload turned off and on; a watched comparison with a base, which nothing pauses;  *)
(* and a snapshot that only says that its source changed.                                  *)
EXTENDS LiveDiff

MCScenarios ==
    {[watch |-> TRUE, pausable |-> TRUE, changes |-> 2, reloads |-> 1, editors |-> 1,
      toggles |-> 1, loads |-> 0, watches |-> 0],
     [watch |-> TRUE, pausable |-> FALSE, changes |-> 2, reloads |-> 0, editors |-> 1,
      toggles |-> 0, loads |-> 1, watches |-> 0],
     [watch |-> FALSE, pausable |-> TRUE, changes |-> 3, reloads |-> 0, editors |-> 2,
      toggles |-> 0, loads |-> 1, watches |-> 1]}
=============================================================================
