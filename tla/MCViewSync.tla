------------------------------ MODULE MCViewSync ------------------------------
(* Instances of ViewSync: two lines; a call that fails before or after it is     *)
(* applied, with three events of the reader, and with three texts and two writes *)
(* of others; and findings with states and a file to mark, and a failing call.   *)
EXTENDS ViewSync

CONSTANTS b1, b2, b3, l1, l2, f1

Notes(anchors) ==
    [anchors |-> anchors, bodies |-> {b1, b2}, dispositions |-> {"open"}, files |-> {},
     events |-> 3, remote |-> 1, failures |-> 0]

MCOneLine == {[Notes({l1}) EXCEPT !.remote = 2]}
MCScenarios ==
    {Notes({l1, l2}),
     [Notes({l1}) EXCEPT !.failures = 1],
     [Notes({l1}) EXCEPT !.bodies = {b1, b2, b3}, !.events = 2, !.remote = 2, !.failures = 1],
     [Notes({l1}) EXCEPT !.dispositions = {"open", "accepted"}, !.failures = 1],
     [Notes({l1}) EXCEPT !.bodies = {b1}, !.files = {f1}, !.events = 4, !.failures = 1]}
=============================================================================
