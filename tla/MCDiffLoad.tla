----------------------------- MODULE MCDiffLoad -----------------------------
(* What a view shows, in two instances of which a behaviour has one.          *)
(* Loading: the worktree and a branch's diff, both watched, and a commit,     *)
(* which is not and never changes; two files, a cache of two choices.  The    *)
(* document: the same choices with their files, the second version of which  *)
(* comes when the repository changes.  And rows alone: models of a file with  *)
(* nothing to show and one with two hunks, of which the first is any hunk of  *)
(* up to four lines, in both layouts, with or without context.                *)
EXTENDS DiffLoad, TLC
CONSTANTS All, Branch, Show
VARIABLES disk, document, left, probe

documentVars == <<disk, document, left>>

MCOptions == {All, Branch, Show}
MCWatched == {All, Branch}
MCMenu == <<All, Branch, Show>>

(* A reader alone, who chooses twice; a reader and a client; a client and a   *)
(* failure; a reader and a source that changes twice.                         *)
Touched == {CHOOSE p \in Path : TRUE}
MCScenarios ==
    {[changes |-> 1, inputs |-> 2, requests |-> 0, failures |-> 1,
      starts |-> {All, Show}, touched |-> Touched],
     [changes |-> 1, inputs |-> 1, requests |-> 1, failures |-> 0,
      starts |-> {All}, touched |-> Touched],
     [changes |-> 1, inputs |-> 0, requests |-> 1, failures |-> 1,
      starts |-> {All, Show}, touched |-> Touched],
     [changes |-> 2, inputs |-> 2, requests |-> 0, failures |-> 0,
      starts |-> {All}, touched |-> Touched]}

Idle == [of |-> CHOOSE s \in MCScenarios : s.requests = 0, changes |-> 9, inputs |-> 9, failures |-> 9]
LoadingOver ==
    /\ source = Oldest /\ used = Idle /\ requests = <<>> /\ ui = "left" /\ live = NoLive
    /\ app = [options |-> All, shown |-> Oldest, generation |-> 0, status |-> "off",
              failed |-> NONE, cache |-> <<>>, prefetch |-> NONE, queue |-> {},
              started |-> TRUE, load |-> NONE, review |-> NONE]
    /\ wanted = All /\ lastShown = [o \in Options \cup {Review} |-> Oldest]

----------------------------------------------------------------------------
(* The files of the document: p loses its first line and with it a hunk more; *)
(* q is added where it was changed, and is too large to be counted at once.   *)
Hunk(old, new, lines) == [old |-> old, new |-> new, lines |-> lines]
File(path, sides, hunks, hits) ==
    [path |-> path, sides |-> sides, hunks |-> hunks, matches |-> [query \in {"x"} |-> hits]]
Both == {"old", "new"}
OldP == File("p", Both, <<Hunk(3, 3, <<"context", "deletion", "addition">>)>>, <<<<1, 0>>, <<1, 3>>>>)
NewP == File("p", Both, <<Hunk(1, 0, <<"deletion">>), Hunk(4, 3, <<"deletion", "addition", "addition">>)>>,
             <<<<2, 2>>>>)
OldQ == File("q", Both, <<Hunk(2, 1, <<"deletion">>)>>, <<>>)
NewQ == File("q", {"new"}, <<Hunk(0, 1, <<"addition", "addition">>)>>, <<<<1, 1>>>>)

Lines(old, new) == [old |-> old, new |-> new]
OnlyOld == "p" :> Lines(0, 0) @@ "q" :> Lines(3, 0)
MCVersions ==
    <<[files |-> (All :> <<OldP, OldQ>> @@ Branch :> <<OldQ>> @@ Show :> <<OldP>>), large |-> {"q"},
       lines |-> (All :> ("p" :> Lines(6, 6) @@ "q" :> Lines(3, 2)) @@ Branch :> OnlyOld @@ Show :> OnlyOld)],
      [files |-> (All :> <<NewQ, NewP>> @@ Branch :> <<OldQ>> @@ Show :> <<OldP>>), large |-> {"q"},
       lines |-> (All :> ("p" :> Lines(6, 6) @@ "q" :> Lines(0, 2)) @@ Branch :> OnlyOld @@ Show :> OnlyOld)]>>

(* Context, layouts and wrapping; filters and a change; choices and the cache; *)
(* full files, a change, an editor and a thread that dies; full files, looked  *)
(* at; a commit, which offers no context.                                     *)
Run(o, full, tall, inputs, changes, faults, may, queries) ==
    [option |-> o, full |-> full, tall |-> tall, inputs |-> inputs, changes |-> changes,
     faults |-> faults, may |-> may, queries |-> queries]
MCDocumentScenarios ==
    {Run(All, FALSE, FALSE, 3, 0, 0, {"full", "expand", "layout", "wrap", "scroll"}, {}),
     Run(All, FALSE, TRUE, 2, 1, 0, {"type", "full", "layout"}, {"", "x"}),
     Run(All, FALSE, FALSE, 3, 0, 0, {"choose", "full", "layout"}, {}),
     Run(All, TRUE, FALSE, 1, 1, 1, {"scroll", "choose", "wrap", "expand", "edit"}, {}),
     Run(All, TRUE, FALSE, 2, 1, 0, {"scroll", "full", "expand", "wrap"}, {}),
     Run(Show, FALSE, TRUE, 2, 1, 0, {"choose", "expand", "type"}, {"x"})}

D == INSTANCE DocumentView WITH
        app <- document, Options <- MCOptions, Watched <- MCWatched, Sourceless <- {Show}, Bare <- {Show},
        Versions <- MCVersions, NoQuery <- "", Scenarios <- MCDocumentScenarios,
        ChunkRows <- 2, SegmentRows <- 3

NoDocument ==
    /\ disk = 1 /\ left = [faults |-> 0, changes |-> 0, inputs |-> 0, of |-> [faults |-> 0, may |-> {}]]
    /\ document = [version |-> 0, pending |-> NONE, searcher |-> NONE, searching |-> FALSE, cache |-> <<>>,
                   loader |-> NONE, counter |-> NONE, load |-> NONE, reload |-> NONE, editor |-> NONE,
                   live |-> "idle", full |-> FALSE, option |-> Show, dirty |-> FALSE]

----------------------------------------------------------------------------
(* Models whose hunks are where git says: gaps and kinds of lines.  *)
Placed(parts) ==
    LET before(i, side) == D!Total([j \in 1..(i - 1) |-> parts[j].gap + D!Count(parts[j].lines, D!OnSide[side])])
        start(i, side) == before(i, side) + parts[i].gap
                              + (IF D!Count(parts[i].lines, D!OnSide[side]) = 0 THEN 0 ELSE 1)
    IN  [i \in 1..Len(parts) |-> Hunk(start(i, "old"), start(i, "new"), parts[i].lines)]

Model(lines, gap, layout, context, controls) ==
    [files |-> <<[hunks |-> <<>>],
                 [hunks |-> Placed(<<[gap |-> gap, lines |-> lines],
                                     [gap |-> 2, lines |-> <<"deletion", "deletion", "addition">>]>>)]>>,
     layout |-> layout, visible |-> <<1, 2>>, controls |-> controls, expandable |-> TRUE,
     expansions |-> IF context THEN [k \in {2} \X (1..3) |-> 1] ELSE <<>>,
     trailing |-> IF context THEN <<2, 3>> :> 2 ELSE <<>>]

Models ==
    {Model(lines, gap, layout, shows[1], shows[2]) :
        lines \in UNION {[1..n -> D!Kinds] : n \in 1..3}, gap \in {0, 2}, layout \in {"split", "unified"},
        shows \in {<<TRUE, TRUE>>, <<FALSE, TRUE>>, <<TRUE, FALSE>>}}
    \cup {Model(lines, 2, layout, TRUE, TRUE) :
             lines \in [1..4 -> D!Kinds], layout \in {"split", "unified"}}

MCInit ==
    \/ Init /\ NoDocument /\ probe = NONE
    \/ D!Init /\ LoadingOver /\ probe = NONE
    \/ LoadingOver /\ NoDocument /\ probe \in Models

MCNext ==
    \/ Next /\ UNCHANGED <<disk, document, left, probe>>
    \/ D!Next /\ UNCHANGED <<source, app, live, ui, requests, wanted, lastShown, used, probe>>

MCSpec ==
    /\ MCInit
    /\ [][MCNext]_<<vars, documentVars, probe>>
    /\ Fairness
    /\ D!Fairness

(* What rows owe the document, stated in RowModel and DocumentView. *)
RowsAgree == probe # NONE => D!ModelIsRight(probe)
DocumentIsCurrent == D!ModelIsCurrent /\ D!ContextIsLive
ViewSettles == D!ViewSettles
=============================================================================
