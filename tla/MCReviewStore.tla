------------------------------ MODULE MCReviewStore ------------------------------
(* Two processes and two instances: conversations that open reviews at the   *)
(* same time, or one review with mutations retried three ways.  And patches  *)
(* alone, from which the sections of the reviews come: every hunk of up to   *)
(* three lines in each style, alone and before another file; patches of two  *)
(* or three files, spliced and compared.                                     *)
EXTENDS ReviewStore, TLC

CONSTANTS f1, s1, s2, p1, p2, src, c1, conv1, conv2, repo, b1, v1, m1, r1

VARIABLES instance,    \* "opening", "retry" or "reading"
          probe        \* the patches that are read

MCSections == [p \in Patch |-> [f \in File |-> IF p = p1 THEN s1 ELSE s2]]

MCArgs(m) ==
    CASE m = "review.refresh" -> [patch: Patch, source: {NONE}]
      [] m = "comment.add" -> [file: File, origin: {"human"}, body: {b1}]

MCCalls == UNION {[method: {m}, mid: MutationId, generation: {1}, expected: {NONE, 2},
                   args: MCArgs(m)] : m \in {"review.refresh", "comment.add"}}

AskedToOpen(operation) ==
    /\ operation.op = "open" /\ operation.patch = p1
    /\ instance = "retry" => operation.binding.conversation = conv1 /\ operation.review = NONE

AskedToMutate(operation) ==
    /\ operation.op # "open"
    /\ IF instance = "retry"
       THEN operation.review = r1 /\ (operation.req.expected = 2 => operation.req.method = "comment.add")
       ELSE operation.req.method = "comment.add" /\ operation.req.mid = m1 /\ operation.req.expected = NONE

----------------------------------------------------------------------------
Paths == {"p", "q", "odd", "a b", "d/e", "d/f", "d"}
P == INSTANCE PatchText WITH
        Quoted <- {"odd"}, Spaced <- {"a b"},
        Within <- [path \in Paths |-> IF path = "d" THEN {"d/e", "d/f"} ELSE {path}]

Text(kind, text) == [kind |-> kind, text |-> text]
Dashed == {Text("deletion", <<"---", "p">>), Text("addition", <<"+++", "q">>)}
Simple == {Text("context", <<"x">>), Text("deletion", <<"x">>), Text("addition", <<"y">>)}
Behind == {Text("marker", <<"x">>), Text("meta", <<"\\", "x">>)}
Rows ==
    {rows \in UNION {[1..n -> {Text("context", <<>>)} \cup Dashed \cup Simple \cup Behind] : n \in 1..3} :
        \A i \in DOMAIN rows : rows[i] \in Behind => i > 1 /\ rows[i - 1] \notin Behind}

HunkAt(start, rows) == [old |-> start, new |-> start, rows |-> rows]
Edit == <<Text("deletion", <<"x">>), Text("addition", <<"y">>)>>
Changed(status, old, new, hunks) ==
    [status |-> status, old |-> old, new |-> new, moded |-> FALSE, binary |-> NONE, hunks |-> hunks]
Modified(path, hunks) == Changed("modified", path, path, hunks)
Moded(file) == [file EXCEPT !.moded = TRUE]
Binary(file, how) == [file EXCEPT !.binary = how]
Last == Modified("q", <<HunkAt(2, Edit)>>)

Textless ==
    {Moded(Modified("p", <<>>)), Changed("added", "p", "p", <<>>), Changed("deleted", "p", "p", <<>>),
     Moded(Changed("renamed", "p", "q", <<>>)), Changed("copied", "p", "a b", <<>>),
     Binary(Modified("p", <<>>), "Binary files"), Binary(Changed("added", "p", "p", <<>>), "GIT binary patch")}

Read(patch, style) == [files |-> patch, style |-> style]
Readings ==
    {Read(<<Modified("p", <<HunkAt(1, rows)>>), Last>>, style) : rows \in Rows, style \in {"git", "plain"}}
    \cup {Read(<<Changed("renamed", "p", "a b", <<HunkAt(1, rows)>>)>>, "mail") : rows \in Rows}
    \cup {Read(<<Changed("deleted", "odd", "odd", <<HunkAt(1, <<row>>)>>), Last>>, style) :
             row \in Dashed, style \in {"git", "plain"}}
    \cup {Read(<<Modified("p", <<HunkAt(1, Edit), HunkAt(5, rows)>>), Last>>, style) :
             rows \in [1..2 -> Dashed \cup Simple], style \in {"git", "plain"}}
    \cup {Read(list, style) : list \in {<<f>> : f \in Textless} \cup {<<f, Last, f>> : f \in Textless},
             style \in {"git", "mail"}}
    \cup {Read(<<Moded(Modified("p", <<HunkAt(1, rows)>>))>>, "git") : rows \in [1..2 -> Dashed]}

ReadingLimits ==
    [files: {NONE, 1}, hunks: {NONE}, rows: {NONE, 3, 4}] \cup [files: {NONE}, hunks: {1}, rows: {NONE}]

Files ==
    {Modified("p", <<HunkAt(1, Edit)>>), Modified("p", <<HunkAt(2, Edit)>>), Moded(Modified("p", <<>>)),
     Changed("renamed", "p", "q", <<HunkAt(1, Edit)>>), Changed("renamed", "p", "odd", <<HunkAt(1, Edit)>>),
     Modified("a b", <<HunkAt(1, Edit)>>), Changed("copied", "a b", "q", <<>>),
     Changed("deleted", "d/e", "d/e", <<HunkAt(1, Edit)>>), Changed("added", "d/f", "d/f", <<>>)}
Patches == {<<>>} \cup {<<f>> : f \in Files} \cup {<<f, g>> : f \in Files, g \in Files}
Asked == {<<>>, <<Modified("p", <<HunkAt(3, Edit)>>)>>,
          <<Changed("added", "d/f", "d/f", <<HunkAt(0, <<Text("addition", <<"y">>)>>)>>), Modified("p", <<HunkAt(3, Edit)>>)>>}

Splice(before, style, paths, after) ==
    [before |-> P!Printed(before, style), paths |-> paths, after |-> P!Printed(after, "git")]
Splices ==
    {Splice(before, style, paths, after) :
        before \in Patches, style \in {"git", "mail"}, paths \in {{"p"}, {"d"}, {"q", "d/e"}}, after \in Asked}
    \cup {Splice(<<Modified("p", <<HunkAt(1, Edit)>>), f>>, "plain", {"p"}, after) :
             f \in {Last, Modified("p", <<HunkAt(1, Edit)>>)}, after \in Asked}
    \cup {Splice(<<f, g, h>>, "git", {"p", "d"}, after) :
             f \in Files, g \in {Last}, h \in Files, after \in Asked}

Compared(before, after) == [from |-> P!Printed(before, "git"), to |-> P!Printed(after, "git")]
Comparisons ==
    {Compared(before, after) : before \in {<<f, Last>> : f \in Files}, after \in Patches}
    \cup {Compared(<<f, f>>, after) : f \in Files, after \in Patches}
    \cup {Compared(<<f, g>>, <<g, f, h>>) : f \in Files, g \in Files, h \in Files}

----------------------------------------------------------------------------
(* What the processes are asked for; a new review's name is drawn at random, *)
(* so the retries need only one.                                             *)
Serving ==
    /\ instance # "reading"
    /\ Next
    /\ UNCHANGED <<instance, probe>>
    /\ \A p \in Proc : request'[p] # NONE =>
          AskedToOpen(request'[p]) \/ AskedToMutate(request'[p])
    /\ instance = "retry" => \A i \in ReviewId \ {r1} : files'[i] = NONE

Reading ==
    /\ instance = "reading"
    /\ probe' \in IF probe = NONE THEN Readings \cup Splices \cup Comparisons ELSE {NONE}
    /\ UNCHANGED <<vars, instance>>

MCNext == Serving \/ Reading

MCInit == Init /\ instance \in {"opening", "retry", "reading"} /\ probe = NONE

MCSpec ==
    /\ MCInit
    /\ [][MCNext]_<<vars, instance, probe>>
    /\ Fairness

(* What the readers of a patch owe each other, stated in PatchText. *)
IsProbe(field) == probe # NONE /\ field \in DOMAIN probe
ReadersAgree == IsProbe("files") => P!ReadersAgree(probe.files, probe.style, ReadingLimits, "d/e")
PiecesAgree ==
    /\ IsProbe("paths") => P!SplicedIsParsed(probe.before, probe.paths, probe.after)
    /\ IsProbe("from") => P!UnchangedIsSame(probe.from, probe.to)
=============================================================================
