------------------------------ MODULE LiveComments ------------------------------
(***************************************************************************)
(* The review of one running view: comments of its reader and of agents,   *)
(* reviewed marks and the verdict, and what becomes of them when the diff  *)
(* they were made on is replaced (review/store.rs, review/transition.rs,   *)
(* review/lifecycle.rs, session/comments.rs and app/annotations.rs of      *)
(* crates/mark-tui).  A fingerprint is the text it is computed from, an    *)
(* evidence takes one unit of the transition's budget, and what a comment  *)
(* says is left out.                                                       *)
(***************************************************************************)
EXTENDS Integers, FiniteSets, Sequences, SequencesExt

CONSTANTS
    NONE,
    Path,
    LongPath,        \* the paths longer than the store takes
    Document,        \* the diffs the source may have: sequences of files
    Place,           \* the anchors that people and agents choose from
    Client,          \* the agents of the session
    EvidenceBudget,  \* MAX_TRANSITION_EVIDENCE_BYTES
    MaxComments,     \* MAX_LIVE_COMMENTS, the bound of a run on comments
    MaxGeneration,   \* bound: replacements of the diff
    MaxNumber        \* bound: comments made

VARIABLES
    document,        \* the diff that is shown
    generation,      \* DiffDocument::generation
    comments,        \* the comments in the order they were made
    next_id,         \* the number of the newest comment
    draft,           \* the anchor of the open draft, or NONE
    pass,
    changed_files,
    reviewed,        \* the reviewed files <<path, 0>> and hunks <<path, hunk>>; each with the
                     \* file it was judged on, which the code does not keep
    verdict,         \* NONE, or the diff it was given on, which the code does not keep
    read             \* per agent: the generation it has read, and its diff

lifecycle == <<pass, changed_files, reviewed, verdict>>
vars == <<document, generation, comments, next_id, draft, pass, changed_files, reviewed,
          verdict, read>>

---------------------------------------------------------------------------
(* Files of a diff: [old, new, payload, hunks]; the payload is what the raw *)
(* patch says besides hunks (modes, binary data).  A hunk has the line it   *)
(* starts at on each side and lines <<kind, text>>.                         *)

Names(file) == {file.old, file.new} \ {NONE}
DisplayPath(file) == IF file.new # NONE THEN file.new ELSE file.old
PreferredSide(file) == IF file.new # NONE THEN "new" ELSE "old"
PathForSide(file, side) ==
    IF side = "old" /\ file.old # NONE THEN file.old ELSE DisplayPath(file)

Naming(doc, path) == {k \in DOMAIN doc : path \in Names(doc[k])}

(* A path may name several files of one patch (a series of commits, a merge *)
(* shown against each parent).  The code takes the first of them here and   *)
(* the last in FileFingerprints; the diffs of this module have one.         *)
ASSUME OneFilePerPath ==
    \A doc \in Document, path \in Path : Cardinality(Naming(doc, path)) <= 1

(* A file without either name takes its place in the code under an empty    *)
(* display path; the diffs of this module have none.                        *)
ASSUME FilesAreNamed ==
    \A doc \in Document :
        /\ Len(doc) \in Nat /\ DOMAIN doc = 1..Len(doc)
        /\ \A k \in DOMAIN doc :
              /\ doc[k] # NONE /\ doc[k].hunks # NONE
              /\ Names(doc[k]) # {} /\ Names(doc[k]) \subseteq Path

FindFile(doc, path) ==
    IF Naming(doc, path) = {} THEN NONE
    ELSE doc[CHOOSE k \in Naming(doc, path) : \A j \in Naming(doc, path) : k <= j]

OnSide(hunk, side) ==
    SelectSeq(hunk.lines,
              LAMBDA l : l[1] \in {"context", IF side = "old" THEN "deletion" ELSE "addition"})

SideLines(file, side) ==
    UNION {LET own == OnSide(file.hunks[h], side)
           IN  {[line |-> file.hunks[h][side] + k - 1, kind |-> own[k][1], text |-> own[k][2]]
                  : k \in DOMAIN own}
             : h \in DOMAIN file.hunks}

LineText(file, side, line) ==
    IF \E l \in SideLines(file, side) : l.line = line
    THEN (CHOOSE l \in SideLines(file, side) : l.line = line).text
    ELSE NONE

(* Anchors *)
Span(hunk) == <<hunk.old, Len(OnSide(hunk, "old")), hunk.new, Len(OnSide(hunk, "new"))>>


(* A diff has a line of a side once, and no two hunks with one header.      *)
ASSUME HunksAreApart ==
    \A doc \in Document : \A k \in DOMAIN doc :
        /\ \A side \in {"old", "new"} : \A l, m \in SideLines(doc[k], side) :
              l.text # NONE /\ (l.line = m.line => l.text = m.text)
        /\ \A g, h \in DOMAIN doc[k].hunks :
              /\ doc[k].hunks[g] # NONE
              /\ Span(doc[k].hunks[g]) = Span(doc[k].hunks[h]) => doc[k].hunks[g] = doc[k].hunks[h]

ForFile(file) ==
    [path |-> DisplayPath(file), side |-> PreferredSide(file), line |-> 0,
     scope |-> "file", span |-> <<>>]
ForHunk(file, hunk) ==
    [path |-> DisplayPath(file), side |-> PreferredSide(file), line |-> hunk[PreferredSide(file)],
     scope |-> "hunk", span |-> Span(hunk)]
ForFileLine(file, side, line) ==
    [path |-> PathForSide(file, side), side |-> side, line |-> line,
     scope |-> "line", span |-> <<>>]

HunkAt(file, anchor) ==
    IF \E h \in DOMAIN file.hunks : Span(file.hunks[h]) = anchor.span
    THEN file.hunks[CHOOSE h \in DOMAIN file.hunks : Span(file.hunks[h]) = anchor.span]
    ELSE NONE

FileAndHunkAnchors(file) ==
    {ForFile(file)} \cup {ForHunk(file, file.hunks[h]) : h \in DOMAIN file.hunks}

LineAnchors(file, side, kinds) ==
    {ForFileLine(file, side, l.line) : l \in {o \in SideLines(file, side) : o.kind \in kinds}}

(* The anchors of rows: a context line has that of its new side. *)
RowAnchors(file) ==
    FileAndHunkAnchors(file) \cup LineAnchors(file, "new", {"context", "addition"})
                             \cup LineAnchors(file, "old", {"deletion"})
Rows(doc) == UNION {RowAnchors(doc[k]) : k \in DOMAIN doc}

(* Lines outside every hunk have rows where the reader has expanded them. *)
Expandable(doc) ==
    {a \in Place : /\ a.scope = "line"
                   /\ \E k \in DOMAIN doc : /\ a.side = PreferredSide(doc[k])
                                            /\ a.path = DisplayPath(doc[k])
                                            /\ LineText(doc[k], a.side, a.line) = NONE}

(* The anchors an agent may name: of a file, a hunk or a line of either side. *)
AgentAnchors(file) ==
    FileAndHunkAnchors(file) \cup LineAnchors(file, "new", {"context", "addition"})
                             \cup LineAnchors(file, "old", {"context", "deletion"})
Valid(doc) == UNION {AgentAnchors(doc[k]) : k \in DOMAIN doc}
---------------------------------------------------------------------------
(* What an anchor stood on, as far as the transition remembers it. *)
NoEvidence == [file |-> NONE, text |-> NONE, hunk |-> NONE]

AnchorEvidence(doc, anchor) ==
    LET file == FindFile(doc, anchor.path) IN
    IF file = NONE THEN NoEvidence
    ELSE [file |-> file.hunks,
          text |-> IF anchor.scope = "line" THEN LineText(file, anchor.side, anchor.line) ELSE NONE,
          hunk |-> IF anchor.scope = "hunk" THEN HunkAt(file, anchor) ELSE NONE]

(* Where a file has what the evidence describes, if it has it just once. *)
CandidateAnchor(file, anchor, evidence) ==
    CASE anchor.scope = "file" ->
           IF anchor.path \in Names(file) \/ file.hunks = evidence.file
           THEN {ForFile(file)} ELSE {}
      [] anchor.scope = "line" ->
           LET matches == {l \in SideLines(file, anchor.side) : l.text = evidence.text}
           IN  IF Cardinality(matches) = 1
               THEN {ForFileLine(file, anchor.side, l.line) : l \in matches} ELSE {}
      [] anchor.scope = "hunk" ->
           LET matches == {h \in DOMAIN file.hunks : file.hunks[h] = evidence.hunk}
           IN  IF Cardinality(matches) = 1
               THEN {ForHunk(file, file.hunks[h]) : h \in matches} ELSE {}

(* The file of the anchor's path is searched alone, without one every file. *)
Reanchored(doc, anchor, evidence) ==
    LET exact == FindFile(doc, anchor.path)
        searched == {k \in DOMAIN doc : exact = NONE \/ doc[k] = exact}
        candidates == UNION {{k} \X CandidateAnchor(doc[k], anchor, evidence) : k \in searched}
    IN  IF Cardinality(candidates) = 1 THEN {c[2] : c \in candidates} ELSE {}

FileFingerprints(doc) ==
    [path \in UNION {Names(doc[k]) : k \in DOMAIN doc} |->
       doc[CHOOSE k \in Naming(doc, path) : \A j \in Naming(doc, path) : j <= k]]

ChangedPaths(old, new) ==
    {path \in DOMAIN old \cup DOMAIN new :
       ~(path \in DOMAIN old \cap DOMAIN new /\ old[path] = new[path])}

ChangedDisplayPaths(changed, old, new) ==
    {DisplayPath(IF path \in DOMAIN new THEN new[path] ELSE old[path]) : path \in changed}
---------------------------------------------------------------------------
(* Comments *)
Shown(c) == c.lifecycle \in {"open", "moved"}
Visible(c) == Shown(c) /\ c.disposition # "dismissed"
VisibleAt(anchor) == {k \in DOMAIN comments : Visible(comments[k]) /\ comments[k].anchor = anchor}

SameRenderedAnchor(a, b) ==
    a = b \/ (a.path = b.path /\ a.scope = b.scope /\ a.span = b.span /\ a.scope # "line")

CanonicalAnchor(anchor) ==
    IF \E c \in ToSet(comments) : Visible(c) /\ SameRenderedAnchor(c.anchor, anchor)
    THEN (CHOOSE c \in ToSet(comments) : Visible(c) /\ SameRenderedAnchor(c.anchor, anchor)).anchor
    ELSE anchor

(* The reader's newest comment there, which is the one a draft edits. *)
HumanAt(anchor) ==
    LET own == {k \in VisibleAt(anchor) : comments[k].origin = "human"}
    IN  {k \in own : \A j \in own : j <= k}

(* The code does not keep what a comment is about: what it was written on,  *)
(* the names and the contents its file has had while the comment followed   *)
(* it, and whether its place is surmised, which it is once the comment lost *)
(* its place and its evidence was not kept.                                 *)
NewComment(origin, number, anchor, doc) ==
    [origin |-> origin, number |-> number, anchor |-> anchor, lifecycle |-> "open",
     disposition |-> "open", document_generation |-> generation, evidence |-> NONE,
     was |-> AnchorEvidence(doc, anchor), names |-> Names(FindFile(doc, anchor.path)),
     contents |-> {FindFile(doc, anchor.path).hunks}, surmised |-> FALSE]

Id(c) == <<c.origin, c.number>>
IdsAt(anchor) == {Id(comments[k]) : k \in VisibleAt(anchor)}

(* The comments at these positions are left, in their order. *)
Leave(kept) ==
    \E order \in [1..Cardinality(kept) -> kept] :
        /\ \A i, j \in DOMAIN order : i < j => order[i] < order[j]
        /\ comments' = [k \in DOMAIN order |-> comments[order[k]]]

RemoveIds(ids) == Leave({k \in DOMAIN comments : Id(comments[k]) \notin ids})
---------------------------------------------------------------------------
(* The transition to another diff of the same source *)

(* Mutant: evidence is taken anew at every transition. *)
Known_Afresh(c) == AnchorEvidence(document, c.anchor)

Known(c) == IF c.evidence # NONE THEN c.evidence ELSE AnchorEvidence(document, c.anchor)

(* What is known of each comment's place when the diff is replaced; NONE is *)
(* an evidence that did not fit the budget.                                 *)
Captured ==
    LET known == [k \in DOMAIN comments |-> Known(comments[k])]
        costly == {k \in DOMAIN comments : known[k] # NoEvidence}
    IN  [k \in DOMAIN comments |->
           IF k \in costly /\ Cardinality({j \in costly : j < k}) >= EvidenceBudget
           THEN NONE ELSE known[k]]

(* A comment that finds its place again, and one that does not. *)
Placed(c, doc, anchor) ==
    LET file == FindFile(doc, anchor.path)
        followed == c.names \cap Names(file) # {} \/ file.hunks \in c.contents
    IN  [c EXCEPT !.anchor = anchor,
                  !.lifecycle = IF anchor = c.anchor THEN "open" ELSE "moved",
                  !.names = IF followed THEN c.names \cup Names(file) ELSE c.names,
                  !.contents = IF followed THEN c.contents \cup {file.hunks} ELSE c.contents]

Lost(c, doc) ==
    [c EXCEPT !.lifecycle = IF FindFile(doc, c.anchor.path) = NONE THEN "cleared" ELSE "stale"]

RestoreComment(c, evidence, doc, changed) ==
    LET kept == [c EXCEPT !.evidence = evidence, !.document_generation = generation + 1]
        found == Reanchored(doc, c.anchor, IF evidence = NONE THEN NoEvidence ELSE evidence)
    IN  IF c.anchor.path \notin changed THEN kept
        ELSE IF found = {} THEN Lost(kept, doc)
        ELSE Placed(kept, doc, CHOOSE a \in found : TRUE)

(* Comments carried to a path the store cannot hold stay where they were. *)
Left(c, anchor) == [c EXCEPT !.anchor = anchor, !.lifecycle = "stale"]

WithinLimits(restored) ==
    IF \A k \in DOMAIN restored : restored[k].anchor.path \notin LongPath THEN restored
    ELSE [k \in DOMAIN restored |->
            IF restored[k].anchor.path = comments[k].anchor.path THEN restored[k]
            ELSE Left(restored[k], comments[k].anchor)]

Surmise(c) == [c EXCEPT !.surmised = @ \/ (~Shown(c) /\ c.evidence = NONE)]

RestoredNumber(restored) ==
    IF restored = <<>> THEN 0
    ELSE LET numbers == {restored[k].number : k \in DOMAIN restored}
         IN  CHOOSE n \in numbers : \A m \in numbers : m <= n

Surviving(changed) == [x \in {y \in DOMAIN reviewed : y[1] \notin changed} |-> reviewed[x]]

Apply(doc) ==
    LET old == FileFingerprints(document)
        new == FileFingerprints(doc)
        changed == ChangedPaths(old, new)
        restored == WithinLimits([k \in DOMAIN comments |->
                                    RestoreComment(comments[k], Captured[k], doc, changed)])
    IN  IF changed = {} THEN UNCHANGED <<comments, next_id, lifecycle>>
        ELSE /\ comments' = [k \in DOMAIN comments |-> Surmise(restored[k])]
             /\ next_id' = RestoredNumber(restored)
             /\ pass' = pass + 1
             /\ changed_files' = ChangedDisplayPaths(changed, old, new)
             /\ reviewed' = Surviving(changed)
             /\ verdict' = NONE

(* A draft stays open while its anchor has a row. *)
Replace(doc) ==
    /\ generation < MaxGeneration
    /\ document' = doc
    /\ generation' = generation + 1
    /\ draft' = IF draft \in Rows(doc) THEN draft ELSE NONE
    /\ Apply(doc)
    /\ UNCHANGED read

(* Another source is another review. *)
ResetReview(doc) ==
    /\ generation < MaxGeneration
    /\ document' = doc
    /\ generation' = generation + 1
    /\ comments' = <<>> /\ next_id' = 0 /\ draft' = NONE
    /\ pass' = 1 /\ changed_files' = {} /\ reviewed' = <<>> /\ verdict' = NONE
    /\ UNCHANGED read
---------------------------------------------------------------------------
(* The reader of the view *)

Init ==
    /\ document \in Document
    /\ generation = 0
    /\ comments = <<>> /\ next_id = 0 /\ draft = NONE
    /\ pass = 1 /\ changed_files = {} /\ reviewed = <<>> /\ verdict = NONE
    /\ read = [a \in Client |-> [generation |-> generation, document |-> document]]

OpenDraft(anchor) ==
    /\ draft = NONE
    /\ anchor \in Rows(document) \cup Expandable(document)
    /\ draft' = anchor
    /\ UNCHANGED <<document, generation, comments, next_id, lifecycle, read>>

CancelDraft ==
    /\ draft # NONE
    /\ draft' = NONE
    /\ UNCHANGED <<document, generation, comments, next_id, lifecycle, read>>

(* An empty text takes the comment back; one the store refuses stays a draft. *)
CommitEmptyDraft ==
    /\ draft # NONE
    /\ RemoveIds({Id(comments[k]) : k \in HumanAt(draft)})
    /\ draft' = NONE
    /\ UNCHANGED <<document, generation, next_id, lifecycle, read>>

InsertHuman(anchor) ==
    IF HumanAt(anchor) # {}
    THEN /\ comments' = [k \in DOMAIN comments |->
                           IF k \in HumanAt(anchor)
                           THEN [comments[k] EXCEPT !.document_generation = generation]
                           ELSE comments[k]]
         /\ UNCHANGED next_id
    ELSE /\ Len(comments) < MaxComments
         /\ next_id < MaxNumber
         /\ comments' = Append(comments, NewComment("human", next_id + 1, anchor, document))
         /\ next_id' = next_id + 1

CommitDraft ==
    /\ draft # NONE
    /\ draft.path \notin LongPath
    /\ InsertHuman(CanonicalAnchor(draft))
    /\ draft' = NONE
    /\ UNCHANGED <<document, generation, lifecycle, read>>

RemoveMark(anchor) ==
    /\ draft = NONE
    /\ VisibleAt(anchor) # {}
    /\ RemoveIds(IdsAt(anchor))
    /\ UNCHANGED <<document, generation, next_id, draft, lifecycle, read>>

(* Asked for while there were comments; agents may have removed them since. *)
ClearAllMarks ==
    /\ draft = NONE
    /\ comments' = <<>> /\ next_id' = 0
    /\ UNCHANGED <<document, generation, draft, lifecycle, read>>

Disposed(ids, disposition) ==
    [k \in DOMAIN comments |->
       IF comments[k].origin = "agent" /\ Id(comments[k]) \in ids
       THEN [comments[k] EXCEPT !.disposition = disposition] ELSE comments[k]]

DisposeOfMark(anchor, disposition) ==
    /\ comments' = Disposed(IdsAt(anchor), disposition)
    /\ UNCHANGED <<document, generation, next_id, draft, lifecycle, read>>

Mark(item, file) == [x \in DOMAIN reviewed \cup {item} |-> IF x = item THEN file ELSE reviewed[x]]

(* A file that is not reviewed has no reviewed hunk either. *)
Unmark(item) ==
    [x \in {y \in DOMAIN reviewed : IF item[2] = 0 THEN y[1] # item[1] ELSE y # item} |-> reviewed[x]]

Items(file) == {DisplayPath(file)} \X (0..Len(file.hunks))

ToggleReviewed(k, item) ==
    /\ k \in DOMAIN document
    /\ item \in Items(document[k])
    /\ reviewed' = IF item \in DOMAIN reviewed THEN Unmark(item) ELSE Mark(item, document[k])
    /\ UNCHANGED <<document, generation, comments, next_id, draft, pass, changed_files, verdict, read>>

GiveVerdict(given) ==
    /\ verdict' = given
    /\ UNCHANGED <<document, generation, comments, next_id, draft, pass, changed_files, reviewed, read>>
---------------------------------------------------------------------------
(* The agents of the session; what they send refers to what they have read. *)

Read(a) ==
    /\ read' = [read EXCEPT ![a] = [generation |-> generation, document |-> document]]
    /\ UNCHANGED <<document, generation, comments, next_id, draft, lifecycle>>

(* Mutant: commands are served whatever was read. *)
RequireGeneration_Not(a) == TRUE

RequireGeneration(a) == read[a].generation = generation

(* A batch is taken as a whole or refused. *)
ApplyComments(a, anchors) ==
    /\ RequireGeneration(a)
    /\ ToSet(anchors) \subseteq Valid(document)
    /\ \A k \in DOMAIN anchors : anchors[k].path \notin LongPath
    /\ Len(comments) + Len(anchors) <= MaxComments
    /\ next_id + Len(anchors) <= MaxNumber
    /\ comments' = comments \o
          [k \in DOMAIN anchors |->
             NewComment("agent", next_id + k, CanonicalAnchor(anchors[k]), read[a].document)]
    /\ next_id' = next_id + Len(anchors)
    /\ UNCHANGED <<document, generation, draft, lifecycle, read>>

RemoveComment(a, number) ==
    /\ RequireGeneration(a)
    /\ RemoveIds({<<"agent", number>>})
    /\ UNCHANGED <<document, generation, next_id, draft, lifecycle, read>>

ClearAgents(a, path) ==
    /\ RequireGeneration(a)
    /\ Leave({k \in DOMAIN comments : \/ comments[k].origin = "human"
                                     \/ path \notin {NONE, comments[k].anchor.path}})
    /\ UNCHANGED <<document, generation, next_id, draft, lifecycle, read>>

SetDisposition(a, number, disposition) ==
    /\ RequireGeneration(a)
    /\ comments' = Disposed({<<"agent", number>>}, disposition)
    /\ UNCHANGED <<document, generation, next_id, draft, lifecycle, read>>

SetProgress(a, path, hunk, value) ==
    /\ RequireGeneration(a)
    /\ FindFile(document, path) # NONE
    /\ LET item == <<DisplayPath(FindFile(document, path)), hunk>> IN
       /\ item \in Items(FindFile(document, path))
       /\ reviewed' = IF value THEN Mark(item, FindFile(read[a].document, path)) ELSE Unmark(item)
    /\ UNCHANGED <<document, generation, comments, next_id, draft, pass, changed_files, verdict, read>>

SetVerdict(a, given) ==
    /\ RequireGeneration(a)
    /\ verdict' = given
    /\ UNCHANGED <<document, generation, comments, next_id, draft, pass, changed_files, reviewed, read>>
---------------------------------------------------------------------------
Disposition == {"open", "dismissed"}

Commenting ==
    \/ \E anchor \in Place : OpenDraft(anchor) \/ RemoveMark(anchor)
    \/ CancelDraft \/ CommitEmptyDraft \/ CommitDraft \/ ClearAllMarks
    \/ \E anchor \in Place, d \in Disposition : DisposeOfMark(anchor, d)
    \/ \E a \in Client :
          \/ \E anchors \in {<<x>> : x \in Place} \cup {<<x, y>> : x, y \in Place} :
                ApplyComments(a, anchors)
          \/ \E n \in 1..MaxNumber : RemoveComment(a, n) \/ \E d \in Disposition : SetDisposition(a, n, d)
          \/ \E path \in Path \cup {NONE} : ClearAgents(a, path)

Judging ==
    \/ \E k \in DOMAIN document : \E item \in Items(document[k]) : ToggleReviewed(k, item)
    \/ \E given \in {NONE, document} : GiveVerdict(given)
    \/ \E a \in Client :
          \/ \E path \in Path, hunk \in {0, 1}, value \in BOOLEAN : SetProgress(a, path, hunk, value)
          \/ \E given \in {NONE, read[a].document} : SetVerdict(a, given)

Next ==
    \/ \E doc \in Document : Replace(doc) \/ ResetReview(doc)
    \/ \E a \in Client : Read(a)
    \/ Commenting
    \/ Judging

Spec == Init /\ [][Next]_vars
---------------------------------------------------------------------------
(* A comment that is shown stands at what it was written about, in a file   *)
(* that is the one it was written in, whatever the diff went through in     *)
(* between and however it was taken there: by the reader's draft, by an     *)
(* agent's request about a diff it read earlier, or by the evidence kept    *)
(* from the first transition.                                               *)
StandsWhereWritten ==
    \A c \in ToSet(comments) :
        Visible(c) /\ ~c.surmised =>
            LET file == FindFile(document, c.anchor.path)
                now == AnchorEvidence(document, c.anchor)
            IN  /\ file # NONE
                /\ now.text = c.was.text
                /\ now.hunk = c.was.hunk
                /\ c.anchor.scope = "file" =>
                      Names(file) \cap c.names # {} \/ file.hunks \in c.contents

(* What is marked reviewed is the file as it was when it was marked, and a  *)
(* verdict stands on the diff it was given on.                              *)
JudgedIsCurrent ==
    /\ \A x \in DOMAIN reviewed : FindFile(document, x[1]) = reviewed[x]
    /\ verdict # NONE => ToSet(verdict) = ToSet(document)
=============================================================================
