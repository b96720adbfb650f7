------------------------------ MODULE PatchText ------------------------------
(***************************************************************************)
(* The text of a patch and those that read it.  The parser makes files of  *)
(* it, in one piece or in parallel (crates/mark-diff/src/parser.rs); the   *)
(* statistics count it without keeping it (stats.rs); the difftool gives   *)
(* it other names (difftool.rs); a reload of some paths cuts it up and     *)
(* puts it together (crates/mark-tui/src/app/diff_replace.rs), and the     *)
(* store asks which of its sections a refresh left as they were            *)
(* (crates/mark-session/src/review/snapshot.rs).  All must see the same    *)
(* files, though a line means what the lines before it make of it: --- is  *)
(* the name of a file or a line that was deleted and began with two dashes.*)
(*                                                                         *)
(* A line is its first word and what follows.  Quoting and prefixes of     *)
(* paths are taken off when it is read; NONE is /dev/null.  The length of  *)
(* lines, and so its limit, is left out, as are bytes and encodings.       *)
(***************************************************************************)
EXTENDS Integers, Sequences, FiniteSets, SequencesExt, FiniteSetsExt

CONSTANTS
    NONE,
    Quoted,    \* paths that git writes in quotes
    Spaced,    \* paths with a space
    Within     \* for each path, itself and the paths below it

Line(word, rest) == [word |-> word, rest |-> rest]
Marker == Line("\\", <<"No newline at end of file">>)

Either(first, second) == IF first = NONE THEN second ELSE first

----------------------------------------------------------------------------
(* What git prints, and diff for plain files.  A row of a hunk has a kind  *)
(* and a text; one of two words begins with what starts a header.          *)
Sign(kind) == CASE kind = "context" -> " " [] kind = "deletion" -> "-" [] kind = "addition" -> "+"

PrintedRow(row) ==
    CASE row.kind = "marker" -> Marker
      [] row.kind = "meta" -> Line("\\", Tail(row.text))
      [] row.kind = "context" /\ row.text = <<>> -> Line("", <<>>)
      [] Len(row.text) = 2 -> Line(row.text[1], <<row.text[2]>>)
      [] OTHER -> Line(Sign(row.kind), row.text)

OnSide(side) == {"context", IF side = "old" THEN "deletion" ELSE "addition"}
Counted(rows, kinds) == Len(SelectSeq(rows, LAMBDA row: row.kind \in kinds))

PrintedHunk(h) ==
    <<Line("@@", <<h.old, Counted(h.rows, OnSide("old")), h.new, Counted(h.rows, OnSide("new"))>>)>>
        \o [i \in DOMAIN h.rows |-> PrintedRow(h.rows[i])]
PrintedHunks(hunks) == FlattenSeq([i \in DOMAIN hunks |-> PrintedHunk(hunks[i])])

PrintedNames(f) ==
    <<Line("---", <<IF f.status = "added" THEN NONE ELSE f.old>>),
      Line("+++", <<IF f.status = "deleted" THEN NONE ELSE f.new>>)>>

PrintedChange(f) ==
    (CASE f.status = "added" -> <<Line("new file mode", <<>>)>>
       [] f.status = "deleted" -> <<Line("deleted file mode", <<>>)>>
       [] f.moded -> <<Line("old mode", <<>>), Line("new mode", <<>>)>>
       [] OTHER -> <<>>)
    \o (CASE f.status = "renamed" -> <<Line("rename from", <<f.old>>), Line("rename to", <<f.new>>)>>
          [] f.status = "copied" -> <<Line("copy from", <<f.old>>), Line("copy to", <<f.new>>)>>
          [] OTHER -> <<>>)

PrintedFile(f, style) ==
    IF style = "plain" THEN PrintedNames(f) \o PrintedHunks(f.hunks)
    ELSE <<Line("diff --git", <<f.old, f.new>>)>> \o PrintedChange(f) \o <<Line("index", <<>>)>>
         \o (CASE f.binary # NONE -> <<Line(f.binary, <<f.old, f.new>>), Line("junk", <<>>)>>
               [] f.hunks # <<>> -> PrintedNames(f) \o PrintedHunks(f.hunks)
               [] OTHER -> <<>>)

(* A patch as a mail has its message before it and a signature behind.  *)
Printed(files, style) ==
    (IF style = "mail" THEN <<Line("junk", <<>>), Line(" ", <<"x">>)>> ELSE <<>>)
    \o FlattenSeq([i \in DOMAIN files |-> PrintedFile(files[i], style)])
    \o (IF style = "mail" THEN <<Line("--", <<>>), Line("junk", <<>>)>> ELSE <<>>)

----------------------------------------------------------------------------
(* The parser.  A file and a hunk are built line by line. *)
NewFile(old, new) ==
    [old |-> old, new |-> new, status |-> "modified", hunks |-> <<>>,
     additions |-> 0, deletions |-> 0, binary |-> FALSE]

ApplyHeader(file, line) ==
    CASE line.word = "new file mode" -> [file EXCEPT !.status = "added"]
      [] line.word = "deleted file mode" -> [file EXCEPT !.status = "deleted"]
      [] line.word = "rename from" -> [file EXCEPT !.status = "renamed", !.old = line.rest[1]]
      [] line.word = "rename to" -> [file EXCEPT !.status = "renamed", !.new = line.rest[1]]
      [] line.word = "copy from" -> [file EXCEPT !.status = "copied", !.old = line.rest[1]]
      [] line.word = "copy to" -> [file EXCEPT !.status = "copied", !.new = line.rest[1]]
      [] line.word \in {"old mode", "new mode"} /\ file.status \notin {"renamed", "copied"} ->
             [file EXCEPT !.status = "type-changed"]
      [] line.word \in {"Binary files", "GIT binary patch"} -> [file EXCEPT !.binary = TRUE]
      [] line.word = "---" ->
             [file EXCEPT !.old = line.rest[1], !.status = IF line.rest[1] = NONE THEN "added" ELSE @]
      [] line.word = "+++" ->
             [file EXCEPT !.new = line.rest[1], !.status = IF line.rest[1] = NONE THEN "deleted" ELSE @]
      [] OTHER -> file

FromStatus(status, old, new) ==
    CASE status \in {"modified", "type-changed"} /\ (old # NONE \/ new # NONE) ->
             [status |-> status, old |-> Either(old, new), new |-> Either(new, old)]
      [] status = "added" /\ new # NONE -> [status |-> status, old |-> NONE, new |-> new]
      [] status = "deleted" /\ old # NONE -> [status |-> status, old |-> old, new |-> NONE]
      [] status \in {"renamed", "copied"} /\ old # NONE /\ new # NONE ->
             [status |-> status, old |-> old, new |-> new]
      [] OTHER -> [status |-> "unknown", old |-> IF status = "deleted" THEN NONE ELSE old,
                   new |-> IF status = "added" THEN NONE ELSE new]

Finished(file) ==
    [change |-> FromStatus(file.status, file.old, file.new), binary |-> file.binary,
     additions |-> file.additions, deletions |-> file.deletions,
     hunks |-> IF file.binary THEN <<>> ELSE file.hunks]

DisplayPath(file) == Either(file.change.new, file.change.old)

FromHunkHeader(line) ==
    [old |-> line.rest[1], oldCount |-> line.rest[2], new |-> line.rest[3], newCount |-> line.rest[4],
     oldLine |-> line.rest[1], newLine |-> line.rest[3], rows |-> <<>>, additions |-> 0, deletions |-> 0]

IsComplete(hunk) ==
    /\ hunk.oldLine - hunk.old >= hunk.oldCount
    /\ hunk.newLine - hunk.new >= hunk.newCount

(* The byte a line begins with: those of headers begin like rows do.  *)
Prefix(line) ==
    CASE line.word \in {"-", "---", "--"} -> "-"
      [] line.word \in {"+", "+++"} -> "+"
      [] OTHER -> line.word
Text(line) ==
    IF line.word \in {"-", "+", " ", ""} THEN line.rest ELSE <<line.word>> \o line.rest

Row(kind, old, new, text) == [kind |-> kind, old |-> old, new |-> new, text |-> text]

PushLine(hunk, line) ==
    CASE Prefix(line) = "+" ->
             [hunk EXCEPT !.newLine = @ + 1, !.additions = @ + 1,
                          !.rows = Append(@, Row("addition", NONE, hunk.newLine, Text(line)))]
      [] Prefix(line) = "-" ->
             [hunk EXCEPT !.oldLine = @ + 1, !.deletions = @ + 1,
                          !.rows = Append(@, Row("deletion", hunk.oldLine, NONE, Text(line)))]
      [] line = Marker -> hunk
      [] Prefix(line) = "\\" -> [hunk EXCEPT !.rows = Append(@, Row("meta", NONE, NONE, Text(line)))]
      [] OTHER ->
             [hunk EXCEPT !.oldLine = @ + 1, !.newLine = @ + 1,
                          !.rows = Append(@, Row("context", hunk.oldLine, hunk.newLine, Text(line)))]

(* What has been read: the files finished, the one being read and its hunk, *)
(* what the limits count, and whether the next line was taken with this one. *)
Nothing ==
    [files |-> <<>>, file |-> NONE, hunk |-> NONE, rows |-> 0, hunks |-> 0, taken |-> FALSE, refused |-> FALSE]

Exceeds(limit, count) == limit # NONE /\ count > limit

FinishHunk(s) ==
    IF s.file = NONE \/ s.hunk = NONE THEN [s EXCEPT !.hunk = NONE]
    ELSE [s EXCEPT !.hunk = NONE,
                   !.file = [@ EXCEPT !.additions = @ + s.hunk.additions,
                                      !.deletions = @ + s.hunk.deletions,
                                      !.hunks = Append(@, [old |-> s.hunk.old, new |-> s.hunk.new,
                                                           rows |-> s.hunk.rows])]]
FinishFile(s) ==
    IF s.file = NONE THEN s ELSE [s EXCEPT !.file = NONE, !.files = Append(@, Finished(s.file))]

Begin(s, file, limits) ==
    [s EXCEPT !.file = file, !.refused = Exceeds(limits.files, Len(s.files))]

(* Mutant: a pair of headers starts a file inside a hunk as well.  *)
StartsUnifiedFile_Anywhere(s) == s.file = NONE \/ s.file.hunks # <<>>

StartsUnifiedFile(s) == s.hunk = NONE /\ (s.file = NONE \/ s.file.hunks # <<>>)

(* A line, with the one behind it, once a complete hunk is finished.  *)
ReadLine(s, line, next, limits) ==
    CASE line.word = "---" /\ StartsUnifiedFile(s) /\ next.word = "+++" ->
             [Begin(FinishFile(FinishHunk(s)), ApplyHeader(ApplyHeader(NewFile(NONE, NONE), line), next), limits)
                  EXCEPT !.taken = TRUE]
      [] s.file = NONE -> s
      [] line.word = "@@" ->
             [FinishHunk(s) EXCEPT !.hunks = @ + 1, !.hunk = FromHunkHeader(line),
                                   !.refused = Exceeds(limits.hunks, s.hunks + 1)]
      [] s.hunk # NONE ->
             [s EXCEPT !.rows = @ + 1, !.hunk = PushLine(@, line),
                       !.refused = Exceeds(limits.rows, s.rows + 1)]
      [] OTHER -> [s EXCEPT !.file = ApplyHeader(@, line)]

Read(s, line, next, limits) ==
    CASE s.refused -> s
      [] s.taken -> [s EXCEPT !.taken = FALSE]
      [] line.word = "diff --git" ->
             Begin(FinishFile(FinishHunk(s)), NewFile(line.rest[1], line.rest[2]), limits)
      [] s.hunk # NONE /\ IsComplete(s.hunk) /\ Prefix(line) # "\\" ->
             ReadLine(FinishHunk(s), line, next, limits)
      [] OTHER -> ReadLine(s, line, next, limits)

Total(counts) == FoldLeft(LAMBDA total, n: total + n, 0, counts)
RowsIn(file) == Total([h \in DOMAIN file.hunks |-> Len(file.hunks[h].rows)])

ExceedsLimits(files, limits) ==
    \/ Exceeds(limits.files, Len(files))
    \/ Exceeds(limits.hunks, Total([i \in DOMAIN files |-> Len(files[i].hunks)]))
    \/ Exceeds(limits.rows, Total([i \in DOMAIN files |-> RowsIn(files[i])]))

ReadToEnd(s, limits) ==
    [files |-> s.files, refused |-> s.refused \/ ExceedsLimits(s.files, limits)]

ParseRange(text, limits) ==
    LET lines == Append(text, Line("", <<>>))
    IN  ReadToEnd(FinishFile(FinishHunk(FoldLeft(LAMBDA s, i: Read(s, lines[i], lines[i + 1], limits),
                                                 Nothing, [i \in DOMAIN text |-> i]))), limits)

----------------------------------------------------------------------------
(* The sections of a patch begin where git names two paths.  *)
GitStarts(text) == SetToSortSeq({i \in DOMAIN text : text[i].word = "diff --git"}, <)
SectionsFrom(text, starts) ==
    [k \in DOMAIN starts |->
        SubSeq(text, starts[k], IF k = Len(starts) THEN Len(text) ELSE starts[k + 1] - 1)]
RawFileSegments(text) == SectionsFrom(text, GitStarts(text))

NoLimits == [files |-> NONE, hunks |-> NONE, rows |-> NONE]

IsParallel(text) == /\ text # <<>> /\ text[1].word = "diff --git"
                    /\ Len(GitStarts(text)) > 1

(* Workers take runs of sections, cut where their bytes say; the limits are *)
(* asked when all have ended.                                               *)
Runs(sections, cuts) ==
    LET ends == SetToSortSeq(cuts \cup {Len(sections)}, <)
    IN  [k \in DOMAIN ends |->
            FlattenSeq(SubSeq(sections, IF k = 1 THEN 1 ELSE ends[k - 1] + 1, ends[k]))]

Joined(files, limits) == [files |-> files, refused |-> ExceedsLimits(files, limits)]

ParseParallel(text, cuts, limits) ==
    Joined(LET runs == Runs(RawFileSegments(text), cuts)
           IN  FlattenSeq([k \in DOMAIN runs |-> ParseRange(runs[k], NoLimits).files]), limits)

----------------------------------------------------------------------------
(* The statistics keep only what a hunk has left to come.  *)
NewStat(old, new) ==
    [old |-> old, new |-> new, additions |-> 0, deletions |-> 0, binary |-> FALSE, seenHunk |-> FALSE]

ApplyStatHeader(file, line) ==
    CASE line.word \in {"Binary files", "GIT binary patch"} -> [file EXCEPT !.binary = TRUE]
      [] line.word \in {"---", "rename from", "copy from"} -> [file EXCEPT !.old = line.rest[1]]
      [] line.word \in {"+++", "rename to", "copy to"} -> [file EXCEPT !.new = line.rest[1]]
      [] OTHER -> file

FinishStat(s) ==
    IF s.file = NONE THEN s ELSE [s EXCEPT !.file = NONE, !.files = Append(@, s.file)]

CountLine(s, line) ==
    CASE Prefix(line) = "+" -> [s EXCEPT !.newLeft = @ - 1, !.file.additions = @ + 1]
      [] Prefix(line) = "-" -> [s EXCEPT !.oldLeft = @ - 1, !.file.deletions = @ + 1]
      [] Prefix(line) = "\\" -> s
      [] OTHER -> [s EXCEPT !.oldLeft = @ - 1, !.newLeft = @ - 1]

EndHunk(s) == IF s.oldLeft <= 0 /\ s.newLeft <= 0 THEN [s EXCEPT !.inHunk = FALSE] ELSE s

OrDefault(s) == IF s.file = NONE THEN [s EXCEPT !.file = NewStat(NONE, NONE)] ELSE s
NextFile(s) == IF s.file # NONE /\ s.file.seenHunk THEN FinishStat(s) ELSE s

Count(s, line) ==
    CASE s.inHunk -> EndHunk(CountLine(s, line))
      [] line.word = "diff --git" ->
             [FinishStat(s) EXCEPT !.file = NewStat(line.rest[1], line.rest[2])]
      [] line.word = "---" -> [OrDefault(NextFile(s)) EXCEPT !.file = ApplyStatHeader(@, line)]
      [] s.file = NONE -> s
      [] line.word = "@@" ->
             [s EXCEPT !.file.seenHunk = TRUE, !.inHunk = TRUE,
                       !.oldLeft = line.rest[2], !.newLeft = line.rest[4]]
      [] OTHER -> [s EXCEPT !.file = ApplyStatHeader(@, line)]

PatchStats(text) ==
    FinishStat(FoldLeft(Count, [files |-> <<>>, file |-> NONE, inHunk |-> FALSE, oldLeft |-> 0, newLeft |-> 0],
                        text)).files

----------------------------------------------------------------------------
(* A pair of files git compared in places of its own gets the name that the *)
(* user knows; modes are those of the temporary files.                      *)
Flush(s) ==
    [s EXCEPT !.lines = IF s.open /\ s.substantive THEN @ \o s.section ELSE @,
              !.open = FALSE, !.section = <<>>, !.inHunk = FALSE, !.substantive = FALSE]

Substantive(s, line) == [s EXCEPT !.section = Append(@, line), !.substantive = TRUE]

RewriteLine(s, line, path) ==
    CASE line.word = "diff --git" ->
             [Flush(s) EXCEPT !.open = TRUE, !.section = <<Line("diff --git", <<path, path>>)>>]
      [] ~s.open -> [s EXCEPT !.lines = Append(@, line)]
      [] ~s.inHunk /\ line.word \in {"old mode", "new mode"} -> s
      [] ~s.inHunk /\ line.word \in {"---", "+++"} ->
             Substantive(s, Line(line.word, <<IF line.rest[1] = NONE THEN NONE ELSE path>>))
      [] ~s.inHunk /\ line.word = "Binary files" -> Substantive(s, Line(line.word, <<path, path>>))
      [] line.word = "@@" -> [Substantive(s, line) EXCEPT !.inHunk = TRUE]
      [] line.word \in {"", "index"} -> [s EXCEPT !.section = Append(@, line)]
      [] OTHER -> Substantive(s, line)

Rewritten(text, path) ==
    Flush(FoldLeft(LAMBDA s, line: RewriteLine(s, line, path),
                   [lines |-> <<>>, open |-> FALSE, section |-> <<>>, inHunk |-> FALSE, substantive |-> FALSE],
                   text)).lines

----------------------------------------------------------------------------
(* A reload of some paths puts their files where the first of them was.  *)
MatchesScope(file, paths) ==
    \E path \in paths : {file.change.old, file.change.new} \cap Within[path] # {}

SpliceFiles(files, paths, replacement) ==
    LET hits == {i \in DOMAIN files : MatchesScope(files[i], paths)}
        kept(part) == SelectSeq(part, LAMBDA file: ~MatchesScope(file, paths))
    IN  IF hits = {} THEN files \o replacement
        ELSE kept(SubSeq(files, 1, Min(hits))) \o replacement \o kept(SubSeq(files, Min(hits), Len(files)))

IsAligned(changeset) == Len(GitStarts(changeset.raw)) = Len(changeset.files)

(* Mutant: what is new replaces every file of the paths.  *)
PutSegments_Each(files, segments, paths, replacement) ==
    FoldLeft(LAMBDA s, i:
                IF MatchesScope(files[i], paths) THEN [raw |-> s.raw \o replacement, inserted |-> TRUE]
                ELSE [s EXCEPT !.raw = @ \o segments[i]],
             [raw |-> <<>>, inserted |-> FALSE], [i \in DOMAIN files |-> i])

PutSegments(files, segments, paths, replacement) ==
    FoldLeft(LAMBDA s, i:
                CASE ~MatchesScope(files[i], paths) -> [s EXCEPT !.raw = @ \o segments[i]]
                  [] s.inserted -> s
                  [] OTHER -> [raw |-> s.raw \o replacement, inserted |-> TRUE],
             [raw |-> <<>>, inserted |-> FALSE], [i \in DOMAIN files |-> i])

Inserted(s, replacement) == IF s.inserted THEN s.raw ELSE s.raw \o replacement

SpliceRaw(changeset, paths, replacement) ==
    CASE changeset.raw = <<>> -> IF changeset.files = <<>> THEN replacement.raw ELSE <<>>
      [] ~IsAligned(changeset) \/ ~IsAligned(replacement) -> NONE
      [] OTHER ->
             Inserted(PutSegments(changeset.files, RawFileSegments(changeset.raw), paths,
                                  FlattenSeq(RawFileSegments(replacement.raw))),
                      FlattenSeq(RawFileSegments(replacement.raw)))

(* Nothing of the view changes unless the raw patches could be spliced.  *)
Spliced(changeset, paths, replacement) ==
    LET raw == SpliceRaw(changeset, paths, replacement)
    IN  IF raw = NONE THEN changeset
        ELSE [raw |-> raw, files |-> SpliceFiles(changeset.files, paths, replacement.files)]

----------------------------------------------------------------------------
(* The paths a section names, unless git had to quote one.  *)
Bodies(section) == {i \in DOMAIN section : section[i].word \in {"@@", "GIT binary patch"}}
HeaderLines(section) ==
    ToSet(SubSeq(section, 2, IF Bodies(section) = {} THEN Len(section) ELSE Min(Bodies(section)) - 1))
HeaderNames(section) ==
    {line.rest[1] : line \in {l \in HeaderLines(section) : l.word \in {"---", "+++"}}} \ {NONE}

SectionNames(section) ==
    CASE HeaderNames(section) \cap Quoted # {} -> {}
      [] HeaderNames(section) # {} -> HeaderNames(section)
      [] ToSet(section[1].rest) \cap (Quoted \cup Spaced) # {} -> {}
      [] OTHER -> ToSet(section[1].rest)

SectionsOf(sections, path) ==
    LET named == {k \in DOMAIN sections : path \in SectionNames(sections[k])}
    IN  IF Cardinality(named) = 1 THEN {sections[k] : k \in named} ELSE {}

UnchangedIn(before, after, paths) ==
    {path \in paths : SectionsOf(before, path) # {} /\ SectionsOf(before, path) = SectionsOf(after, path)}
UnchangedPaths(before, after) ==
    UnchangedIn(RawFileSegments(before), RawFileSegments(after), DOMAIN Within)

----------------------------------------------------------------------------
(* What they owe each other. *)
Before(h, i, side) == Counted(SubSeq(h.rows, 1, i - 1), OnSide(side))
NumberOn(h, i, side) ==
    IF h.rows[i].kind \in OnSide(side) THEN (IF side = "old" THEN h.old ELSE h.new) + Before(h, i, side) ELSE NONE
ExpectedHunk(h) ==
    [old |-> h.old, new |-> h.new,
     rows |-> SelectSeq([i \in DOMAIN h.rows |->
                            Row(h.rows[i].kind, NumberOn(h, i, "old"), NumberOn(h, i, "new"), h.rows[i].text)],
                        LAMBDA row: row.kind # "marker")]

ExpectedFile(f) ==
    [change |-> [status |-> IF f.status = "modified" /\ f.moded THEN "type-changed" ELSE f.status,
                 old |-> IF f.status = "added" THEN NONE ELSE f.old,
                 new |-> IF f.status = "deleted" THEN NONE ELSE f.new],
     binary |-> f.binary # NONE,
     additions |-> Total([h \in DOMAIN f.hunks |-> Counted(f.hunks[h].rows, {"addition"})]),
     deletions |-> Total([h \in DOMAIN f.hunks |-> Counted(f.hunks[h].rows, {"deletion"})]),
     hunks |-> [h \in DOMAIN f.hunks |-> ExpectedHunk(f.hunks[h])]]

StatOf(old, new, file) ==
    [path |-> Either(new, old), additions |-> file.additions, deletions |-> file.deletions, binary |-> file.binary]

(* The parser gives back what was printed, in one piece or in parallel; the *)
(* statistics count the same.  What is within the limits in one piece is    *)
(* so in parallel; the converse fails only for markers, which are counted   *)
(* as rows while they are read and are none when it is done.                *)
ReadAlike(text, parsed, expected, limits) ==
    /\ parsed = [files |-> expected, refused |-> FALSE]
    /\ [i \in DOMAIN expected |-> StatOf(expected[i].change.old, expected[i].change.new, expected[i])]
           = [i \in DOMAIN PatchStats(text) |->
                 StatOf(PatchStats(text)[i].old, PatchStats(text)[i].new, PatchStats(text)[i])]
    /\ IsParallel(text) =>
          \A cuts \in SUBSET (1..(Len(GitStarts(text)) - 1)) :
             /\ ParseParallel(text, cuts, NoLimits) = parsed
             /\ \A limit \in limits :
                   /\ ParseParallel(text, cuts, limit).refused => ParseRange(text, limit).refused
                   /\ Marker \notin ToSet(text) =>
                         ParseParallel(text, cuts, limit).refused = ParseRange(text, limit).refused

(* A pair of files has the name it is shown by, and no modes of its own.  *)
RenamedOnly(f, path) == [f EXCEPT !.old = path, !.new = path, !.moded = FALSE]
NamedAsShown(f, text, path) ==
    ParseRange(Rewritten(text, path), NoLimits).files =
        IF f.status = "modified" /\ f.hunks = <<>> /\ f.binary = NONE THEN <<>>
        ELSE <<ExpectedFile(RenamedOnly(f, path))>>

ReadersAgree(files, style, limits, path) ==
    /\ ReadAlike(Printed(files, style), ParseRange(Printed(files, style), NoLimits),
                 [i \in DOMAIN files |-> ExpectedFile(files[i])], limits)
    /\ Len(files) = 1 /\ style = "git" /\ files[1].status \notin {"renamed", "copied"} =>
          NamedAsShown(files[1], Printed(files, style), path)

(* After a reload of some paths the raw patch and the files of a view are   *)
(* still one patch and what the parser makes of it.                         *)
Changeset(text) == [raw |-> text, files |-> ParseRange(text, NoLimits).files]
StillOnePatch(changeset) ==
    changeset.raw # <<>> => ParseRange(changeset.raw, NoLimits).files = changeset.files
SplicedIsParsed(before, paths, after) ==
    StillOnePatch(Spliced(Changeset(before), paths, Changeset(after)))

(* Where the store keeps anchors of a file, the parser sees the same hunks. *)
HunksOf(files, path) ==
    {f.hunks : f \in {g \in ToSet(files) : DisplayPath(g) = path}} \ {<<>>}
UnchangedIsSame(before, after) ==
    \A path \in UnchangedPaths(before, after) :
        HunksOf(Changeset(before).files, path) = HunksOf(Changeset(after).files, path)
=============================================================================
