------------------------------ MODULE RowModel ------------------------------
(***************************************************************************)
(* The rows of a diff (crates/mark-tui/src/model.rs).  A UiModel is built  *)
(* from a document, a layout, the context a reader expanded and the lines  *)
(* known to follow the last hunk.  Small diffs keep every row; large ones  *)
(* only segments, from which a row is computed when it is asked for.  Both *)
(* answer the same questions: which row, of which file and hunk, where is  *)
(* a line, where is the next row that can be annotated.                    *)
(*                                                                         *)
(* Files, hunks, lines and rows are counted from one; zero is no line.  A  *)
(* hunk is where its sides start, as its header says, and the kinds of its *)
(* lines; the text is left out, and so are the counters of 32 bits.  Words *)
(* of bits are sets of offsets.  Ranges of candidates that touch are one   *)
(* in the code and stay two here.                                          *)
(***************************************************************************)
EXTENDS Integers, Sequences, FiniteSets, SequencesExt, FiniteSetsExt

CONSTANTS
    ChunkRows,     \* SPARSE_ANNOTATION_CANDIDATE_CHUNK_ROWS
    SegmentRows    \* MAX_SYNCHRONOUS_SPARSE_CANDIDATE_SEGMENT_ROWS

Kinds == {"context", "addition", "deletion", "meta"}
Changed == {"addition", "deletion"}
NoLine == 0

At(map, key) == IF key \in DOMAIN map THEN map[key] ELSE 0
Lowest(rows) == IF rows = {} THEN 0 ELSE Min(rows)
Highest(rows) == IF rows = {} THEN 0 ELSE Max(rows)
AtMost(a, b) == IF a < b THEN a ELSE b
AtLeast(a, b) == IF a > b THEN a ELSE b
Less(a, b) == AtLeast(a - b, 0)

Of(lines, from, to, kinds) ==
    SelectSeq([i \in 1..(to - from + 1) |-> from + i - 1], LAMBDA i: lines[i] \in kinds)
Count(lines, kinds) == Len(Of(lines, 1, Len(lines), kinds))
OldCount(h) == Count(h.lines, {"context", "deletion"})
NewCount(h) == Count(h.lines, {"context", "addition"})

(* Git writes an empty side at the line before the change. *)
NormalizedStart(start, count) == IF count = 0 THEN start + 1 ELSE start
LineAfter(start, count) == NormalizedStart(start, count) + count

----------------------------------------------------------------------------
(* What is hidden before hunk h of file f, or after the last one. *)
NextOld(hunks, h) == IF h = 1 THEN 1 ELSE LineAfter(hunks[h - 1].old, OldCount(hunks[h - 1]))
NextNew(hunks, h) == IF h = 1 THEN 1 ELSE LineAfter(hunks[h - 1].new, NewCount(hunks[h - 1]))
Collapsed(hunks, h) ==
    AtMost(Less(NormalizedStart(hunks[h].old, OldCount(hunks[h])), NextOld(hunks, h)),
           Less(NormalizedStart(hunks[h].new, NewCount(hunks[h])), NextNew(hunks, h)))

Hunks(m, f) == m.files[f].hunks

Gap(m, f, h) ==
    LET hunks == Hunks(m, f)
        lines == IF h <= Len(hunks) THEN Collapsed(hunks, h) ELSE At(m.trailing, <<f, h>>)
        shown == AtMost(At(m.expansions, <<f, h>>), lines)
    IN  [old |-> NextOld(hunks, h), new |-> NextNew(hunks, h), shown |-> shown,
         rest |-> lines - shown, up |-> h = 1 /\ h <= Len(hunks)]

CollapsedRow(f, h, g) ==
    LET skip == IF g.up THEN 0 ELSE g.shown
    IN  [row |-> "collapsed", file |-> f, hunk |-> h, old |-> g.old + skip, new |-> g.new + skip,
         lines |-> g.rest, expanded |-> g.shown]
HideRow(f, h, g) == [row |-> "hide", file |-> f, hunk |-> h, lines |-> g.shown]
ContextRow(f, old, new) == [row |-> "context", file |-> f, old |-> old, new |-> new]
SplitRow(f, h, left, right) ==
    [row |-> "split", file |-> f, hunk |-> h, left |-> left, right |-> right]

When(condition, value) == IF condition THEN <<value>> ELSE <<>>

(* The order of a gap: the first one opens upwards, towards its hunk. *)
Arranged(g, collapsed, context, hide) ==
    IF g.up THEN collapsed \o context \o hide ELSE hide \o context \o collapsed

----------------------------------------------------------------------------
(* Change runs: what a split layout sets side by side. *)
RunEnd(lines, i, kinds) ==
    Max({j \in i..Len(lines) : \A k \in i..j : lines[k] \in kinds})
StartsRun(lines, i, kinds) ==
    lines[i] \in kinds /\ (i = 1 \/ lines[i - 1] \notin kinds)

Contiguous(indexes) ==
    \A i \in 1..(Len(indexes) - 1) : indexes[i + 1] = indexes[i] + 1

Shape(lines, i) ==
    LET end == RunEnd(lines, i, Changed)
        dels == Of(lines, i, end, {"deletion"})
        adds == Of(lines, i, end, {"addition"})
    IN  [dels |-> dels, adds |-> adds, rows |-> AtLeast(Len(dels), Len(adds)),
         whole |-> Contiguous(dels) /\ Contiguous(adds)]

(* The i-th of them, by offset when they are contiguous, else by iteration. *)
Pick(indexes, whole, i) ==
    IF i > Len(indexes) THEN NoLine ELSE IF whole THEN indexes[1] + i - 1 ELSE indexes[i]

(* A block reaches over the lines that are not context, whatever they are. *)
NotContext == Kinds \ {"context"}
BlockStart(lines, i) ==
    Min({j \in 1..i : \A k \in j..i : lines[k] \in NotContext})
UnpairedFrom(lines, block) ==
    LET end == RunEnd(lines, block, NotContext)
        adds == Len(Of(lines, block, end, {"addition"}))
        dels == Of(lines, block, end, {"deletion"})
    IN  SubSeq(dels, adds + 1, Len(dels))

----------------------------------------------------------------------------
(* Every row at once. *)
GapRows(m, f, h) ==
    LET g == Gap(m, f, h)
        from == IF g.up THEN g.rest ELSE 0
    IN  Arranged(g, When(g.rest > 0 /\ m.expandable, CollapsedRow(f, h, g)),
                 [i \in 1..g.shown |-> ContextRow(f, g.old + from + i - 1, g.new + from + i - 1)],
                 When(g.shown > 0 /\ m.controls, HideRow(f, h, g)))

RunRows(f, h, lines, i) ==
    LET s == Shape(lines, i)
    IN  [p \in 1..s.rows |-> SplitRow(f, h, Pick(s.dels, s.whole, p), Pick(s.adds, s.whole, p))]

SplitRows(f, h, lines) ==
    FlattenSeq([i \in 1..Len(lines) |->
        CASE lines[i] = "context" -> <<SplitRow(f, h, i, i)>>
          [] lines[i] = "meta" -> <<[row |-> "meta", file |-> f, hunk |-> h, line |-> i]>>
          [] OTHER -> IF StartsRun(lines, i, Changed) THEN RunRows(f, h, lines, i) ELSE <<>>])

HunkRows(m, f, h) ==
    LET lines == Hunks(m, f)[h].lines
    IN  When(m.controls, [row |-> "hunk", file |-> f, hunk |-> h])
            \o IF m.layout = "split" THEN SplitRows(f, h, lines)
               ELSE [i \in 1..Len(lines) |->
                        [row |-> "unified", file |-> f, hunk |-> h, line |-> i]]

(* A file is its header and, between gaps, its hunks: the pieces of a model. *)
Piece(kind, f, h, rows) == [kind |-> kind, file |-> f, hunk |-> h, rows |-> rows]
Notice(m, f) == Hunks(m, f) = <<>>

FilePieces(m, f) ==
    <<Piece("file", f, 0, <<[row |-> "file", file |-> f]>>)>>
        \o IF Notice(m, f) THEN <<Piece("notice", f, 0, <<[row |-> "notice", file |-> f]>>)>>
           ELSE FlattenSeq([h \in 1..Len(Hunks(m, f)) |->
                    <<Piece("gap", f, h, GapRows(m, f, h)),
                      Piece("hunk", f, h, HunkRows(m, f, h))>>])
                \o <<Piece("gap", f, Len(Hunks(m, f)) + 1, GapRows(m, f, Len(Hunks(m, f)) + 1))>>

----------------------------------------------------------------------------
(* The same as segments: a kind, from which row_at makes each row. *)
Segment(len, kind) == When(len > 0, [len |-> len, kind |-> kind])

GapSegments(m, f, h) ==
    LET g == Gap(m, f, h)
        from == IF g.up THEN g.rest ELSE 0
    IN  Arranged(g, IF g.rest > 0 /\ m.expandable THEN Segment(1, CollapsedRow(f, h, g)) ELSE <<>>,
                 Segment(g.shown, [row |-> "contexts", file |-> f,
                                   old |-> g.old + from, new |-> g.new + from]),
                 IF g.shown > 0 /\ m.controls THEN Segment(1, HideRow(f, h, g)) ELSE <<>>)

(* Mutant: those an earlier run of the block used up pair again. *)
PairsLeft_Again(lines, i) ==
    LET block == BlockStart(lines, i)
    IN  Len(Of(lines, block, RunEnd(lines, block, NotContext), {"addition"}))

(* The additions of a block pair its first deletions, over several runs. *)
PairsLeft(lines, i) ==
    LET block == BlockStart(lines, i)
    IN  Less(Len(Of(lines, block, RunEnd(lines, block, NotContext), {"addition"})),
             Len(Of(lines, block, i - 1, {"deletion"})))

RunSegments(f, h, lines, i) ==
    LET s == Shape(lines, i)
        paired == AtMost(PairsLeft(lines, i), Len(s.dels))
        first(indexes) == IF indexes = <<>> THEN NoLine ELSE indexes[1]
    IN  IF s.whole
        THEN Segment(s.rows, [row |-> "run", file |-> f, hunk |-> h, paired |-> paired,
                              left |-> first(s.dels), lefts |-> Len(s.dels),
                              right |-> first(s.adds), rights |-> Len(s.adds)])
        ELSE FlattenSeq([p \in 1..s.rows |->
                Segment(1, [row |-> "pair", file |-> f, hunk |-> h,
                            left |-> Pick(s.dels, FALSE, p),
                            leftCandidate |-> p > paired /\ p <= Len(s.dels),
                            right |-> Pick(s.adds, FALSE, p)])])

SplitSegments(f, h, lines) ==
    FlattenSeq([i \in 1..Len(lines) |->
        CASE StartsRun(lines, i, {"context"}) ->
                Segment(RunEnd(lines, i, {"context"}) - i + 1,
                        [row |-> "contexts of hunk", file |-> f, hunk |-> h, line |-> i])
          [] StartsRun(lines, i, {"meta"}) ->
                Segment(RunEnd(lines, i, {"meta"}) - i + 1,
                        [row |-> "metas", file |-> f, hunk |-> h, line |-> i])
          [] StartsRun(lines, i, Changed) -> RunSegments(f, h, lines, i)
          [] OTHER -> <<>>])

HunkSegments(m, f, h) ==
    LET lines == Hunks(m, f)[h].lines
    IN  (IF m.controls THEN Segment(1, [row |-> "hunk", file |-> f, hunk |-> h]) ELSE <<>>)
            \o IF m.layout = "split" THEN SplitSegments(f, h, lines)
               ELSE Segment(Len(lines), [row |-> "unifieds", file |-> f, hunk |-> h, line |-> 1])

FileSegments(m, f) ==
    <<Piece("file", f, 0, Segment(1, [row |-> "file", file |-> f]))>>
        \o IF Notice(m, f) THEN <<Piece("notice", f, 0, Segment(1, [row |-> "notice", file |-> f]))>>
           ELSE FlattenSeq([h \in 1..Len(Hunks(m, f)) |->
                    <<Piece("gap", f, h, GapSegments(m, f, h)),
                      Piece("hunk", f, h, HunkSegments(m, f, h))>>])
                \o <<Piece("gap", f, Len(Hunks(m, f)) + 1, GapSegments(m, f, Len(Hunks(m, f)) + 1))>>

(* The row at an offset of a segment. *)
RowAt(kind, offset) ==
    CASE kind.row = "contexts" -> ContextRow(kind.file, kind.old + offset, kind.new + offset)
      [] kind.row = "unifieds" ->
            [row |-> "unified", file |-> kind.file, hunk |-> kind.hunk, line |-> kind.line + offset]
      [] kind.row = "contexts of hunk" ->
            SplitRow(kind.file, kind.hunk, kind.line + offset, kind.line + offset)
      [] kind.row = "metas" ->
            [row |-> "meta", file |-> kind.file, hunk |-> kind.hunk, line |-> kind.line + offset]
      [] kind.row = "run" ->
            SplitRow(kind.file, kind.hunk,
                     IF offset < kind.lefts THEN kind.left + offset ELSE NoLine,
                     IF offset < kind.rights THEN kind.right + offset ELSE NoLine)
      [] kind.row = "pair" -> SplitRow(kind.file, kind.hunk, kind.left, kind.right)
      [] OTHER -> kind

----------------------------------------------------------------------------
(* A model: its rows or segments, and where each file and hunk is in it.  *)
(* Ranges of rows begin at from and end before to.                        *)
Total(lengths) == FoldLeft(LAMBDA a, b: a + b, 0, lengths)
Starts(lengths) == [i \in 1..Len(lengths) |-> 1 + Total(SubSeq(lengths, 1, i - 1))]

Index(pieces, lengths) ==
    LET starts == Starts(lengths)
        all(kind) == SelectSeq([i \in 1..Len(pieces) |-> i], LAMBDA i: pieces[i].kind = kind)
        files == all("file")
        hunks == all("hunk")
    IN  [count |-> Total(lengths),
         files |-> [k \in 1..Len(files) |->
                        [file |-> pieces[files[k]].file, from |-> starts[files[k]]]],
         hunks |-> [k \in 1..Len(hunks) |->
                        [file |-> pieces[hunks[k]].file, hunk |-> pieces[hunks[k]].hunk,
                         from |-> starts[hunks[k]],
                         to |-> starts[hunks[k]] + lengths[hunks[k]]]]]

RowsOf(pieces) == FlattenSeq([i \in 1..Len(pieces) |-> pieces[i].rows])
EagerOf(pieces) ==
    [index |-> Index(pieces, [i \in 1..Len(pieces) |-> Len(pieces[i].rows)]), rows |-> RowsOf(pieces)]
EagerModel(m) == EagerOf(FlattenSeq([v \in 1..Len(m.visible) |-> FilePieces(m, m.visible[v])]))

Lengths(segments) == [i \in 1..Len(segments) |-> segments[i].len]
Ranged(segments, starts) ==
    [i \in 1..Len(segments) |->
        [from |-> starts[i], to |-> starts[i] + segments[i].len, kind |-> segments[i].kind]]
SegmentsOf(segments) == Ranged(segments, Starts(Lengths(segments)))
SparseOf(pieces) ==
    [index |-> Index(pieces, [i \in 1..Len(pieces) |-> Total(Lengths(pieces[i].rows))]),
     segments |-> SegmentsOf(RowsOf(pieces))]
SparseModel(m) == SparseOf(FlattenSeq([v \in 1..Len(m.visible) |-> FileSegments(m, m.visible[v])]))

(* How many of them come at or before a row: the code searches by halves. *)
UpTo(sequence, row) == Cardinality({i \in 1..Len(sequence) : sequence[i].from <= row})

SparseRow(sparse, row) ==
    LET segment == sparse.segments[UpTo(sparse.segments, row)]
    IN  RowAt(segment.kind, row - segment.from)

FileAtRow(index, row) == index.files[AtLeast(UpTo(index.files, row), 1)].file

HunkRange(index, f, h) ==
    LET k == CHOOSE k \in 1..Len(index.hunks) : index.hunks[k].file = f /\ index.hunks[k].hunk = h
    IN  index.hunks[k]

NextHunkRow(index, row) ==
    LET later == SelectSeq(index.hunks, LAMBDA k: k.from > row)
    IN  IF later = <<>> THEN 0 ELSE later[1].from
PreviousHunkRow(index, row) ==
    LET earlier == SelectSeq(index.hunks, LAMBDA k: k.from < row)
    IN  IF earlier = <<>> THEN 0 ELSE earlier[Len(earlier)].from

ContextLineRow(rows, f, side, line) ==
    Lowest({r \in 1..Len(rows) : rows[r].row = "context" /\ rows[r].file = f /\ rows[r][side] = line})
SparseContextLineRow(segments, f, side, line) ==
    Lowest({segments[i].from + line - segments[i].kind[side] :
              i \in {i \in 1..Len(segments) :
                        /\ segments[i].kind.row = "contexts" /\ segments[i].kind.file = f
                        /\ line - segments[i].kind[side] \in 0..(segments[i].to - segments[i].from - 1)}})

HasLine(row, f, h, line) ==
    \/ row.row \in {"unified", "meta"} /\ row.file = f /\ row.hunk = h /\ row.line = line
    \/ row.row = "split" /\ row.file = f /\ row.hunk = h /\ line \in {row.left, row.right}

DiffLineRow(eager, f, h, line) ==
    LET range == HunkRange(eager.index, f, h)
    IN  Lowest({r \in range.from..(range.to - 1) : HasLine(eager.rows[r], f, h, line)})

(* Where a segment has a line, if it does: at an offset. *)
LineOffset(kind, len, line) ==
    LET within(start, count) == line - start \in 0..(count - 1)
    IN  CASE kind.row \in {"unifieds", "contexts of hunk", "metas"} /\ within(kind.line, len) ->
                line - kind.line
          [] kind.row = "run" /\ within(kind.left, kind.lefts) -> line - kind.left
          [] kind.row = "run" /\ ~within(kind.left, kind.lefts) /\ within(kind.right, kind.rights) ->
                line - kind.right
          [] kind.row = "pair" /\ line \in {kind.left, kind.right} -> 0
          [] OTHER -> -1

SparseDiffLineRow(sparse, f, h, line) ==
    LET range == HunkRange(sparse.index, f, h)
        inside == {s \in ToSet(sparse.segments) : s.to > range.from /\ s.from < range.to}
        offset(s) == LineOffset(s.kind, s.to - s.from, line)
    IN  Lowest({s.from + offset(s) : s \in {s \in inside : offset(s) >= 0}})

----------------------------------------------------------------------------
(* The rows a note can be put on.  Blocks of them are built with the rows, *)
(* or for a segment when a search reaches it.                              *)
RangeBlock(from, to) == When(from < to, [block |-> "range", from |-> from, to |-> to])

ChangeBlock(lines, i, row) ==
    LET end == RunEnd(lines, i, NotContext)
        adds == Of(lines, i, end, {"addition"})
        dels == UnpairedFrom(lines, i)
        ends(indexes) == IF indexes = <<>> THEN <<>> ELSE <<indexes[1] - i, indexes[Len(indexes)] - i>>
    IN  When(adds # <<>> \/ dels # <<>>,
             [block |-> "change", from |-> row, to |-> row + end - i + 1,
              lines |-> SubSeq(lines, i, end), adds |-> ends(adds), dels |-> ends(dels)])

UnifiedBlocks(lines, row) ==
    FlattenSeq([i \in 1..Len(lines) |->
        CASE StartsRun(lines, i, {"context"}) ->
                RangeBlock(row + i - 1, row + RunEnd(lines, i, {"context"}))
          [] StartsRun(lines, i, NotContext) -> ChangeBlock(lines, i, row + i - 1)
          [] OTHER -> <<>>])

DirectCandidate(m, row) ==
    \/ row.row = "context"
    \/ row.row = "split" /\ row.right # NoLine
    \/ /\ row.row = "split" /\ row.right = NoLine
       /\ LET lines == Hunks(m, row.file)[row.hunk].lines
              unpaired == UnpairedFrom(lines, BlockStart(lines, row.left))
          IN  unpaired # <<>> /\ row.left >= unpaired[1]

Follows(rows, r) ==
    /\ r > 1 /\ rows[r - 1].row = "unified"
    /\ rows[r - 1].file = rows[r].file /\ rows[r - 1].hunk = rows[r].hunk
    /\ rows[r - 1].line + 1 = rows[r].line

EagerBlocks(m, rows) ==
    FlattenSeq([r \in 1..Len(rows) |->
        IF rows[r].row = "unified"
        THEN IF Follows(rows, r) THEN <<>> ELSE UnifiedBlocks(Hunks(m, rows[r].file)[rows[r].hunk].lines, r)
        ELSE IF DirectCandidate(m, rows[r]) THEN RangeBlock(r, r + 1) ELSE <<>>])

(* A large hunk: chunks of rows with a set of offsets. *)
ChunkBlocks(lines, row) ==
    LET candidate(i) ==
            \/ lines[i] \in {"context", "addition"}
            \/ lines[i] = "deletion" /\ i \in ToSet(UnpairedFrom(lines, BlockStart(lines, i)))
        bits(chunk) == {offset \in 0..(ChunkRows - 1) :
                            LET i == chunk * ChunkRows + offset + 1
                            IN  i <= Len(lines) /\ candidate(i)}
    IN  FlattenSeq([k \in 1..((Len(lines) + ChunkRows - 1) \div ChunkRows) |->
            When(bits(k - 1) # {},
                 [block |-> "chunk", from |-> row + (k - 1) * ChunkRows,
                  to |-> row + AtMost(k * ChunkRows, Len(lines)), bits |-> bits(k - 1)])])

SegmentBlocks(m, s) ==
    CASE s.kind.row = "unifieds" -> ChunkBlocks(Hunks(m, s.kind.file)[s.kind.hunk].lines, s.from)
      [] s.kind.row \in {"contexts", "contexts of hunk"} -> RangeBlock(s.from, s.to)
      [] s.kind.row = "run" ->
            RangeBlock(s.from, s.from + s.kind.rights)
                \o RangeBlock(s.from + AtLeast(s.kind.paired, s.kind.rights), s.from + s.kind.lefts)
      [] s.kind.row = "pair" ->
            IF s.kind.leftCandidate \/ s.kind.right # NoLine THEN RangeBlock(s.from, s.to) ELSE <<>>
      [] OTHER -> <<>>

(* Within a change, the offset of the nearest line of a kind. *)
OffsetsFrom(b, offset, ends, kind) ==
    IF ends = <<>> THEN {}
    ELSE IF offset <= ends[1] THEN {ends[1]}
    ELSE {o \in offset..ends[2] : b.lines[o + 1] = kind}
OffsetsTo(b, offset, ends, kind) ==
    IF ends = <<>> THEN {}
    ELSE IF offset >= ends[2] THEN {ends[2]}
    ELSE {o \in ends[1]..offset : b.lines[o + 1] = kind}

(* What a block offers at or after a row, or at or before it: zero for none. *)
AtOrAfter(b, row) ==
    LET offset == AtLeast(row, b.from) - b.from
    IN  IF offset >= b.to - b.from THEN 0
        ELSE CASE b.block = "range" -> b.from + offset
               [] b.block = "change" ->
                    Lowest({b.from + o : o \in OffsetsFrom(b, offset, b.adds, "addition")
                                               \cup OffsetsFrom(b, offset, b.dels, "deletion")})
               [] b.block = "chunk" -> Lowest({b.from + o : o \in {o \in b.bits : o >= offset}})

AtOrBefore(b, row) ==
    LET offset == AtMost(row, b.to - 1) - b.from
    IN  IF row < b.from THEN 0
        ELSE CASE b.block = "range" -> b.from + offset
               [] b.block = "change" ->
                    Highest({b.from + o : o \in OffsetsTo(b, offset, b.adds, "addition")
                                                \cup OffsetsTo(b, offset, b.dels, "deletion")})
               [] b.block = "chunk" -> Highest({b.from + o : o \in {o \in b.bits : o <= offset}})

FirstAfter(blocks, row) ==
    LET offers == SelectSeq([i \in 1..Len(blocks) |-> AtOrAfter(blocks[i], row)],
                            LAMBDA offer: offer # 0)
    IN  IF offers = <<>> THEN 0 ELSE offers[1]
LastBefore(blocks, row) ==
    LET offers == SelectSeq([i \in 1..Len(blocks) |-> AtOrBefore(blocks[i], row)],
                            LAMBDA offer: offer # 0)
    IN  IF offers = <<>> THEN 0 ELSE offers[Len(offers)]

Candidate(row) == [is |-> "candidate", row |-> row]
Unindexed == [is |-> "unindexed"]
Exhausted == [is |-> "exhausted"]
FoundOr(row, otherwise) == IF row = 0 THEN otherwise ELSE Candidate(row)

(* A hunk beyond the limit is not indexed: a boundary, not a place without *)
(* candidates.                                                             *)
Bounded(s) == s.kind.row # "unifieds" \/ s.to - s.from <= SegmentRows
BlocksOf(m, s) == IF Bounded(s) THEN SegmentBlocks(m, s) ELSE <<>>

SparseAfter(m, segments, row) ==
    LET offer(i) == FirstAfter(BlocksOf(m, segments[i]), row)
        stops == {i \in AtLeast(UpTo(segments, row), 1)..Len(segments) :
                      ~Bounded(segments[i]) \/ offer(i) # 0}
    IN  IF stops = {} THEN Exhausted ELSE FoundOr(offer(Min(stops)), Unindexed)

SparseBefore(m, segments, row) ==
    LET offer(i) == LastBefore(BlocksOf(m, segments[i]), row)
        stops == {i \in 1..UpTo(segments, row) : ~Bounded(segments[i]) \/ offer(i) # 0}
    IN  IF stops = {} THEN Exhausted ELSE FoundOr(offer(Max(stops)), Unindexed)

----------------------------------------------------------------------------
(* What the two representations owe each other, and a document its rows. *)
DiffLines(m) ==
    {<<v, h, i>> \in ToSet(m.visible) \X (1..20) \X (1..20) :
        h <= Len(Hunks(m, v)) /\ i <= Len(Hunks(m, v)[h].lines)}

(* A search over segments finds what a search over all rows finds, or stops *)
(* at a hunk it did not index before it has passed any candidate.           *)
SameAfter(row, found, sparsely, unbounded) ==
    \/ sparsely = FoundOr(found, Exhausted)
    \/ sparsely = Unindexed /\ \E s \in unbounded : s.to > row /\ (found # 0 => s.from <= found)
SameBefore(row, found, sparsely, unbounded) ==
    \/ sparsely = FoundOr(found, Exhausted)
    \/ sparsely = Unindexed /\ \E s \in unbounded : s.from <= row /\ s.to > found

SameFinds(m, rows, blocks, segments, unbounded) ==
    \A row \in 1..(Len(rows) + 1) :
        /\ SameAfter(row, FirstAfter(blocks, row), SparseAfter(m, segments, row), unbounded)
        /\ SameBefore(row, LastBefore(blocks, row), SparseBefore(m, segments, row), unbounded)
SameSearches(m, eager, sparse) ==
    SameFinds(m, eager.rows, EagerBlocks(m, eager.rows), sparse.segments,
              {s \in ToSet(sparse.segments) : ~Bounded(s)})

SameAnswers(m, eager, sparse) ==
    /\ sparse.index = eager.index
    /\ \A row \in 1..Len(eager.rows) : SparseRow(sparse, row) = eager.rows[row]
    /\ \A l \in DiffLines(m) :
          SparseDiffLineRow(sparse, l[1], l[2], l[3]) = DiffLineRow(eager, l[1], l[2], l[3])
    /\ \A f \in ToSet(m.visible), side \in {"old", "new"}, line \in 1..12 :
          SparseContextLineRow(sparse.segments, f, side, line)
              = ContextLineRow(eager.rows, f, side, line)

(* The number a line of a hunk has on a side, and those a row stands for. *)
OnSide == [old |-> {"context", "deletion"}, new |-> {"context", "addition"}]
NumberOf(h, side, line) ==
    NormalizedStart(h[side], Count(h.lines, OnSide[side]))
        + Len(Of(h.lines, 1, line - 1, OnSide[side]))
Numbers(m, row, side) ==
    LET at(line) == LET h == Hunks(m, row.file)[row.hunk]
                    IN  When(line # NoLine /\ h.lines[line] \in OnSide[side], NumberOf(h, side, line))
    IN  CASE row.row = "collapsed" -> [i \in 1..row.lines |-> row[side] + i - 1]
          [] row.row = "context" -> <<row[side]>>
          [] row.row = "unified" -> at(row.line)
          [] row.row = "split" -> at(IF side = "old" THEN row.left ELSE row.right)
          [] OTHER -> <<>>

(* Every line of a hunk is in one row; the lines of a file, shown and       *)
(* hidden, count up from one without a gap on either side; the index and    *)
(* the rows tell of the same files and hunks.                               *)
RowsTellDocument(m, eager) ==
    /\ \A l \in DiffLines(m) :
          Cardinality({r \in 1..Len(eager.rows) : HasLine(eager.rows[r], l[1], l[2], l[3])}) = 1
    /\ m.expandable =>
          \A f \in ToSet(m.visible), side \in {"old", "new"} :
              LET mine == SelectSeq(eager.rows, LAMBDA r: r.file = f)
                  numbers == FlattenSeq([i \in 1..Len(mine) |-> Numbers(m, mine[i], side)])
              IN  numbers = [i \in 1..Len(numbers) |-> i]
    /\ \A r \in 1..Len(eager.rows) :
          /\ FileAtRow(eager.index, r) = eager.rows[r].file
          /\ \A k \in ToSet(eager.index.hunks) :
                r \in k.from..(k.to - 1)
                    <=> /\ eager.rows[r].row \in {"hunk", "unified", "split", "meta"}
                        /\ eager.rows[r].file = k.file /\ eager.rows[r].hunk = k.hunk
          /\ NextHunkRow(eager.index, r) # 0 =>
                PreviousHunkRow(eager.index, NextHunkRow(eager.index, r)) <= r

ModelsAgree(m, eager, sparse) ==
    SameAnswers(m, eager, sparse) /\ SameSearches(m, eager, sparse) /\ RowsTellDocument(m, eager)
ModelIsRight(m) == ModelsAgree(m, EagerModel(m), SparseModel(m))
=============================================================================
