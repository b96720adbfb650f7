---------------------------- MODULE DocumentView ----------------------------
(***************************************************************************)
(* The document a view shows and the rows made of it                       *)
(* (crates/mark-tui/src/app: context.rs, context/, filters.rs, layout.rs,  *)
(* diff_replace.rs, navigation/focus.rs).  A reader expands what is hidden *)
(* between hunks, looks at whole files, filters, wraps lines and changes   *)
(* the layout or the comparison.  Threads read the sources of the files on *)
(* screen, count the lines behind their last hunks and search; meanwhile   *)
(* the files change and the diff is loaded again.  Every one of these      *)
(* replaces the rows, and all of them must leave the rows of what the view *)
(* is then about.                                                          *)
(*                                                                         *)
(* The repository is a sequence of versions, each with the files of every  *)
(* comparison and the number of lines of every source.  What is scrolled   *)
(* to is a file; the viewport is as small as a file, or shows all of them. *)
(* DiffLoad has the choice and the order of loads, LiveDiff the watcher.   *)
(***************************************************************************)
EXTENDS RowModel, TLC

CONSTANTS
    Options,       \* the comparisons a reader can choose
    Watched,       \* those a watcher follows: live_diff_supported
    Sourceless,    \* those without sources to read context from
    Bare,          \* those that offer no context: show_context_expansion_controls
    Versions,      \* the repository: a sequence of [files, lines, large]
    NoQuery,       \* the empty filter
    NONE,
    Scenarios      \* the beginnings and budgets of a run

VARIABLES
    disk,          \* the version of the repository
    app,           \* the document, the viewport, the filters and the jobs of a DiffApp
    left           \* what may still happen: a budget of the run

vars == <<disk, app, left>>

Layouts == {"split", "unified"}
Sides == <<"new", "old">>
Without(map, keys) == [k \in DOMAIN map \ keys |-> map[k]]
Present(a) == DOMAIN a.files
EveryFile(a) == [f \in Present(a) |-> f]

----------------------------------------------------------------------------
(* The document: what has a source, and what the whole of a file adds. *)
HasSource(a, f, side) == a.option \notin Sourceless /\ side \in a.files[f].sides
HasFull(a, f) == a.files[f].hunks # <<>> /\ \E side \in ToSet(Sides) : HasSource(a, f, side)
FullActive(a) == a.full /\ \E f \in Present(a) : HasFull(a, f)

Trailing(a, f) == <<f, Len(a.files[f].hunks) + 1>>

FullExpansions(a) ==
    LET hidden(k) == LET hunks == a.files[k[1]].hunks
                     IN  IF k[2] <= Len(hunks) THEN Collapsed(hunks, k[2]) ELSE At(a.trailing, k)
        keys == {k \in UNION {{f} \X (1..Trailing(a, f)[2]) : f \in {f \in Present(a) : HasFull(a, f)}} :
                     hidden(k) > 0}
    IN  [k \in keys |-> hidden(k)]

(* How many of the lines of a source are there from a line on. *)
FromLine(start, lines) == Less(lines, start - 1)
Behind(a, f, side, lines) ==
    LET last == a.files[f].hunks[Len(a.files[f].hunks)]
    IN  FromLine(LineAfter(last[side], Count(last.lines, OnSide[side])), lines)

----------------------------------------------------------------------------
(* The sources read so far: context_cache. *)
Loading == [is |-> "loading"]
Unavailable == [is |-> "unavailable"]
NoSource == [is |-> "no source"]

LinesOf(a, f, side) == Versions[disk].lines[a.option][a.files[f].path][side]
Read(a, f, side) ==
    IF LinesOf(a, f, side) = 0 THEN Unavailable
    ELSE [is |-> "lines", lines |-> LinesOf(a, f, side), of |-> disk]

SideOrder(a, f) ==
    IF Trailing(a, f) \in DOMAIN a.sides /\ a.sides[Trailing(a, f)] = "old" THEN <<"old", "new">> ELSE Sides

(* The first side in order that can be read, which is then cached; a side *)
(* that is being loaded is not waited for.                                *)
Ask(a, f) ==
    LET order == SideOrder(a, f)
        entry(side) == IF <<f, side>> \in DOMAIN a.cache THEN a.cache[<<f, side>>]
                       ELSE IF HasSource(a, f, side) THEN Read(a, f, side) ELSE NoSource
        tried == IF entry(order[1]).is \in {"lines", "loading"} THEN {order[1]} ELSE ToSet(order)
        answer == {side \in tried : entry(side).is = "lines"}
        known == {side \in tried : entry(side) # NoSource}
    IN  [side |-> IF answer = {} THEN NONE ELSE CHOOSE side \in answer : TRUE,
         lines |-> IF answer = {} THEN 0 ELSE entry(CHOOSE side \in answer : TRUE).lines,
         app |-> [a EXCEPT !.cache = [k \in {<<f, side>> : side \in known} |-> entry(k[2])] @@ @]]

Cancelled(a) ==
    IF a.loader = NONE THEN a
    ELSE [a EXCEPT !.loader = NONE,
                   !.cache = Without(@, {k \in DOMAIN a.loader.keys \cap DOMAIN @ : @[k] = Loading})]

LoadedNow(a, files) ==
    FoldSet(LAMBDA f, b: Ask(b, f).app, Cancelled(a), {f \in files : \E k \in DOMAIN a.expansions : k[1] = f})

----------------------------------------------------------------------------
(* The rows: replace_model, and what is on screen of them. *)
OnScreen(a, visible) ==
    LET seen == (IF a.tall THEN ToSet(a.model.visible) ELSE {a.top}) \cap ToSet(visible)
    IN  IF seen # {} \/ visible = <<>> THEN seen ELSE {visible[1]}

ModelFor(a, layout, visible, controls, expandable, expansions) ==
    [files |-> [f \in Present(a) |-> [hunks |-> a.files[f].hunks]],
     layout |-> layout, visible |-> visible, controls |-> controls, expandable |-> expandable,
     expansions |-> expansions, trailing |-> a.trailing]

Synced(a) == IF FullActive(a) THEN [a EXCEPT !.expansions = FullExpansions(a)] ELSE a
LaidOut(a, visible) == IF FullActive(a) /\ a.wrapping THEN LoadedNow(a, OnScreen(a, visible)) ELSE a

Replaced(a, visible) ==
    LET b == LaidOut(Synced(a), visible)
    IN  [b EXCEPT !.model = ModelFor(b, b.layout, visible, ~FullActive(b), b.option \notin Bare, b.expansions)]

(* What a query finds: the files it leaves visible, and lines in them; the *)
(* line zero is the header of the hunk.                                    *)
Search(a, query) ==
    LET hits(f) == IF query = NoQuery THEN <<>> ELSE a.files[f].matches[query]
    IN  [visible |-> SelectSeq(EveryFile(a), LAMBDA f: query = NoQuery \/ hits(f) # <<>>),
         matches |-> {<<f, hit>> \in Present(a) \X UNION {ToSet(hits(f)) : f \in Present(a)} :
                          hit \in ToSet(hits(f))}]

MatchRow(m, eager, f, hit) ==
    IF hit[2] # NoLine THEN DiffLineRow(eager, f, hit[1], hit[2])
    ELSE IF m.controls THEN HunkRange(eager.index, f, hit[1]).from ELSE 0
MatchRowsIn(m, eager, matches) == {MatchRow(m, eager, match[1], match[2]) : match \in matches} \ {0}
MatchRows(m, matches) == IF matches = {} THEN {} ELSE MatchRowsIn(m, EagerModel(m), matches)

(* What was found is kept with the rows it was looked up in. *)
NoMatches == [of |-> NONE, found |-> {}]
Matched(a, matches) == [a EXCEPT !.matches = [of |-> a.model, found |-> matches], !.dirty = TRUE]

Showing(a, found) == Matched(Replaced(a, found.visible), found.matches)
Rebuilt(a) == Showing(a, Search(a, a.query))

----------------------------------------------------------------------------
(* Context: context.rs *)
Noticed(a) == [a EXCEPT !.dirty = TRUE]

(* A row of hidden lines shows as many of them as its source has. *)
Expanded(a, k, lines) == Rebuilt([a EXCEPT !.expansions = (k :> lines) @@ @])

ExpandTo(k, g, asked, available) ==
    IF asked.side = NONE \/ available <= g.shown THEN Noticed(asked.app)
    ELSE Expanded(asked.app, k, available)

ExpandFrom(k, g, asked) == ExpandTo(k, g, asked, AtMost(FromLine(g[asked.side], asked.lines), g.shown + g.rest))
ExpandAt(a, f, h) == ExpandFrom(<<f, h>>, Gap(a.model, f, h), Ask(a, f))

Counted(a, f, asked) ==
    [asked.app EXCEPT !.trailing = (Trailing(a, f) :> Behind(a, f, asked.side, asked.lines)) @@ @,
                      !.sides = (Trailing(a, f) :> asked.side) @@ @]

ExpandCounted(a, k) ==
    IF At(a.expansions, k) >= a.trailing[k] THEN Noticed(a) ELSE Expanded(a, k, a.trailing[k])

ExpandAsked(a, f, asked) ==
    IF asked.side = NONE THEN Noticed(asked.app) ELSE ExpandCounted(Counted(a, f, asked), Trailing(a, f))
ExpandTrailing(a, f) == ExpandAsked(a, f, Ask(a, f))

Hide(a, k) == Rebuilt([a EXCEPT !.expansions = Without(@, {k})])

(* What was not counted because it was large is counted again. *)
Retried(a) ==
    [a EXCEPT !.counter = NONE,
              !.trailing = Without(@, {k \in DOMAIN @ :
                  /\ @[k] = 0 /\ k \notin DOMAIN a.sides
                  /\ \E side \in ToSet(Sides) : HasSource(a, k[1], side)})]

Turned(a, b) ==
    Rebuilt(IF FullActive(b) THEN Retried(b)
            ELSE IF FullActive(a) THEN [Cancelled(b) EXCEPT !.expansions = <<>>] ELSE b)
SetFull(a, on) == Turned(a, [a EXCEPT !.full = on])

CollapseAll(a) == IF FullActive(a) THEN SetFull(a, FALSE) ELSE Rebuilt([a EXCEPT !.expansions = <<>>])

SetLayout(a, layout) == Rebuilt([a EXCEPT !.layout = layout])

SetWrapping(a, on) ==
    LET b == IF on /\ FullActive(a) THEN LoadedNow(a, OnScreen(a, a.model.visible)) ELSE a
    IN  [b EXCEPT !.wrapping = on, !.dirty = TRUE]

(* After a visit to the editor: a line left behind the last hunk is shown     *)
(* with what follows it.                                                      *)
RestoreCounted(a, k) == IF a.trailing[k] = 0 THEN a ELSE Expanded(a, k, a.trailing[k])
RestoreAsked(a, f, asked) ==
    IF asked.side = NONE THEN asked.app ELSE RestoreCounted(Counted(a, f, asked), Trailing(a, f))
RestoreTrailing(a, f, behind) ==
    LET loaded == LoadedNow(a, {f})
    IN  IF ~FullActive(a) THEN a
        ELSE IF behind /\ a.files[f].hunks # <<>> THEN RestoreAsked(a, f, Ask(loaded, f)) ELSE loaded

----------------------------------------------------------------------------
(* Filters: filters.rs.  The search is a thread of its own; what was typed *)
(* since it began makes its answer worthless.                              *)
FilterBusy(a) == a.searching \/ a.pending # NONE \/ a.searcher # NONE

Schedule(a, query) ==
    [a EXCEPT !.query = query, !.typed = @ + 1, !.pending = a.typed + 1, !.searcher = NONE,
              !.searching = TRUE, !.dirty = TRUE]

BeginSearch(a) ==
    [a EXCEPT !.pending = NONE, !.searching = TRUE, !.dirty = TRUE,
              !.searcher = [typed |-> a.pending, query |-> a.query, done |-> FALSE,
                            found |-> Search(a, a.query)]]

(* The file on top stays if it is still visible. *)
OnTop(a, visible) ==
    [a EXCEPT !.top = IF @ \in ToSet(visible) \/ visible = <<>> THEN @ ELSE visible[1]]

(* Rows already those of the same files are kept. *)
ApplyFound(a, found) ==
    LET same == ~FullActive(a) /\ a.model.visible = found.visible
        b == IF same THEN a ELSE Replaced(a, found.visible)
    IN  OnTop(Matched(b, found.matches), found.visible)

DrainSearch(a) ==
    LET taken == [a EXCEPT !.searcher = NONE]
    IN  IF a.searcher.typed # a.typed \/ a.searcher.query # a.query THEN taken
        ELSE ApplyFound([taken EXCEPT !.searching = FALSE], a.searcher.found)

----------------------------------------------------------------------------
(* Drawing asks for the sources of what is on screen, then for the lines   *)
(* behind the last hunks: context/loading.rs, context/trailing.rs.         *)
CachedLines(a, k) == k \in DOMAIN a.cache /\ a.cache[k].is = "lines"

(* The sides of a file to read, in order, unless one before them is known. *)
Requests(a, f) ==
    LET order == SideOrder(a, f)
        wanted(i) == /\ <<f, order[i]>> \notin DOMAIN a.cache /\ HasSource(a, f, order[i])
                     /\ \A j \in 1..i : ~CachedLines(a, <<f, order[j]>>)
    IN  When(wanted(1), order[1]) \o When(wanted(2), order[2])

QueueContext(a) ==
    LET expanded == {f \in OnScreen(a, a.model.visible) : \E k \in DOMAIN a.expansions : k[1] = f}
        asked == {f \in expanded : Requests(a, f) # <<>>}
        keys == UNION {{<<f, side>> : side \in ToSet(Requests(a, f))} : f \in asked}
    IN  IF ~FullActive(a) \/ a.loader # NONE \/ asked = {} THEN a
        ELSE [a EXCEPT !.loader = [generation |-> a.generation, keys |-> [k \in keys |-> Unavailable],
                                   groups |-> [f \in asked |-> Requests(a, f)], done |-> "no"],
                       !.cache = [k \in keys |-> Loading] @@ @]

(* What a file can be counted from, new lines first. *)
Candidates(a, f) ==
    SelectSeq(Sides, LAMBDA side: \/ CachedLines(a, <<f, side>>)
                                  \/ <<f, side>> \notin DOMAIN a.cache /\ HasSource(a, f, side))
SourceLoading(a, f) == \E side \in ToSet(Sides) : <<f, side>> \in DOMAIN a.cache /\ a.cache[<<f, side>>] = Loading

(* Mutant: a file whose source is being loaded has nothing behind its hunks. *)
Hopeless_Loading(a, f) == Candidates(a, f) = <<>>

Hopeless(a, f) == Candidates(a, f) = <<>> /\ ~SourceLoading(a, f)

Discover(a) ==
    LET new == {f \in OnScreen(a, a.model.visible) :
                    a.files[f].hunks # <<>> /\ Trailing(a, f) \notin DOMAIN a.trailing}
        asked == {f \in new : Candidates(a, f) # <<>>}
        known(k) == IF CachedLines(a, k) THEN a.cache[k].lines ELSE 0
        b == [a EXCEPT !.trailing = [k \in {Trailing(a, f) : f \in {f \in new : Hopeless(a, f)}} |-> 0] @@ @]
    IN  IF a.counter # NONE THEN a
        ELSE IF asked = {} THEN b
        ELSE [b EXCEPT !.counter =
                 [generation |-> a.generation, limited |-> ~FullActive(a), done |-> FALSE, found |-> <<>>,
                  asked |-> [f \in asked |-> [i \in 1..Len(Candidates(a, f)) |->
                      [side |-> Candidates(a, f)[i], cached |-> known(<<f, Candidates(a, f)[i]>>)]]]]]

Drawn(a) == Discover([QueueContext(a) EXCEPT !.dirty = FALSE])

----------------------------------------------------------------------------
(* The threads, and what the loop does with their answers. *)

(* The first side of a file that can be read is enough. *)
Loaded(a) ==
    LET first(f) == LET readable == SelectSeq(a.loader.groups[f], LAMBDA side: LinesOf(a, f, side) # 0)
                    IN  IF readable = <<>> THEN NONE ELSE readable[1]
    IN  [a EXCEPT !.loader.done = "read",
                  !.loader.keys = [k \in DOMAIN @ |-> IF k[2] = first(k[1]) THEN Read(a, k[1], k[2]) ELSE Unavailable]]

DrainContext(a) ==
    LET loading == {k \in DOMAIN a.loader.keys \cap DOMAIN a.cache : a.cache[k] = Loading}
        answered == IF a.loader.done = "read" THEN DOMAIN a.loader.keys ELSE loading
    IN  IF a.loader.generation # a.generation \/ ~FullActive(a) THEN Cancelled(a)
        ELSE [a EXCEPT !.loader = NONE, !.dirty = TRUE,
                       !.cache = [k \in answered |-> a.loader.keys[k]] @@ @]

(* Beyond a limit of bytes a source is not counted, but in full files. *)
CountedBy(a) ==
    LET lines(f, c) == IF c.cached # 0 THEN c.cached
                       ELSE IF a.counter.limited /\ a.files[f].path \in Versions[disk].large THEN 0
                       ELSE LinesOf(a, f, c.side)
        first(f) == SelectSeq(a.counter.asked[f], LAMBDA c: lines(f, c) # 0)
    IN  [a EXCEPT !.counter.done = TRUE,
                  !.counter.found = [f \in DOMAIN a.counter.asked |->
                      IF first(f) = <<>> THEN [lines |-> 0, side |-> NONE]
                      ELSE [lines |-> Behind(a, f, first(f)[1].side, lines(f, first(f)[1])),
                            side |-> first(f)[1].side]]]

DrainTrailing(a) ==
    LET taken == [a EXCEPT !.counter = NONE, !.dirty = TRUE]
        fresh == {f \in DOMAIN a.counter.found : Trailing(a, f) \notin DOMAIN a.trailing}
        sided == {f \in fresh : a.counter.found[f].side # NONE}
        b == [taken EXCEPT
                 !.trailing = [k \in {Trailing(a, f) : f \in fresh} |-> a.counter.found[k[1]].lines] @@ @,
                 !.sides = [k \in {Trailing(a, f) : f \in sided} |-> a.counter.found[k[1]].side] @@ @]
    IN  IF a.counter.generation # a.generation \/ fresh = {} THEN taken
        ELSE IF \E f \in fresh : a.counter.found[f].lines > 0 THEN Rebuilt(b) ELSE b

----------------------------------------------------------------------------
(* Another document: diff_replace.rs, diff_load/cache.rs *)
FilesOf(o, v) == Versions[v].files[o]
Active(a) == a.live = "idle" /\ a.option \in Watched

(* Mutant: a search goes on, over files that are no longer those shown. *)
Dropped_ButSearch(a) == [a EXCEPT !.loader = NONE, !.counter = NONE, !.pending = NONE]

Dropped(a) ==
    [a EXCEPT !.loader = NONE, !.counter = NONE, !.pending = NONE, !.searcher = NONE, !.searching = FALSE]

Fresh(a, o, v, trailing, sides) ==
    [Dropped(a) EXCEPT
        !.option = o, !.version = v, !.since = v, !.files = FilesOf(o, v), !.generation = @ + 1,
        !.expansions = <<>>, !.trailing = trailing, !.sides = sides, !.cache = <<>>,
        !.live = IF o \in Watched /\ v # disk THEN "pending" ELSE "idle",
        !.reload = IF o = a.option THEN @ ELSE NONE]

(* Where the file on top is in other files. *)
SameFile(a, files) == {f \in DOMAIN files : a.top \in Present(a) /\ files[f].path = a.files[a.top].path}
TopIn(a, files, visible) ==
    LET same == SameFile(a, files) \cap ToSet(visible)
    IN  IF same # {} THEN Min(same) ELSE IF visible = <<>> THEN 1 ELSE visible[1]

(* Rows and matches of a document just put in place of a's. *)
Shown(a, b) == [Rebuilt(b) EXCEPT !.top = TopIn(a, b.files, Search(b, b.query).visible)]

(* A diff like the one shown is no news, unless whole files are shown: what *)
(* is behind the last hunks of the file on top is then counted again.       *)
CountedNow(a, f, asked) == IF asked.side = NONE THEN asked.app ELSE Counted(a, f, asked)

TopCounted(a, b) ==
    LET known == /\ b.option = a.option /\ FullActive(a) /\ FullActive(b) /\ a.top \in Present(a)
                 /\ Trailing(a, a.top) \in DOMAIN a.trailing /\ Trailing(a, a.top) \in DOMAIN a.sides
        again == {f \in SameFile(a, b.files) : b.files[f].hunks # <<>>}
    IN  IF ~known \/ again = {} THEN b ELSE CountedNow(b, Min(again), Ask(b, Min(again)))

ReplaceWith(a, b) ==
    IF b.option = a.option /\ b.files = a.files /\ ~FullActive(a)
    THEN [a EXCEPT !.version = b.version, !.live = b.live, !.dirty = TRUE]
    ELSE Shown(a, TopCounted(a, b))
ReplaceLoaded(a, o, v) == ReplaceWith(a, Fresh(a, o, v, <<>>, <<>>))

(* The models of both layouts are kept with a diff; the one shown is one of *)
(* them if it is as a reader first finds it.                                *)
StoreCurrent(a) ==
    LET asFound == ~FullActive(a) /\ a.query = NoQuery /\ ~FilterBusy(a) /\ a.expansions = <<>>
        model(layout) == IF asFound /\ a.layout = layout THEN a.model
                         ELSE ModelFor(a, layout, EveryFile(a), TRUE, a.option \notin Bare, <<>>)
    IN  IF ~Active(a) THEN a
        ELSE [a EXCEPT !.cached = (a.option :>
                 [version |-> a.version, trailing |-> a.trailing, sides |-> a.sides,
                  models |-> [layout \in Layouts |-> model(layout)]]) @@ @]

ReplacePaths(a, v) ==
    StoreCurrent([Shown(a, Fresh([a EXCEPT !.cached = <<>>], a.option, v, <<>>, <<>>)) EXCEPT !.live = a.live])

Whole(a) == LaidOut([a EXCEPT !.model = ModelFor(a, a.layout, EveryFile(a), FALSE, FALSE, a.expansions)], EveryFile(a))

ShownCached(a, b, models) ==
    IF b.query # NoQuery THEN Shown(a, b)
    ELSE [(IF FullActive(b) THEN Whole(b) ELSE [b EXCEPT !.model = models[b.layout]])
             EXCEPT !.matches = NoMatches, !.dirty = TRUE, !.top = TopIn(a, b.files, EveryFile(b))]

Resumed(b) == IF FullActive(b) THEN Synced(Retried(b)) ELSE b
ReplaceCached(a, o, entry) ==
    ShownCached(a, Resumed(Fresh(a, o, entry.version, entry.trailing, entry.sides)), entry.models)

EntryOf(b) ==
    LET model(layout) == ModelFor(b, layout, EveryFile(b), TRUE, b.option \notin Bare, <<>>)
    IN  [version |-> b.version, trailing |-> <<>>, sides |-> <<>>, models |-> [layout \in Layouts |-> model(layout)]]
Entry(a, o, v) == EntryOf(Fresh(a, o, v, <<>>, <<>>))

(* Loads: one for the reader or a client, one by the watcher's thread and *)
(* one after a visit to the editor.                                       *)
Unread == 0
Job(a, o, by) == [option |-> o, by |-> by, generation |-> a.generation, version |-> Unread]

Uncached(a, o, by) == [a EXCEPT !.cached = <<>>, !.load = Job(a, o, by), !.dirty = TRUE]

ChooseStored(a, o) ==
    IF o \in DOMAIN a.cached
    THEN ReplaceCached([a EXCEPT !.load = NONE, !.cached = Without(@, {o})], o, a.cached[o])
    ELSE IF a.load # NONE /\ a.load.option = o THEN Noticed(a)
    ELSE [a EXCEPT !.load = Job(a, o, "reader"), !.dirty = TRUE]
Choose(a, o) == IF Active(a) THEN ChooseStored(StoreCurrent(a), o) ELSE Uncached(a, o, "reader")

(* A client that is told of its reload is told of a new generation. *)
Told(a, b) == IF b.generation = a.generation THEN [b EXCEPT !.generation = @ + 1] ELSE b

----------------------------------------------------------------------------
(* The start: an empty view of a loaded diff, and the rest of the run. *)
Started(s) ==
    LET bare == [option |-> s.option, version |-> 1, since |-> 1, files |-> FilesOf(s.option, 1),
                 expansions |-> <<>>, trailing |-> <<>>, sides |-> <<>>, cache |-> <<>>, generation |-> 1,
                 full |-> s.full, wrapping |-> FALSE, layout |-> "split", query |-> NoQuery,
                 top |-> 1, tall |-> s.tall, model |-> [visible |-> <<>>], matches |-> NoMatches,
                 loader |-> NONE, counter |-> NONE, pending |-> NONE, searcher |-> NONE,
                 searching |-> FALSE, typed |-> 0, load |-> NONE, reload |-> NONE,
                 editor |-> NONE, cached |-> <<>>,
                 live |-> "idle", dirty |-> TRUE]
    IN  Rebuilt(bare)

Init ==
    /\ disk = 1
    /\ \E s \in Scenarios : left = [of |-> s, changes |-> s.changes, inputs |-> s.inputs, faults |-> s.faults]
    /\ app = Started(left.of)

----------------------------------------------------------------------------
(* The reader, one input at a time. *)
Input(may) == may \in left.of.may /\ left.inputs > 0 /\ left' = [left EXCEPT !.inputs = @ - 1] /\ UNCHANGED disk
Shows(f) == f \in ToSet(app.model.visible)

Expand ==
    /\ Input("expand")
    /\ \E f \in Present(app), h \in 1..3 :
          /\ h <= Trailing(app, f)[2] /\ app.files[f].hunks # <<>>
          /\ \/ Shows(f) /\ Gap(app.model, f, h).rest > 0 /\ app.model.expandable
                /\ app' = ExpandAt(app, f, h)
             \/ h = Trailing(app, f)[2] /\ app' = ExpandTrailing(app, f)
HideContext ==
    /\ Input("expand")
    /\ \E k \in DOMAIN app.expansions :
          /\ app.model.controls /\ Shows(k[1]) /\ Gap(app.model, k[1], k[2]).shown > 0
          /\ app' = Hide(app, k)
Collapse == Input("expand") /\ app.expansions # <<>> /\ app' = CollapseAll(app)
ToggleFull == Input("full") /\ app' = SetFull(app, ~app.full)
ChangeLayout ==
    /\ Input("layout")
    /\ \E layout \in Layouts \ {app.layout} : app' = SetLayout(app, layout)
ToggleWrapping == Input("wrap") /\ app' = SetWrapping(app, ~app.wrapping)
Type ==
    /\ Input("type")
    /\ \E query \in left.of.queries :
          /\ query # app.query \/ app.pending # NONE
          /\ app' = Schedule(app, query)
Scroll ==
    /\ Input("scroll") /\ ~app.tall
    /\ \E f \in ToSet(app.model.visible) \ {app.top} : app' = Noticed([app EXCEPT !.top = f])
ChooseDiff ==
    /\ Input("choose")
    /\ \/ \E o \in Options \ {app.option} : app' = Choose(app, o)
       \/ app' = Uncached(app, app.option, "reader")
       \/ app.load = NONE /\ \E o \in Options :
             app' = Uncached(app, o, IF o = app.option THEN "paths" ELSE "client")
       \/ app.load = NONE /\ app' = Uncached(app, app.option, "client")

(* The threads of the pool. *)
Background == UNCHANGED <<disk, left>>
LoaderReads == app.loader # NONE /\ app.loader.done = "no" /\ app' = Loaded(app) /\ Background
CounterReads == app.counter # NONE /\ ~app.counter.done /\ app' = CountedBy(app) /\ Background
SearcherEnds ==
    /\ app.searcher # NONE /\ ~app.searcher.done
    /\ app' = [app EXCEPT !.searcher.done = TRUE] /\ Background
JobReads ==
    /\ \E job \in {"load", "reload", "editor"} :
          app[job] # NONE /\ app[job].version = Unread /\ app' = [app EXCEPT ![job].version = disk]
    /\ Background

(* A thread that ends without an answer. *)
ThreadDies ==
    /\ left.faults > 0 /\ left' = [left EXCEPT !.faults = @ - 1] /\ UNCHANGED disk
    /\ \/ app.loader # NONE /\ app.loader.done = "no" /\ app' = [app EXCEPT !.loader.done = "died"]
       \/ app.counter # NONE /\ ~app.counter.done /\ app' = [app EXCEPT !.counter.done = TRUE]

(* A turn of the loop takes what has come, then draws: runner.rs. *)
StartFilter == app.pending # NONE /\ app' = BeginSearch(app) /\ Background
DrainFilter == app.searcher # NONE /\ app.searcher.done /\ app' = DrainSearch(app) /\ Background
DrainLoader == app.loader # NONE /\ app.loader.done # "no" /\ app' = DrainContext(app) /\ Background
DrainCounter == app.counter # NONE /\ app.counter.done /\ app' = DrainTrailing(app) /\ Background
Draw == app.dirty /\ app' = Drawn(app) /\ Background

Finished(job) == job # NONE /\ job.version # Unread

DrainReload ==
    /\ Finished(app.reload)
    /\ app' = ReplaceLoaded([app EXCEPT !.reload = NONE, !.cached = <<>>], app.option, app.reload.version)
    /\ Background

DrainLoad ==
    /\ Finished(app.load)
    /\ LET a == [app EXCEPT !.load = NONE]
           o == app.load.option
           v == app.load.version
       IN  \/ app.load.by = "reader" /\ app' = ReplaceCached(a, o, Entry(a, o, v))
           \/ app.load.by = "client" /\ app' = Told(a, ReplaceLoaded(a, o, v))
           \/ app.load.by = "paths" /\ app' = IF o = a.option THEN ReplacePaths(a, v) ELSE a
    /\ Background

(* The line a reader left is looked for in the file it was of. *)
DrainEditor ==
    /\ Finished(app.editor)
    /\ LET a == [app EXCEPT !.editor = NONE]
           v == app.editor.version
       IN  \/ app.editor.generation # a.generation /\ app' = a
           \/ app.editor.generation = a.generation /\ app' = ReplacePaths(a, v)
           \/ /\ app.editor.generation = a.generation
              /\ \E f \in DOMAIN FilesOf(a.option, v), behind \in BOOLEAN :
                    app' = Noticed(RestoreTrailing(ReplacePaths(a, v), f, behind))
    /\ Background

(* The repository changes, or a reader changes it in an editor; the watcher *)
(* of the diff shown sees to it.                                            *)
Seen(a) == IF a.option \in Watched THEN [a EXCEPT !.live = "pending", !.cached = <<>>, !.dirty = TRUE] ELSE a

Change ==
    /\ left.changes > 0 /\ disk < Len(Versions)
    /\ left' = [left EXCEPT !.changes = @ - 1]
    /\ disk' = disk + 1 /\ app' = Seen(app)
Edit ==
    /\ "edit" \in left.of.may /\ left.inputs > 0 /\ disk < Len(Versions)
    /\ left' = [left EXCEPT !.inputs = @ - 1]
    /\ app.option \in Watched
    /\ disk' = disk + 1 /\ app' = [Seen(app) EXCEPT !.editor = Job(app, app.option, "editor")]

LiveReload ==
    /\ app.live = "pending" /\ app.reload = NONE
    /\ app' = [app EXCEPT !.reload = Job(app, app.option, "watcher")] /\ Background

Loop == StartFilter \/ DrainFilter \/ DrainLoader \/ DrainCounter \/ DrainLoad \/ DrainReload \/ DrainEditor \/ Draw
Threads == LoaderReads \/ CounterReads \/ SearcherEnds \/ JobReads \/ LiveReload
Reader == Expand \/ HideContext \/ Collapse \/ ToggleFull \/ ChangeLayout \/ ToggleWrapping \/ Type \/ Scroll \/ ChooseDiff \/ Edit

Next == Loop \/ Threads \/ ThreadDies \/ Change \/ Reader

(* The loop takes its turns and the pool runs its threads.  Every one of *)
(* these steps ends what enables it, so its weak fairness is that it is   *)
(* not enabled for ever.                                                  *)
Fairness ==
    /\ []<>(app.pending = NONE)
    /\ []<>(app.searcher = NONE \/ ~app.searcher.done)
    /\ []<>(app.searcher = NONE \/ app.searcher.done)
    /\ []<>(app.loader = NONE \/ app.loader.done = "no")
    /\ []<>(app.loader = NONE \/ app.loader.done # "no")
    /\ []<>(app.counter = NONE \/ ~app.counter.done)
    /\ []<>(app.counter = NONE \/ app.counter.done)
    /\ \A job \in {"load", "reload", "editor"} :
          /\ []<>~Finished(app[job])
          /\ []<>(app[job] = NONE \/ Finished(app[job]))
    /\ []<>(app.live = "idle" \/ app.reload # NONE)
    /\ []<>~app.dirty

Spec == Init /\ [][Next]_vars /\ Fairness

----------------------------------------------------------------------------
(* Unless the document is of an older version than the sources, the rows   *)
(* and the matches are those of the document, the layout, the context and  *)
(* the query of the view, whichever of the many ways here was taken: rows  *)
(* that were kept, a search that outlived what was typed or the document,  *)
(* counts that came late.  (replace_model, replace_filter_model,           *)
(* drain_filter_worker, replace_cached_diff)                               *)
Due(a, found) ==
    ModelFor(a, a.layout, found.visible, ~FullActive(a), a.option \notin Bare,
             IF FullActive(a) THEN FullExpansions(a) ELSE a.expansions)
SameRows(m, n) == m = n \/ EagerModel(m) = EagerModel(n)
SameMatches(a, due, found) ==
    a.matches = [of |-> due, found |-> found]
        \/ MatchRows(a.matches.of, a.matches.found) = MatchRows(due, found)

IsCurrent(a, due, found) == SameRows(a.model, due) /\ SameMatches(a, due, found)
CurrentFor(a, found) == IsCurrent(a, Due(a, found), found.matches)
ModelIsCurrent == FilterBusy(app) \/ app.version # disk \/ CurrentFor(app, Search(app, app.query))

(* What is marked as loading is being loaded, by a loader of this document, *)
(* and lines are never older than the document they are shown with.        *)
(* (cancel_context_load_worker, drain_context_load_worker)                 *)
ContextIsLive ==
    \A k \in DOMAIN app.cache :
        /\ app.cache[k] = Loading =>
              /\ app.loader # NONE /\ k \in DOMAIN app.loader.keys
              /\ app.loader.generation = app.generation /\ FullActive(app)
        /\ app.cache[k].is = "lines" => app.cache[k].of >= app.since

(* The whole of a file: each of its lines, in order, as far as a source of *)
(* it can be read, and a text for them.  A thread that died leaves what it *)
(* was asked to read unavailable.                                          *)
Lost(f, side) ==
    /\ left.faults < left.of.faults
    /\ <<f, side>> \in DOMAIN app.cache /\ app.cache[<<f, side>>] = Unavailable
ShowsWhole(f) ==
    LET readable == SelectSeq(Sides, LAMBDA side: HasSource(app, f, side) /\ LinesOf(app, f, side) # 0
                                                     /\ ~Lost(f, side))
        rows == SelectSeq(EagerModel(app.model).rows, LAMBDA r: r.file = f)
        numbers(side) == FlattenSeq([i \in 1..Len(rows) |-> Numbers(app.model, rows[i], side)])
    IN  \/ readable = <<>>
        \/ /\ numbers(readable[1]) = [i \in 1..LinesOf(app, f, readable[1]) |-> i]
           /\ (\E k \in DOMAIN app.expansions : k[1] = f) =>
                 \E side \in ToSet(Sides) : CachedLines(app, <<f, side>>)

Quiet ==
    /\ ~app.dirty /\ app.loader = NONE /\ app.counter = NONE /\ ~FilterBusy(app)
    /\ app.load = NONE /\ app.reload = NONE /\ app.editor = NONE /\ app.live = "idle"

(* When the reader rests and the files do too, the view comes to rest, and *)
(* then in full files every line of a file on screen is there, with a text *)
(* to show for it.  (run_loop, prepare_full_file_context_for_viewport,     *)
(* discover_trailing_context_for_viewport, retry_unresolved_trailing_context) *)
ViewSettles ==
    <>[](Quiet /\ (FullActive(app) => \A f \in OnScreen(app, app.model.visible) : ShowsWhole(f)))
=============================================================================
