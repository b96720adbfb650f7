------------------------------ MODULE DiffLoad ------------------------------
(***************************************************************************)
(* Which diff a view shows (crates/mark-tui/src/app/diff_load.rs and       *)
(* diff_load/, diff_replace.rs, runner.rs, session/reload.rs): the choices *)
(* of a reader, their loads, the cache and the prefetches that spare them, *)
(* the live reloads of what is shown, and the reloads that clients of the  *)
(* session ask for and are told about, over one document.                  *)
(*                                                                         *)
(* Comparisons are names, a file's content is a version number, a diff the *)
(* version of each file.  LiveDiff models the watcher and its worker in    *)
(* detail; here they say that something changed and load it.  The filters, *)
(* the scroll position and the syntax that follow a replacement are left   *)
(* out; the full file mode, which replaces a diff by an equal one, too.    *)
(***************************************************************************)
EXTENDS Integers, FiniteSets, Sequences, SequencesExt

CONSTANTS
    Options,            \* comparisons a reader may choose
    Watched,            \* those a watcher follows (live_diff_supported)
    Cacheable,          \* those worth keeping (cacheable_diff_options)
    Review,             \* the patch of a hosted review
    Path, NONE,
    Menu,               \* the order in which choices are prefetched
    CacheEntries,       \* MAX_DIFF_CACHE_ENTRIES
    Scenarios           \* how often each thing may happen in a run

ASSUME DiffLoadAssumption ==
    /\ Watched \subseteq Options /\ Cacheable \subseteq Options
    /\ Review \notin Options /\ NONE \notin Options \cup {Review}
    /\ Menu \in Seq(Options) /\ CacheEntries \in Nat \ {0}
    /\ Scenarios \subseteq [changes: Nat, inputs: Nat, requests: Nat, failures: Nat,
                              starts: SUBSET Options, touched: SUBSET Path]

VARIABLES
    source,     \* the version of each file of the repository
    app,        \* DiffApp: the document and the jobs about it
    live,       \* the watcher of what is shown: what it noticed and loaded
    ui,         \* where the UI thread is in its turn
    requests,   \* what clients of the session asked for and were told
    wanted,     \* history: the comparison asked for last
    lastShown,  \* history: what each comparison showed last
    used        \* the scenario, and how much of its bounds is used

vars == <<source, app, live, ui, requests, wanted, lastShown, used>>

Bound == used.of
Diffs == [Path -> 0..Bound.changes]
Oldest == [p \in Path |-> 0]
Unread == [p \in Path |-> -1]      \* a job that has not read its diff yet
Failed == [p \in Path |-> -2]      \* or could not
Started == [p \in Path |-> -3]     \* the worker's word that it reloads

(* Only the watched comparisons show the worktree; the others do not change. *)
Content(o) == IF o \in Watched THEN source ELSE Oldest

Requests == 1..Bound.requests
NoRequest == 0
Job(o, paths, by) == [options |-> o, paths |-> paths, by |-> by, read |-> Unread]

----------------------------------------------------------------------------
(* The cache of choices: diff_load/cache.rs, JobState *)

Active(a) == a.status = "idle" /\ a.options \in Watched /\ a.failed # a.options

(* Mutant: the prefetch under way goes on. *)
Invalidate_KeepsPrefetch(a) == [a EXCEPT !.cache = <<>>, !.queue = {}, !.started = FALSE]

Invalidate(a) == [a EXCEPT !.cache = <<>>, !.prefetch = NONE, !.queue = {}, !.started = FALSE]

(* A comparison is there once at most. *)
InCache(a, o) == \E i \in DOMAIN a.cache : a.cache[i].options = o
EntryOf(a, o) == CHOOSE i \in DOMAIN a.cache : a.cache[i].options = o
Cached(a, o) == a.cache[EntryOf(a, o)].shown
Without(a, o) == IF InCache(a, o) THEN RemoveAt(a.cache, EntryOf(a, o)) ELSE a.cache

CacheLoaded(a, o, content) ==
    IF Active(a) /\ o \in Cacheable
    THEN LET cache == <<[options |-> o, shown |-> content]>> \o Without(a, o)
         IN  [a EXCEPT !.cache = SubSeq(cache, 1, IF Len(cache) < CacheEntries THEN Len(cache) ELSE CacheEntries)]
    ELSE a

StoreCurrent(a) == CacheLoaded(a, a.options, a.shown)

----------------------------------------------------------------------------
(* The replacements of the document: diff_replace.rs *)

Reset(a) == [a EXCEPT !.status = IF @ = "off" THEN "off" ELSE "idle"]

ReplaceCached(a, o, content) ==
    [Reset(a) EXCEPT !.options = o, !.shown = content, !.generation = @ + 1]

ReplaceLoaded(a, o, content) ==
    IF a.options = o /\ a.shown = content THEN Reset(a) ELSE ReplaceCached(a, o, content)

(* A live reload: what else was cached may be as old. *)
ReplaceChangeset(a, content) ==
    ReplaceLoaded(CacheLoaded(Invalidate(a), a.options, content), a.options, content)

ReplacePaths(a, paths, content) ==
    StoreCurrent([Invalidate(a) EXCEPT
        !.shown = [p \in Path |-> IF p \in paths THEN content[p] ELSE @[p]],
        !.generation = @ + 1])

----------------------------------------------------------------------------
(* Starting loads *)

(* start_diff_load_inner with the cache: a diff at hand, a load under way or  *)
(* a prefetch under way is as good as a load.                                 *)
ChooseWithCache(b, o) ==
    LET a == StoreCurrent(b)
        waiting == [a EXCEPT !.queue = @ \ {o}]
    IN  IF InCache(a, o)
        THEN ReplaceCached([a EXCEPT !.load = NONE, !.cache = Without(a, o)], o, Cached(a, o))
        ELSE IF a.load # NONE /\ a.load.options = o THEN a
        ELSE IF a.prefetch # NONE /\ a.prefetch.options = o
        THEN [waiting EXCEPT !.load = a.prefetch, !.prefetch = NONE]
        ELSE [waiting EXCEPT !.load = Job(o, {}, NoRequest)]

StartUncached(a, o) == [Invalidate(a) EXCEPT !.review = NONE, !.load = Job(o, {}, NoRequest)]

StartDiffLoad(a, o) ==
    IF Active(a) THEN ChooseWithCache([a EXCEPT !.review = NONE], o) ELSE StartUncached(a, o)

StartReviewLoad(a) == [a EXCEPT !.review = Job(Review, {}, NoRequest), !.load = NONE]

(* start_session_diff_load: only the files asked for, if they are of the      *)
(* comparison shown.                                                          *)
ScopedPaths(a, o, paths) == IF o = a.options THEN paths ELSE {}
Busy(a) == a.load # NONE \/ a.review # NONE

StartSessionLoad(a, request, o, paths) ==
    [Invalidate(a) EXCEPT !.load = Job(o, ScopedPaths(a, o, paths), request)]

----------------------------------------------------------------------------
NoLive == [options |-> NONE, events |-> FALSE, changed |-> FALSE, queued |-> FALSE,
           loading |-> FALSE, messages |-> <<>>]

Init ==
    /\ source = Oldest
    /\ \E scenario \in Scenarios :
          /\ used = [of |-> scenario, changes |-> 0, inputs |-> 0, failures |-> 0]
          /\ requests = [r \in 1..scenario.requests |-> [state |-> "unused"]]
    /\ \E o \in Bound.starts, status \in {"off", "idle"} :
          /\ app = [options |-> o, shown |-> Oldest, generation |-> 0, status |-> status,
                    failed |-> NONE, cache |-> <<>>, prefetch |-> NONE, queue |-> {},
                    started |-> FALSE, load |-> NONE, review |-> NONE]
          /\ wanted = o
    /\ live = NoLive
    /\ ui = "invalidation"
    /\ lastShown = [o \in Options \cup {Review} |-> Oldest]

----------------------------------------------------------------------------
(* The repository, the watcher and the worker (LiveDiff has the details) *)

Change(p) ==
    /\ p \in Bound.touched
    /\ used.changes < Bound.changes
    /\ used' = [used EXCEPT !.changes = @ + 1]
    /\ source' = [source EXCEPT ![p] = @ + 1]
    /\ live' = [live EXCEPT !.events = live.options # NONE]
    /\ UNCHANGED <<app, ui, requests, wanted, lastShown>>

Background == UNCHANGED <<source, ui, requests, wanted, lastShown>>

Deliver ==
    /\ live.events
    /\ live' = [live EXCEPT !.events = FALSE, !.changed = TRUE, !.queued = app.status # "off"]
    /\ UNCHANGED <<app, used>> /\ Background

WorkerStarts ==
    /\ live.queued /\ ~live.loading
    /\ live' = [live EXCEPT !.queued = FALSE, !.loading = TRUE, !.messages = Append(@, Started)]
    /\ UNCHANGED <<app, used>> /\ Background

WorkerLoads ==
    /\ live.loading
    /\ live' = [live EXCEPT !.loading = FALSE, !.messages = Append(@, Content(live.options))]
    /\ UNCHANGED <<app, used>> /\ Background

Fails == used.failures < Bound.failures /\ used' = [used EXCEPT !.failures = @ + 1]

Read(kind, content) == [app EXCEPT ![kind] = [app[kind] EXCEPT !.read = content]]

(* A job of the pool reads its diff, or cannot. *)
JobReads ==
    /\ \E kind \in {"load", "prefetch", "review"} :
          /\ app[kind] # NONE /\ app[kind].read = Unread
          /\ \/ app' = Read(kind, Content(app[kind].options)) /\ UNCHANGED used
             \/ app' = Read(kind, Failed) /\ Fails
    /\ UNCHANGED live /\ Background

Finished(job) == job # NONE /\ job.read # Unread

----------------------------------------------------------------------------
(* The turn of the UI thread: run_loop *)

Told(request, generation) == [request EXCEPT !.state = "ok", !.generation = generation]

(* Mutant: a load that another one drops takes the client's answer with it. *)
Answered_Applied(b, result) ==
    LET by == IF app.load = NONE THEN NoRequest ELSE app.load.by
    IN  IF by = NoRequest \/ b.load # NONE \/ result = "stopped" THEN requests
        ELSE [requests EXCEPT ![by] =
                 IF result = "ok" THEN Told(requests[by], b.generation) ELSE [state |-> result]]

(* Whoever waits for a load is told how it ended, or that it was dropped for *)
(* another: its completion goes with it.                                     *)
Answered(b, result) ==
    LET by == IF app.load = NONE THEN NoRequest ELSE app.load.by
    IN  IF by = NoRequest \/ (b.load # NONE /\ b.load.by = by) THEN requests
        ELSE [requests EXCEPT ![by] =
                 IF result = "ok" THEN Told(requests[by], b.generation) ELSE [state |-> result]]

Become(b, result) ==
    /\ app' = b
    /\ requests' = Answered(b, result)
    /\ lastShown' = [lastShown EXCEPT ![b.options] = b.shown]

Stay == UNCHANGED <<app, requests, lastShown>>
Turn(at, next) == ui = at /\ ui' = next /\ UNCHANGED source

Noticed(a) == [Invalidate(a) EXCEPT !.status = IF @ = "idle" THEN "invalidated" ELSE @]
SeesChange == live.options = app.options /\ live.changed
Seen == IF live.options = app.options THEN [live EXCEPT !.changed = FALSE] ELSE live

DrainInvalidation ==
    /\ Turn("invalidation", "reloads")
    /\ IF SeesChange THEN Become(Noticed(app), "stopped") ELSE Stay
    /\ live' = Seen
    /\ UNCHANGED <<wanted, used>>

Reloaded(a, message) ==
    IF message = Started
    THEN IF a.status = "pending" THEN a
         ELSE [Invalidate(a) EXCEPT !.status = IF @ = "off" THEN @ ELSE "pending"]
    ELSE IF message = Failed THEN Reset(a) ELSE ReplaceChangeset(a, message)

(* One message after the other; what a watcher of another comparison has     *)
(* loaded is thrown away.                                                    *)
DrainReloads ==
    \/ /\ ui = "reloads" /\ live.messages # <<>>
       /\ IF live.options = app.options
          THEN Become(Reloaded(app, Head(live.messages)), "stopped") ELSE Stay
       /\ live' = [live EXCEPT !.messages = Tail(@)]
       /\ UNCHANGED <<source, ui, wanted, used>>
    \/ /\ Turn("reloads", "sync") /\ live.messages = <<>>
       /\ Stay
       /\ UNCHANGED <<live, wanted, used>>

NeedsWatcher(a) == live.options # a.options

SyncLive ==
    /\ Turn("sync", "load")
    /\ UNCHANGED wanted
    /\ \/ /\ app.options \notin Watched
          /\ live' = NoLive
          /\ Become([Reset(Invalidate(app)) EXCEPT !.failed = NONE], "stopped")
          /\ UNCHANGED used
       \/ /\ app.options \in Watched /\ ~NeedsWatcher(app)
          /\ Stay /\ UNCHANGED <<live, used>>
       \/ /\ app.options \in Watched /\ NeedsWatcher(app) /\ app.failed = app.options
          /\ live' = NoLive
          /\ Stay /\ UNCHANGED used
       \/ /\ app.options \in Watched /\ NeedsWatcher(app) /\ app.failed # app.options
          /\ \/ /\ live' = [NoLive EXCEPT !.options = app.options]
                /\ Become([Reset(app) EXCEPT !.failed = NONE], "stopped")
                /\ UNCHANGED used
             \/ /\ live' = NoLive
                /\ Become([Reset(Invalidate(app)) EXCEPT !.failed = app.options], "stopped")
                /\ Fails

(* apply_pending_diff_load *)
Applied(a, job) ==
    LET b == ReplaceLoaded(a, job.options, job.read)
    IN  IF job.paths # {} THEN ReplacePaths(a, job.paths, job.read)
        ELSE IF job.by # NoRequest
             THEN IF b.generation = a.generation THEN [b EXCEPT !.generation = @ + 1] ELSE b
        ELSE IF job.options \in Cacheable THEN ReplaceCached(a, job.options, job.read)
        ELSE b

ReviewApplied ==
    /\ Finished(app.review)
    /\ LET a == [app EXCEPT !.review = NONE]
       IN  IF app.review.read = Failed
           THEN Become(a, "stopped") /\ wanted' = app.options
           ELSE Become(ReplaceLoaded(a, Review, app.review.read), "stopped") /\ UNCHANGED wanted

LoadApplied ==
    /\ ~Finished(app.review) /\ Finished(app.load)
    /\ LET a == [app EXCEPT !.load = NONE]
       IN  IF app.load.read = Failed
           THEN Become(a, "failed") /\ wanted' = app.options
           ELSE Become(Applied(a, app.load), "ok") /\ UNCHANGED wanted

(* A review under way and a load under way exclude each other. *)
DrainLoad ==
    /\ Turn("load", "prefetch")
    /\ UNCHANGED <<live, used>>
    /\ \/ ReviewApplied
       \/ LoadApplied
       \/ ~Finished(app.review) /\ ~Finished(app.load) /\ Stay /\ UNCHANGED wanted

Skipped(a, o) ==
    \/ o = a.options \/ o \notin Cacheable \/ InCache(a, o)
    \/ a.load # NONE /\ a.load.options = o

(* The queue is filled from the menu when it is empty, so it is in its order. *)
StartNextPrefetch(a) ==
    LET ready == {k \in DOMAIN Menu : Menu[k] \in a.queue /\ ~Skipped(a, Menu[k])}
        next == Min(ready)
    IN  IF ~Active(a) THEN Invalidate(a)
        ELSE IF a.prefetch # NONE THEN a
        ELSE IF ready = {} THEN [a EXCEPT !.queue = {}]
        ELSE [a EXCEPT !.prefetch = Job(Menu[next], {}, NoRequest),
                       !.queue = @ \ {Menu[k] : k \in 1..next}]

QueuePrefetches(a) ==
    [a EXCEPT !.started = TRUE,
              !.queue = @ \cup {o \in ToSet(Menu) :
                  ~Skipped(a, o) /\ (a.prefetch = NONE \/ a.prefetch.options # o)}]

PrefetchDrained(a) ==
    IF ~Finished(a.prefetch) THEN a
    ELSE LET b == [a EXCEPT !.prefetch = NONE]
         IN  StartNextPrefetch(IF a.prefetch.read = Failed THEN b
                               ELSE CacheLoaded(b, a.prefetch.options, a.prefetch.read))

PrefetchesStarted(a) == StartNextPrefetch(IF a.started \/ ~Active(a) THEN a ELSE QueuePrefetches(a))

(* drain_diff_prefetch; a turn that has something to draw then also starts   *)
(* prefetches.                                                               *)
DrainPrefetch ==
    /\ Turn("prefetch", "input")
    /\ UNCHANGED <<live, wanted, used>>
    /\ \/ Become(PrefetchDrained(app), "stopped")
       \/ Become(PrefetchesStarted(PrefetchDrained(app)), "stopped")

(* A key or a click sees what the watcher noticed before it is handled; a    *)
(* command of a session does not.                                            *)
SeenApp == IF SeesChange THEN Noticed(app) ELSE app

Key(handled) ==
    /\ Turn("input", "invalidation")
    /\ used.inputs < Bound.inputs
    /\ used' = [used EXCEPT !.inputs = @ + 1]
    /\ Become(handled, "stopped")
    /\ live' = Seen

(* Choosing what is shown drops what is under way, in the menu of diffs; in   *)
(* those of branches and commits it does nothing.                            *)
Chosen(a, o) ==
    IF o = a.options THEN [a EXCEPT !.load = NONE, !.review = NONE] ELSE StartDiffLoad(a, o)

Choose(o) == Key(Chosen(SeenApp, o)) /\ wanted' = o
PressReload == Key(StartUncached(Invalidate(SeenApp), app.options)) /\ wanted' = app.options
ReviewLoad == Key(StartReviewLoad(SeenApp)) /\ wanted' = Review

(* session/reload.rs: refused, or told when the load ends. *)
SessionReload(request, o, paths, generation) ==
    /\ Turn("input", "invalidation")
    /\ requests[request].state = "unused"
    /\ UNCHANGED <<live, used>>
    /\ IF generation # app.generation \/ Busy(app)
       THEN /\ requests' = [requests EXCEPT ![request] = [state |-> "refused"]]
            /\ UNCHANGED <<app, lastShown, wanted>>
       ELSE /\ app' = StartSessionLoad(app, request, o, paths)
            /\ requests' = [requests EXCEPT ![request] =
                   [state |-> "waiting", options |-> o, paths |-> paths,
                    since |-> Content(o), generation |-> generation]]
            /\ wanted' = o
            /\ UNCHANGED lastShown

NoInput ==
    /\ Turn("input", "invalidation")
    /\ Stay /\ UNCHANGED <<live, wanted, used>>

UiTurn ==
    \/ DrainInvalidation \/ DrainReloads \/ SyncLive \/ DrainLoad \/ DrainPrefetch
    \/ NoInput \/ PressReload \/ ReviewLoad
    \/ \E o \in Options : Choose(o)
    \/ \E request \in Requests, o \in Options, paths \in {{}} \cup {{p} : p \in Path},
          generation \in {app.generation, app.generation - 1} :
             SessionReload(request, o, paths, generation)

Worker == WorkerStarts \/ WorkerLoads

Next ==
    \/ \E p \in Path : Change(p)
    \/ Deliver
    \/ Worker
    \/ JobReads
    \/ UiTurn

(* The loop goes round, and the threads of the pool and the watcher run. *)
Fairness == WF_vars(UiTurn) /\ WF_vars(JobReads) /\ WF_vars(Worker) /\ WF_vars(Deliver)

Spec == Init /\ [][Next]_vars /\ Fairness

----------------------------------------------------------------------------

(* What choosing a comparison brings back at once is never older than what   *)
(* the view showed of it last, though reloads, prefetches and the watcher of *)
(* another comparison fill and drop the cache between.                       *)
CacheCoherent ==
    \A o \in Options :
        LET chosen == Chosen(SeenApp, o)
        IN  chosen.generation # app.generation =>
                \A p \in Path : chosen.shown[p] >= lastShown[o][p]

(* A client that was told a generation, and finds the view still at it, sees *)
(* the comparison it asked for, and the files it asked for as they were when *)
(* it asked or newer (session/reload.rs, diff_load/completion.rs).           *)
ToldTruth ==
    \A r \in Requests :
        requests[r].state = "ok" /\ requests[r].generation = app.generation =>
            /\ app.options = requests[r].options
            /\ \A p \in Path : p \in requests[r].paths \/ requests[r].paths = {} =>
                   app.shown[p] >= requests[r].since[p]

(* Nothing older than it was known to be comes back, to reader or client. *)
NothingOlder == CacheCoherent /\ ToldTruth

Waiting(r) == r \in Requests /\ requests[r].state = "waiting"

(* Every client is answered, and the view ends up with the comparison that   *)
(* was asked for last, or keeps its own when that cannot be read: whatever   *)
(* was under way is adopted or dropped, and never comes in afterwards.       *)
RequestsEnd ==
    /\ \A r \in UNION {1..scenario.requests : scenario \in Scenarios} : Waiting(r) ~> ~Waiting(r)
    /\ []<>(app.options = wanted)
=============================================================================
