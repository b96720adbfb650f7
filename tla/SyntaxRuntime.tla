--------------------------- MODULE SyntaxRuntime ---------------------------
(* Highlighting of the rows of a view off the UI thread: the bounded two-   *)
(* class job queue with its condition variable (syntax/queue.rs), the worker *)
(* threads and their bounded result channel (syntax/source.rs), the           *)
(* bookkeeping the UI thread keeps of what it asked for (syntax/runtime*.rs), *)
(* the cache (syntax/lru.rs), and the frame that asks, paints and asks again  *)
(* when results arrive (app/syntax.rs).                                      *)
(*                                                                           *)
(* A row of the view is either a row of a hunk or a context row of a file;   *)
(* sides, languages and text are left out.  A job's weight is the number of  *)
(* bytes it holds while queued: a hunk's text, nothing for a full file.      *)
EXTENDS Integers, Sequences, FiniteSets, SequencesExt, FiniteSetsExt

CONSTANTS
    Rows,            \* the rows of the view, a sequence of [file, hunk]; hunk 0: a context row
    HasFullFile,     \* the files whose whole text has a source (worktree or revision)
    NoLanguage,      \* the files without a path or a language to highlight
    HunkBytes,       \* HunkBytes[row]: bytes of the text of the row's hunk
    Outcomes(_, _),  \* Outcomes(file, hunk): what highlighting that source may end in,
                     \* and the bytes of what it makes
    MaxSourceBytes, QueueEntries, QueueBytes, CacheEntries, CacheBytes,
    Workers,
    VisibleRows, PrefetchRows,
    MaxReloads, MaxScrolls      \* bounds of the model

ASSUME LimitsAssumption ==
    /\ {QueueEntries, QueueBytes, MaxSourceBytes} \subseteq Nat
    /\ {CacheEntries, CacheBytes} \subseteq Nat /\ Workers # {} /\ IsFiniteSet(Workers)
    /\ Len(Rows) \in Nat /\ VisibleRows \in 1 .. Len(Rows) /\ PrefetchRows \in Nat
    /\ HunkBytes \in [1 .. Len(Rows) -> Nat]

VARIABLES
    generation, top, dirty, todo, painted, ui,     \* the UI thread
    queue,                                          \* SyntaxWorkerQueueState
    pending, keyOf, skipped, skippedFiles, unavailable, failed, cache,
    worker, results, open,                          \* threads and the result channel
    refused, reloads, scrolls                       \* history and counters of the bounds

asked == <<pending, keyOf, skipped, skippedFiles, unavailable, failed, cache>>
vars == <<generation, top, dirty, todo, painted, ui, queue, asked, worker, results,
          open, refused, reloads, scrolls>>

(* --------------------------------- data --------------------------------- *)
Full(file)  == [gen |-> generation, file |-> file, hunk |-> 0]
Hunk(row)   == [gen |-> generation, file |-> Rows[row].file, hunk |-> Rows[row].hunk]
IsFull(key) == key.hunk = 0
NoKey       == [gen |-> -1, file |-> "none", hunk |-> 0]
IsContext(row) == Rows[row].hunk = 0
RowIds      == 1 .. Len(Rows)
SamePosition(row) == {r \in RowIds : Rows[r] = Rows[row]}

Bytes(q) ==
    LET sum[n \in 0 .. Len(q)] == IF n = 0 THEN 0 ELSE sum[n - 1] + q[n].bytes
    IN  sum[Len(q)]
Depth(q)  == Len(q.visible) + Len(q.prefetch)
Fits(q, bytes) == Depth(q) < QueueEntries /\ q.bytes + bytes <= QueueBytes
KeysOf(q) == {q.visible[i].key : i \in DOMAIN q.visible}
                 \cup {q.prefetch[i].key : i \in DOMAIN q.prefetch}

Visible  == top .. (top + VisibleRows - 1)
Requests(first, last, class) == [i \in 1 .. (last - first + 1) |-> <<first + i - 1, class>>]
Ahead    ==
    LET last == top + VisibleRows - 1 + PrefetchRows
    IN  Requests(top + VisibleRows, IF last < Len(Rows) THEN last ELSE Len(Rows), "prefetch")
Behind   == Requests(IF PrefetchRows < top THEN top - PrefetchRows ELSE 1, top - 1, "prefetch")

Waiting == {w \in Workers : worker[w].pc = "waiting"}
Wake(S) == [w \in Workers |-> IF w \in S THEN [pc |-> "pop"] ELSE worker[w]]
NotifyOne_Forgotten == worker' = worker
NotifyOne == IF Waiting = {} THEN worker' = worker
             ELSE \E w \in Waiting : worker' = Wake({w})

(* ------------------------------ the queue ------------------------------- *)
(* The longest prefix of the prefetch jobs that leaves room for a visible    *)
(* job: try_push takes prefetch jobs from the back one at a time.            *)
KeepPrefetch(bytes) ==
    Max({n \in 0 .. Len(queue.prefetch) :
            LET kept == SubSeq(queue.prefetch, 1, n)
            IN  /\ Len(queue.visible) + n < QueueEntries
                /\ Bytes(queue.visible) + Bytes(kept) + bytes <= QueueBytes} \cup {-1})

Admits(job, class) ==
    /\ ~queue.closed /\ job.key.gen = queue.generation
    /\ IF class = "visible" THEN KeepPrefetch(job.bytes) # -1
       ELSE Fits(queue, job.bytes)

Pushed_EvictedStillCounted(job, class) ==
    IF class = "visible"
    THEN [queue EXCEPT !.visible = Append(@, job), !.bytes = @ + job.bytes,
                       !.prefetch = SubSeq(@, 1, KeepPrefetch(job.bytes))]
    ELSE [queue EXCEPT !.prefetch = Append(@, job), !.bytes = @ + job.bytes]
Pushed(job, class) ==
    IF class = "visible"
    THEN LET kept == SubSeq(queue.prefetch, 1, KeepPrefetch(job.bytes))
         IN  [queue EXCEPT !.visible = Append(@, job), !.prefetch = kept,
                           !.bytes = @ - Bytes(queue.prefetch) + Bytes(kept) + job.bytes]
    ELSE [queue EXCEPT !.prefetch = Append(@, job), !.bytes = @ + job.bytes]

Promote(key) ==
    IF queue.closed \/ \A i \in DOMAIN queue.prefetch : queue.prefetch[i].key # key
    THEN UNCHANGED <<queue, worker>>
    ELSE LET i == Min({n \in DOMAIN queue.prefetch : queue.prefetch[n].key = key})
         IN  /\ queue' = [queue EXCEPT !.visible = Append(@, queue.prefetch[i]),
                                       !.prefetch = RemoveAt(@, i)]
             /\ NotifyOne

(* The jobs of a generation, in their order. *)
OfGeneration(q, gen) ==
    LET kept[n \in 0 .. Len(q)] ==
            IF n = 0 THEN <<>>
            ELSE IF q[n].key.gen = gen THEN Append(kept[n - 1], q[n]) ELSE kept[n - 1]
    IN  kept[Len(q)]

SetGeneration_Kept(gen) == UNCHANGED queue /\ worker' = Wake(Waiting)
SetGeneration(gen) ==
    LET visible  == OfGeneration(queue.visible, gen)
        prefetch == OfGeneration(queue.prefetch, gen)
    IN  /\ queue' = [queue EXCEPT !.generation = gen, !.visible = visible,
                         !.prefetch = prefetch, !.bytes = Bytes(visible) + Bytes(prefetch)]
        /\ worker' = Wake(Waiting)

(* -------------------------- requests of a frame ------------------------- *)
Cached(key) == \E i \in DOMAIN cache : cache[i].key = key

AlreadyRequested(key, class) ==
    /\ Cached(key) \/ key \in pending
    /\ IF ~Cached(key) /\ class = "visible" THEN Promote(key) ELSE UNCHANGED <<queue, worker>>
    /\ UNCHANGED <<pending, refused>>

(* The keys evicted to make room are no longer pending. *)
PendingAfterPush(key, after) == (pending \ (KeysOf(queue) \ KeysOf(after))) \cup {key}

(* queue_job: a refused job leaves the bookkeeping as it is. *)
QueueJob(row, key, class) ==
    LET job == [key |-> key, bytes |-> IF IsFull(key) THEN 0 ELSE HunkBytes[row]]
    IN  \/ AlreadyRequested(key, class)
        \/ /\ ~Cached(key) /\ key \notin pending /\ Admits(job, class)
           /\ queue' = Pushed(job, class)
           /\ pending' = PendingAfterPush(key, Pushed(job, class))
           /\ NotifyOne /\ UNCHANGED refused
        \/ /\ ~Cached(key) /\ key \notin pending /\ ~Admits(job, class)
           /\ refused' = refused \cup {row}
           /\ UNCHANGED <<queue, worker, pending>>

Skip(row) ==
    /\ skipped' = skipped \cup SamePosition(row)
    /\ UNCHANGED <<queue, worker, pending, keyOf, skippedFiles, refused>>

PrefersFull(file) == file \in HasFullFile /\ Full(file) \notin unavailable
Hopeless(row) ==
    LET file == Rows[row].file
    IN  \/ file \in NoLanguage
        \/ PrefersFull(file) /\ Full(file) \in failed
        \/ ~PrefersFull(file) /\ HunkBytes[row] > MaxSourceBytes

QueueHunk(row, class) ==
    LET file == Rows[row].file
        known == keyOf[row] # NoKey /\ (Cached(keyOf[row]) \/ keyOf[row] \in pending)
        key  == IF PrefersFull(file) THEN Full(file) ELSE Hunk(row)
    IN  \/ known /\ AlreadyRequested(keyOf[row], class) /\ UNCHANGED <<keyOf, skipped, skippedFiles>>
        \/ /\ ~known /\ row \in skipped
           /\ UNCHANGED <<queue, worker, pending, keyOf, skipped, skippedFiles, refused>>
        \/ ~known /\ row \notin skipped /\ Hopeless(row) /\ Skip(row)
        \/ /\ ~known /\ row \notin skipped /\ ~Hopeless(row)
           /\ keyOf' = [r \in RowIds |-> IF r \in SamePosition(row) THEN key ELSE keyOf[r]]
           /\ IF key \in failed
              THEN /\ skipped' = skipped \cup SamePosition(row)
                   /\ UNCHANGED <<queue, worker, pending, refused>>
              ELSE QueueJob(row, key, class) /\ UNCHANGED skipped
           /\ UNCHANGED skippedFiles

QueueFullFile(row, class) ==
    LET file == Rows[row].file
        key  == Full(file)
        useless == file \in NoLanguage \/ file \notin HasFullFile \/ key \in unavailable \cup failed
    IN  /\ IF file \in skippedFiles \/ (useless /\ ~Cached(key) /\ key \notin pending)
           THEN /\ skippedFiles' = skippedFiles \cup {file}
                /\ UNCHANGED <<queue, worker, pending, refused>>
           ELSE QueueJob(row, key, class) /\ UNCHANGED skippedFiles
        /\ UNCHANGED <<keyOf, skipped>>

(* ------------------------------ the UI thread --------------------------- *)
(* A dirty view is drawn: the visible rows are asked for, then the rows      *)
(* ahead and behind, then the frame is painted from what the cache has.      *)
StartFrame ==
    /\ ui = "idle" /\ dirty
    /\ todo' = Requests(top, top + VisibleRows - 1, "visible") \o Ahead \o Behind
    /\ ui' = "asking" /\ refused' = {}
    /\ UNCHANGED <<generation, top, dirty, painted, queue, asked, worker, results, open,
                   reloads, scrolls>>

AskRow ==
    /\ ui = "asking" /\ todo # <<>>
    /\ LET row == Head(todo)[1] class == Head(todo)[2]
       IN  IF IsContext(row) THEN QueueFullFile(row, class) ELSE QueueHunk(row, class)
    /\ todo' = Tail(todo)
    /\ UNCHANGED <<generation, top, dirty, painted, ui, unavailable, failed, cache, results,
                   open, reloads, scrolls>>

KeyToPaint(row) == IF IsContext(row) THEN Full(Rows[row].file) ELSE keyOf[row]

(* A cache is a sequence of entries, the least recently used first. *)
Entry(entries, key)  == SelectSeq(entries, LAMBDA e : e.key = key)
Others(entries, key) == SelectSeq(entries, LAMBDA e : e.key # key)
Touch(entries, key)   == Others(entries, key) \o Entry(entries, key)

Paint ==
    /\ ui = "asking" /\ todo = <<>>
    /\ painted' = {r \in Visible : Cached(KeyToPaint(r))}
    /\ cache' = FoldLeft(Touch, cache, [i \in 1 .. VisibleRows |-> KeyToPaint(top + i - 1)])
    /\ dirty' = FALSE /\ ui' = "idle"
    /\ UNCHANGED <<generation, top, todo, queue, pending, keyOf, skipped, skippedFiles,
                   unavailable, failed, worker, results, open, refused, reloads, scrolls>>


(* The least recently used go until the rest keeps both limits. *)
CacheInsert(key, bytes) ==
    LET all == Append(Others(cache, key), [key |-> key, bytes |-> bytes])
        From(n) == SubSeq(all, n, Len(all))
    IN  From(Min({n \in 1 .. Len(all) :
                    Len(From(n)) <= CacheEntries /\ Bytes(From(n)) <= CacheBytes}))

RowsOf(key) == {r \in RowIds : ~IsContext(r) /\ keyOf[r] = key}
Affects(key) == key.gen = generation /\ \E r \in Visible : Rows[r].file = key.file

(* handle_unavailable_source: a full file falls back to its hunks. *)
Forget(key) == keyOf' = [r \in RowIds |-> IF r \in RowsOf(key) THEN NoKey ELSE keyOf[r]]

DrainResult ==
    /\ ui = "idle" /\ results # <<>>
    /\ results' = Tail(results)
    /\ LET key == Head(results).key outcome == Head(results).outcome
           fits == CacheEntries > 0 /\ outcome.bytes <= CacheBytes
       IN  /\ pending' = pending \ {key}
           /\ \/ /\ key.gen # generation
                 /\ UNCHANGED <<cache, keyOf, skipped, skippedFiles, unavailable, failed, dirty>>
              \/ /\ key.gen = generation /\ outcome.result = "ok" /\ fits
                 /\ cache' = CacheInsert(key, outcome.bytes) /\ dirty' = (dirty \/ Affects(key))
                 /\ UNCHANGED <<keyOf, skipped, skippedFiles, unavailable, failed>>
              \/ /\ key.gen = generation /\ outcome.result = "ok" /\ ~fits /\ IsFull(key)
                 /\ unavailable' = unavailable \cup {key} /\ Forget(key)
                 /\ skippedFiles' = skippedFiles \cup {key.file}
                 /\ dirty' = (dirty \/ Affects(key)) /\ UNCHANGED <<cache, skipped, failed>>
              \/ /\ key.gen = generation /\ outcome.result = "ok" /\ ~fits /\ ~IsFull(key)
                 /\ skipped' = skipped \cup RowsOf(key)
                 /\ UNCHANGED <<cache, keyOf, skippedFiles, unavailable, failed, dirty>>
              \/ /\ key.gen = generation /\ outcome.result = "unavailable"
                 /\ unavailable' = unavailable \cup {key} /\ Forget(key)
                 /\ dirty' = (dirty \/ Affects(key))
                 /\ UNCHANGED <<cache, skipped, skippedFiles, failed>>
              \/ /\ key.gen = generation /\ outcome.result = "error"
                 /\ failed' = failed \cup {key} /\ skipped' = skipped \cup RowsOf(key)
                 /\ UNCHANGED <<cache, keyOf, skippedFiles, unavailable, dirty>>
    /\ UNCHANGED <<generation, top, todo, painted, ui, queue, worker, open, refused, reloads,
                   scrolls>>

(* The diff is replaced: a new generation, and SyntaxRuntime::clear. *)
Reload ==
    /\ ui = "idle" /\ reloads < MaxReloads /\ reloads' = reloads + 1
    /\ generation' = generation + 1 /\ dirty' = TRUE /\ painted' = {} /\ refused' = {}
    /\ pending' = {} /\ skipped' = {} /\ skippedFiles' = {} /\ unavailable' = {}
    /\ failed' = {} /\ cache' = <<>> /\ keyOf' = [r \in RowIds |-> NoKey]
    /\ SetGeneration(generation + 1)
    /\ UNCHANGED <<top, todo, ui, results, open, scrolls>>

Scroll ==
    /\ ui = "idle" /\ scrolls < MaxScrolls /\ scrolls' = scrolls + 1
    /\ \E t \in 1 .. (Len(Rows) - VisibleRows + 1) : t # top /\ top' = t
    /\ dirty' = TRUE
    /\ UNCHANGED <<generation, todo, painted, ui, queue, asked, worker, results, open,
                   refused, reloads>>

(* Drop: the channel is closed and emptied first, then the queue is closed,  *)
(* then the workers are joined.                                              *)
DropStart ==
    /\ ui = "idle" /\ ui' = "dropping" /\ open' = FALSE /\ results' = <<>>
    /\ UNCHANGED <<generation, top, dirty, todo, painted, queue, asked, worker, refused,
                   reloads, scrolls>>
CloseQueue ==
    /\ queue' = [queue EXCEPT !.closed = TRUE, !.visible = <<>>, !.prefetch = <<>>, !.bytes = 0]
    /\ worker' = Wake(Waiting)
DropQueue ==
    /\ ui = "dropping" /\ ui' = "joining" /\ CloseQueue
    /\ UNCHANGED <<generation, top, dirty, todo, painted, asked, results, open, refused,
                   reloads, scrolls>>
Joined ==
    /\ ui = "joining" /\ \A w \in Workers : worker[w].pc = "exited"
    /\ ui' = "dropped"
    /\ UNCHANGED <<generation, top, dirty, todo, painted, queue, asked, worker, results, open,
                   refused, reloads, scrolls>>

(* ------------------------------- workers -------------------------------- *)
PopEnds(w) ==
    /\ queue.closed /\ UNCHANGED queue
    /\ worker' = [worker EXCEPT ![w] = [pc |-> "exited"]]
PopWaits(w) ==
    /\ ~queue.closed /\ Depth(queue) = 0 /\ UNCHANGED queue
    /\ worker' = [worker EXCEPT ![w] = [pc |-> "waiting"]]
PopTakes(w, class) ==
    /\ ~queue.closed /\ queue[class] # <<>> /\ (class = "prefetch" => queue.visible = <<>>)
    /\ queue' = [queue EXCEPT ![class] = Tail(@), !.bytes = @ - Head(queue[class]).bytes]
    /\ worker' = IF Head(queue[class]).key.gen # queue.generation THEN worker
                 ELSE [worker EXCEPT ![w] = [pc |-> "run", key |-> Head(queue[class]).key]]
Pop(w) ==
    /\ worker[w].pc = "pop"
    /\ PopEnds(w) \/ PopWaits(w) \/ PopTakes(w, "visible") \/ PopTakes(w, "prefetch")
    /\ UNCHANGED <<generation, top, dirty, todo, painted, ui, asked, results, open, refused,
                   reloads, scrolls>>

(* A job ends highlighted, with lines of some bytes, in an error (or a panic) *)
(* or, for a full file that has to be read first, with no source.            *)
Run(w) ==
    /\ worker[w].pc = "run"
    /\ \E outcome \in Outcomes(worker[w].key.file, worker[w].key.hunk) :
          worker' = [worker EXCEPT ![w] =
                        [pc |-> "send", key |-> worker[w].key, outcome |-> outcome]]
    /\ UNCHANGED <<generation, top, dirty, todo, painted, ui, queue, asked, results, open,
                   refused, reloads, scrolls>>

(* blocking_send waits for room in the channel and fails once it is closed. *)
ChannelCapacity == Max({QueueEntries, 1})
Send(w) ==
    /\ worker[w].pc = "send"
    /\ \/ /\ open /\ Len(results) < ChannelCapacity
          /\ results' = Append(results, [key |-> worker[w].key, outcome |-> worker[w].outcome])
          /\ worker' = [worker EXCEPT ![w] = [pc |-> "pop"]]
       \/ /\ ~open /\ worker' = [worker EXCEPT ![w] = [pc |-> "exited"]] /\ UNCHANGED results
    /\ UNCHANGED <<generation, top, dirty, todo, painted, ui, queue, asked, open, refused,
                   reloads, scrolls>>

(* ----------------------------- specification ---------------------------- *)
Init ==
    /\ generation = 0 /\ top = 1 /\ dirty = TRUE /\ todo = <<>> /\ painted = {} /\ ui = "idle"
    /\ queue = [generation |-> 0, visible |-> <<>>, prefetch |-> <<>>, bytes |-> 0,
                closed |-> FALSE]
    /\ pending = {} /\ keyOf = [r \in RowIds |-> NoKey] /\ skipped = {} /\ skippedFiles = {}
    /\ unavailable = {} /\ failed = {} /\ cache = <<>>
    /\ worker = [w \in Workers |-> [pc |-> "pop"]] /\ results = <<>> /\ open = TRUE
    /\ refused = {} /\ reloads = 0 /\ scrolls = 0

UiLoop == StartFrame \/ AskRow \/ Paint \/ DrainResult
Dropping == DropQueue \/ Joined
WorkerStep(w) == Pop(w) \/ Run(w) \/ Send(w)
Next == UiLoop \/ Reload \/ Scroll \/ DropStart \/ Dropping \/ \E w \in Workers : WorkerStep(w)

(* The UI loop and the threads keep running; the user need not do anything.  *)
Fairness == WF_vars(UiLoop) /\ WF_vars(Dropping) /\ \A w \in Workers : WF_vars(WorkerStep(w))

Spec == Init /\ [][Next]_vars /\ Fairness

(* ------------------------------ properties ------------------------------ *)
(* The queue's byte count is that of the jobs it holds, and both limits are  *)
(* respected after every push, eviction, promotion and change of generation  *)
(* (syntax/queue.rs).                                                        *)
QueueWithinBudget ==
    /\ queue.bytes = Bytes(queue.visible) + Bytes(queue.prefetch)
    /\ Depth(queue) <= QueueEntries /\ queue.bytes <= QueueBytes

(* What the UI thread believes is under way is exactly what is queued, being *)
(* highlighted or waiting in the channel, each key once: a key pending with  *)
(* no job behind it would never be highlighted, a job not pending would be   *)
(* done twice (queue_job, drain and clear against the workers).              *)
WorkOfKey(key) ==
    Cardinality({i \in DOMAIN queue.visible : queue.visible[i].key = key})
    + Cardinality({i \in DOMAIN queue.prefetch : queue.prefetch[i].key = key})
    + Cardinality({w \in Workers : worker[w].pc \in {"run", "send"} /\ worker[w].key = key})
    + Cardinality({i \in DOMAIN results : results[i].key = key})
PendingIsWork ==
    open => /\ \A key \in pending : WorkOfKey(key) = 1
            /\ \A key \in KeysOf(queue) : key \in pending

(* So the books of queue and view stay exact. *)
BooksAreExact == QueueWithinBudget /\ PendingIsWork

(* A job in the queue always has a worker that is not asleep: the condition  *)
(* variable is signalled by every operation that adds work.                  *)
SomeoneIsAwake == Depth(queue) > 0 => Waiting # Workers

(* The view, its queue and what is pending are of one generation: a result   *)
(* of a replaced diff never settles a row of the new one (runtime.rs, clear). *)
OneGeneration ==
    queue.generation = generation /\ \A key \in pending : key.gen = generation

(* What a frame asks for, and whether the cache can hold it all at once,     *)
(* were every source as heavy as it may be and still be cached.  What it     *)
(* cannot hold at once is asked for again and again (runtime.rs:108).        *)
AskedFor == {r \in RowIds : r >= top - PrefetchRows /\ r < top + VisibleRows + PrefetchRows}
SourcesAsked ==
    {IF PrefersFull(Rows[r].file) THEN Full(Rows[r].file) ELSE Hunk(r) :
        r \in {n \in AskedFor : Rows[n].file \notin NoLanguage}}
Heaviest(key) ==
    Max({o.bytes : o \in {p \in Outcomes(key.file, key.hunk) :
                            p.result = "ok" /\ p.bytes <= CacheBytes}} \cup {0})
FitTogether ==
    /\ Cardinality(SourcesAsked) <= CacheEntries
    /\ MapThenSumSet(Heaviest, SourcesAsked) <= CacheBytes

(* Once the view is left alone where its sources fit together, every visible *)
(* row ends highlighted on the screen, or given up, or refused by a full     *)
(* queue when it was last asked for, whatever the cache holds of elsewhere   *)
(* (app/syntax.rs, lru.rs, runtime_results.rs: eviction, the fallback from a *)
(* full file to its hunks, results that redraw and results that do not).     *)
GivenUp(row) ==
    \/ row \in skipped \/ row \in refused
    \/ IsContext(row) /\ (Rows[row].file \in skippedFiles
                          \/ Full(Rows[row].file) \in failed \cup unavailable)
VisibleSettles ==
    <>[](ui \in {"dropping", "joining", "dropped"} \/ ~FitTogether
         \/ \A r \in Visible : r \in painted \/ GivenUp(r))

(* Dropping the runtime ends: no worker is left asleep on the queue or       *)
(* blocked on a full channel (runtime.rs, Drop).                             *)
DropEnds == ui = "dropping" ~> ui = "dropped"

=============================================================================
