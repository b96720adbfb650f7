------------------------------ MODULE LiveDiff ------------------------------
(***************************************************************************)
(* A view that watches its source (crates/mark-tui/src/live_diff.rs and    *)
(* the parts of app/ that feed on it): the watcher's callback thread, the  *)
(* reload worker and the UI thread, over three flags and two channels; the *)
(* reload a person asks for with `r`; and the external editor, which       *)
(* blocks the UI thread, pauses the worker and reloads the edited file.    *)
(*                                                                         *)
(* The source is one unit, its content a version number: a load shows the  *)
(* version it read.  Comparison options are fixed.  The model starts when  *)
(* run.rs has loaded the diff and started the watcher.                     *)
(***************************************************************************)
EXTENDS Integers, Sequences

CONSTANTS
    ControlCapacity, ReloadCapacity,      \* capacities of the two channels
    Scenarios          \* how the view may have been started, and the bounds of a run

(* watch: launched with --watch; pausable: the source is the worktree, the   *)
(* one the editor pauses; the rest: how often each thing may happen.         *)
ASSUME LiveAssumption ==
    /\ {ControlCapacity, ReloadCapacity} \subseteq Nat \ {0}
    /\ Scenarios \subseteq
          [watch: BOOLEAN, pausable: BOOLEAN, changes: Nat, reloads: Nat, editors: Nat,
           toggles: Nat, loads: Nat, watches: Nat]

VARIABLES
    source,       \* the version of the watched files
    events,       \* file events the watcher has not been called with
    live,         \* the LiveDiff: running, auto_reload, live_diff_failed_options
    flags,        \* paused, pending_while_paused, invalidated
    watcher,      \* where the watcher's callback is
    control,      \* the control channel
    worker,       \* where the reload worker is, and the version it has loaded
    reloads,      \* the channel of its results
    ui,           \* where the UI thread is
    view,         \* what it shows and says
    load,         \* pending_diff_load: whether there is one, and what it read
    edit,         \* the editor and the reload of the file it edited
    used          \* the scenario, and how much of its bounds is used

vars == <<source, events, live, flags, watcher, control, worker, reloads, ui, view, load, edit, used>>

Unread == -1            \* a load that has not read the source yet
Failed == -2            \* a load that could not read it
Bound == used.of

IdleWorker == [at |-> "waiting", loaded |-> Unread]
NoEdit == [before |-> Unread, queued |-> FALSE, running |-> FALSE, generation |-> 0, read |-> Unread]

Init ==
    /\ \E s \in Scenarios :
          used = [of |-> s, reloads |-> 0, editors |-> 0, toggles |-> 0, loads |-> 0, watches |-> 0]
    /\ source = 0 /\ events = 0
    /\ live = [running |-> TRUE, auto |-> Bound.watch, failed |-> FALSE]
    /\ flags = [paused |-> FALSE, pending |-> FALSE, invalidated |-> FALSE]
    /\ watcher = "idle" /\ control = <<>>
    /\ worker = IdleWorker /\ reloads = <<>>
    /\ ui = "invalidation"
    /\ view = [shown |-> 0, changed |-> FALSE, generation |-> 0, alert |-> FALSE,
               status |-> IF Bound.watch THEN "idle" ELSE "off"]
    /\ load = [running |-> FALSE, read |-> Unread]
    /\ edit = NoEdit

---------------------------------------------------------------------------
(* The environment *)

Change ==
    /\ source < Bound.changes
    /\ source' = source + 1
    /\ events' = events + 1
    /\ UNCHANGED <<live, flags, watcher, control, worker, reloads, ui, view, load, edit, used>>

LoadFails == used.loads < Bound.loads /\ used' = [used EXCEPT !.loads = @ + 1]
WatchFails == used.watches < Bound.watches /\ used' = [used EXCEPT !.watches = @ + 1]

(* What a load started earlier finds in the source. *)
ReadsSource(read) ==
    \/ read = source /\ UNCHANGED used
    \/ read = Failed /\ LoadFails

---------------------------------------------------------------------------
(* The watcher's callback: queue_changed_or_record_pending *)

TakeEvent ==
    /\ live.running /\ watcher = "idle" /\ events > 0
    /\ events' = events - 1
    /\ flags' = [flags EXCEPT !.invalidated = TRUE]
    /\ watcher' = IF live.auto THEN "looking" ELSE "idle"
    /\ UNCHANGED <<source, live, control, worker, reloads, ui, view, load, edit, used>>

WatcherError ==
    /\ live.running /\ watcher = "idle"
    /\ WatchFails
    /\ watcher' = "failing"
    /\ UNCHANGED <<source, events, live, flags, control, worker, reloads, ui, view, load, edit>>

WatcherMoves(next) ==
    /\ watcher' = next
    /\ UNCHANGED <<source, events, live, worker, reloads, ui, view, load, edit, used>>

LookForPause ==
    /\ watcher = "looking"
    /\ WatcherMoves(IF flags.paused THEN "recording" ELSE "sending")
    /\ UNCHANGED <<flags, control>>

RecordPending ==
    /\ watcher = "recording"
    /\ flags' = [flags EXCEPT !.pending = TRUE]
    /\ WatcherMoves("rechecking")
    /\ UNCHANGED control

LookAgain ==
    /\ watcher = "rechecking"
    /\ WatcherMoves(IF flags.paused THEN "idle" ELSE "claiming")
    /\ UNCHANGED <<flags, control>>

ClaimPending ==
    /\ watcher = "claiming"
    /\ flags' = [flags EXCEPT !.pending = FALSE]
    /\ WatcherMoves(IF flags.pending THEN "sending" ELSE "idle")
    /\ UNCHANGED control

(* send_with_timeout: a command that finds no room for ten milliseconds is  *)
(* dropped.                                                                 *)
SendChanged ==
    control' = IF Len(control) < ControlCapacity THEN Append(control, "changed") ELSE control

QueueChanged ==
    /\ watcher = "sending"
    /\ SendChanged
    /\ WatcherMoves("idle")
    /\ UNCHANGED flags

ReportWatcherError ==
    /\ watcher = "failing"
    /\ Len(control) < ControlCapacity
    /\ control' = Append(control, "watcher_failed")
    /\ WatcherMoves("idle")
    /\ UNCHANGED flags

Watching ==
    \/ TakeEvent \/ LookForPause \/ RecordPending \/ LookAgain \/ ClaimPending
    \/ QueueChanged \/ ReportWatcherError

---------------------------------------------------------------------------
(* The reload worker: spawn_live_diff_worker *)

WorkerMoves(next) ==
    /\ worker' = next
    /\ UNCHANGED <<source, events, live, watcher, ui, view, load, edit>>

(* recv, alone or in wait_for_quiet_period, which swallows what follows.    *)
TakeCommand ==
    /\ worker.at \in {"waiting", "quiet"} /\ control # <<>>
    /\ control' = Tail(control)
    /\ WorkerMoves([IdleWorker EXCEPT !.at = IF Head(control) = "changed" THEN "quiet" ELSE "failing"])
    /\ UNCHANGED <<flags, reloads, used>>

QuietPeriodEnds ==
    /\ worker.at = "quiet"
    /\ WorkerMoves([worker EXCEPT !.at = "looking"])
    /\ UNCHANGED <<flags, control, reloads, used>>

(* reload_should_wait_for_unpause, before a load and again after it. *)
Proceeds == [worker EXCEPT !.at = IF worker.loaded = Unread THEN "starting" ELSE "sending"]

WorkerLooks ==
    /\ worker.at = "looking"
    /\ WorkerMoves(IF flags.paused THEN [worker EXCEPT !.at = "recording"] ELSE Proceeds)
    /\ UNCHANGED <<flags, control, reloads, used>>

WorkerRecords ==
    /\ worker.at = "recording"
    /\ flags' = [flags EXCEPT !.pending = TRUE]
    /\ WorkerMoves([worker EXCEPT !.at = "rechecking"])
    /\ UNCHANGED <<control, reloads, used>>

(* Still paused: the reload is left to whoever ends the pause. *)
WorkerLooksAgain ==
    /\ worker.at = "rechecking"
    /\ WorkerMoves(IF flags.paused THEN IdleWorker ELSE [worker EXCEPT !.at = "claiming"])
    /\ UNCHANGED <<flags, control, reloads, used>>

WorkerClaims ==
    /\ worker.at = "claiming"
    /\ flags' = [flags EXCEPT !.pending = FALSE]
    /\ WorkerMoves(Proceeds)
    /\ UNCHANGED <<control, reloads, used>>

SendResult(result) ==
    /\ Len(reloads) < ReloadCapacity
    /\ reloads' = Append(reloads, result)

ReportStarted ==
    /\ worker.at = "starting"
    /\ SendResult([kind |-> "started"])
    /\ WorkerMoves([worker EXCEPT !.at = "loading"])
    /\ UNCHANGED <<flags, control, used>>

LoadSource ==
    /\ worker.at = "loading"
    /\ \E read \in {source, Failed} :
          /\ ReadsSource(read)
          /\ WorkerMoves([at |-> "looking", loaded |-> read])
    /\ UNCHANGED <<flags, control, reloads>>

(* Mutants: the worker stops after a load it could not do; commands that     *)
(* came during the load are taken for served.                               *)
ReportLoaded_StopsOnError ==
    /\ worker.at = "sending"
    /\ SendResult([kind |-> "loaded", read |-> worker.loaded])
    /\ WorkerMoves(IF worker.loaded = Failed THEN [IdleWorker EXCEPT !.at = "finished"] ELSE IdleWorker)
    /\ UNCHANGED <<flags, control, used>>
ReportLoaded_DrainsCommands ==
    /\ worker.at = "sending"
    /\ SendResult([kind |-> "loaded", read |-> worker.loaded])
    /\ WorkerMoves(IdleWorker)
    /\ control' = <<>>
    /\ UNCHANGED <<flags, used>>

ReportLoaded ==
    /\ worker.at = "sending"
    /\ SendResult([kind |-> "loaded", read |-> worker.loaded])
    /\ WorkerMoves(IdleWorker)
    /\ UNCHANGED <<flags, control, used>>

ReportFailed ==
    /\ worker.at = "failing"
    /\ SendResult([kind |-> "watcher_failed"])
    /\ WorkerMoves([worker EXCEPT !.at = "finished"])
    /\ UNCHANGED <<flags, control, used>>

Working ==
    \/ TakeCommand \/ QuietPeriodEnds \/ WorkerLooks \/ WorkerRecords \/ WorkerLooksAgain
    \/ WorkerClaims \/ ReportStarted \/ LoadSource \/ ReportLoaded \/ ReportFailed

---------------------------------------------------------------------------
(* The UI thread: run_loop, one drain after the other *)

UiMoves(next) ==
    /\ ui' = next
    /\ UNCHANGED <<source, watcher, worker>>

Enabled(v) == v.status # "off"
Reset(v) == [v EXCEPT !.status = IF Enabled(v) THEN "idle" ELSE "off"]
Alerted(v) == [v EXCEPT !.alert = TRUE]

Invalidated(v) ==
    [v EXCEPT !.changed = TRUE,
              !.status = IF @ \in {"off", "pending"} THEN @ ELSE "invalidated"]

(* replace_loaded_diff; a full reload always replaces (replace_cached_diff). *)
Replaced(v, read, always) ==
    [Reset(v) EXCEPT !.shown = read, !.changed = FALSE, !.alert = FALSE,
                     !.generation = IF always \/ read # v.shown THEN @ + 1 ELSE @]

(* drain_live_diff_invalidation, once a turn and before every event. *)
NoticeChange == live.running /\ flags.invalidated
Noticed == IF NoticeChange THEN Invalidated(view) ELSE view
FlagsTaken == [flags EXCEPT !.invalidated = @ /\ ~live.running]

DrainInvalidation ==
    /\ ui = "invalidation"
    /\ flags' = FlagsTaken
    /\ view' = Noticed
    /\ UiMoves("reloads")
    /\ UNCHANGED <<events, live, control, reloads, load, edit, used>>

Shown(v, result) ==
    CASE result.kind = "started" -> [v EXCEPT !.status = IF Enabled(v) THEN "pending" ELSE "off"]
      [] result.kind = "watcher_failed" -> Alerted(Reset(v))
      [] result.kind = "loaded" -> IF result.read = Failed THEN Alerted(Reset(v))
                                   ELSE Replaced(v, result.read, FALSE)

DrainReload ==
    /\ ui = "reloads" /\ live.running /\ reloads # <<>>
    /\ reloads' = Tail(reloads)
    /\ view' = Shown(view, Head(reloads))
    /\ live' = [live EXCEPT !.failed = @ \/ Head(reloads).kind = "watcher_failed"]
    /\ UiMoves(ui)
    /\ UNCHANGED <<events, flags, control, load, edit, used>>

ReloadsDrained ==
    /\ ui = "reloads" /\ ~(live.running /\ reloads # <<>>)
    /\ UiMoves("sync")
    /\ UNCHANGED <<events, live, flags, control, reloads, view, load, edit, used>>

---------------------------------------------------------------------------
(* sync_live_diff: the watcher fits the options, or is replaced *)

AutoReload == Bound.watch /\ Enabled(view)
Fits == live.running /\ live.auto = AutoReload /\ worker.at # "finished"

KeepLive ==
    /\ ui = "sync"
    /\ Fits \/ (~live.running /\ live.failed)
    /\ UiMoves("load")
    /\ UNCHANGED <<events, live, flags, control, reloads, view, load, edit, used>>

(* Dropping a LiveDiff takes its threads, flags and channels with it. *)
DropLive(running, failed) ==
    /\ live' = [running |-> running, auto |-> running /\ AutoReload, failed |-> failed]
    /\ flags' = [paused |-> FALSE, pending |-> FALSE, invalidated |-> FALSE]
    /\ events' = 0
    /\ watcher' = "idle" /\ control' = <<>>
    /\ worker' = IdleWorker /\ reloads' = <<>>
    /\ ui' = "load"
    /\ UNCHANGED <<source, load, edit>>

AbandonLive ==
    /\ ui = "sync" /\ live.running /\ ~Fits /\ live.failed
    /\ DropLive(FALSE, TRUE)
    /\ UNCHANGED <<view, used>>

RestartLive ==
    /\ ui = "sync" /\ ~Fits /\ ~live.failed
    /\ \/ DropLive(TRUE, FALSE) /\ view' = Reset(view) /\ UNCHANGED used
       \/ DropLive(FALSE, TRUE) /\ view' = Alerted(Reset(view)) /\ WatchFails

---------------------------------------------------------------------------
(* The load `r` asks for: start_uncached_diff_load, drain_pending_diff_load *)

DrainLoad ==
    /\ ui = "load"
    /\ IF load.running /\ load.read # Unread
       THEN /\ view' = IF load.read = Failed THEN Alerted(view) ELSE Replaced(view, load.read, TRUE)
            /\ load' = [running |-> FALSE, read |-> Unread]
       ELSE UNCHANGED <<view, load>>
    /\ UiMoves("edit")
    /\ UNCHANGED <<events, live, flags, control, reloads, edit, used>>

LoadReads ==
    /\ load.running /\ load.read = Unread
    /\ \E read \in {source, Failed} :
          ReadsSource(read) /\ load' = [load EXCEPT !.read = read]
    /\ UNCHANGED <<source, events, live, flags, watcher, control, worker, reloads, ui, view, edit>>

---------------------------------------------------------------------------
(* The reload of an edited file: start_pending_editor_reload, drain_editor_reload *)

DrainEdit ==
    /\ ui = "edit"
    /\ CASE edit.queued ->
              /\ edit' = [edit EXCEPT !.queued = FALSE, !.running = TRUE,
                                      !.generation = view.generation, !.read = Unread]
              /\ UNCHANGED view
         [] ~edit.queued /\ edit.running /\ edit.read # Unread ->
              /\ edit' = NoEdit
              /\ view' = IF edit.generation # view.generation THEN view
                         ELSE IF edit.read = Failed THEN Alerted(view)
                         ELSE [view EXCEPT !.shown = edit.read, !.generation = @ + 1]
         [] OTHER -> UNCHANGED <<edit, view>>
    /\ UiMoves("input")
    /\ UNCHANGED <<events, live, flags, control, reloads, load, used>>

EditReads ==
    /\ edit.running /\ edit.read = Unread
    /\ \E read \in {source, Failed} :
          ReadsSource(read) /\ edit' = [edit EXCEPT !.read = read]
    /\ UNCHANGED <<source, events, live, flags, watcher, control, worker, reloads, ui, view, load>>

---------------------------------------------------------------------------
(* Input, and the editor that blocks the UI thread *)

NoInput ==
    /\ ui = "input"
    /\ UiMoves("invalidation")
    /\ UNCHANGED <<events, live, flags, control, reloads, view, load, edit, used>>

PressReload ==
    /\ ui = "input" /\ used.reloads < Bound.reloads
    /\ load' = [running |-> TRUE, read |-> Unread]
    /\ used' = [used EXCEPT !.reloads = @ + 1]
    /\ flags' = FlagsTaken /\ view' = Noticed
    /\ UiMoves("invalidation")
    /\ UNCHANGED <<events, live, control, reloads, edit>>

(* apply_options_menu_draft; turned on again, live reload starts with a load. *)
ToggleLiveReload ==
    /\ ui = "input" /\ Bound.watch /\ used.toggles < Bound.toggles
    /\ used' = [used EXCEPT !.toggles = @ + 1]
    /\ flags' = FlagsTaken
    /\ view' = [Noticed EXCEPT !.status = IF Enabled(view) THEN "off" ELSE "idle"]
    /\ live' = [live EXCEPT !.failed = FALSE]
    /\ load' = IF Enabled(view) THEN load ELSE [running |-> TRUE, read |-> Unread]
    /\ UiMoves("invalidation")
    /\ UNCHANGED <<events, control, reloads, edit>>

OpenEditor ==
    /\ ui = "input" /\ used.editors < Bound.editors
    /\ used' = [used EXCEPT !.editors = @ + 1]
    /\ flags' = [FlagsTaken EXCEPT !.paused = Bound.pausable /\ live.running]
    /\ view' = Noticed
    /\ edit' = [edit EXCEPT !.before = source]
    /\ UiMoves("editing")
    /\ UNCHANGED <<events, live, control, reloads, load>>

CloseEditor ==
    /\ ui = "editing"
    /\ flags' = [flags EXCEPT !.paused = FALSE]
    /\ UiMoves(IF flags.paused THEN "unpausing" ELSE "closing")
    /\ UNCHANGED <<events, live, control, reloads, view, load, edit, used>>

(* Mutant: the reload kept during the pause is dropped with it. *)
FlushPending_Dropped ==
    /\ ui = "unpausing"
    /\ flags' = [flags EXCEPT !.pending = FALSE]
    /\ UiMoves("closing")
    /\ UNCHANGED <<events, live, control, reloads, view, load, edit, used>>

(* flush_pending_paused_reload *)
FlushPending ==
    /\ ui = "unpausing"
    /\ flags' = [flags EXCEPT !.pending = FALSE]
    /\ UiMoves(IF flags.pending THEN "flushing" ELSE "closing")
    /\ UNCHANGED <<events, live, control, reloads, view, load, edit, used>>

FlushChanged ==
    /\ ui = "flushing"
    /\ SendChanged
    /\ UiMoves("closing")
    /\ UNCHANGED <<events, live, flags, reloads, view, load, edit, used>>

(* A changed file is reloaded, if the editor reports success. *)
EditorClosed ==
    /\ ui = "closing"
    /\ \E reload \in {FALSE, source # edit.before} :
          edit' = [edit EXCEPT !.before = Unread, !.queued = @ \/ reload]
    /\ UiMoves("invalidation")
    /\ UNCHANGED <<events, live, flags, control, reloads, view, load, used>>

UiRuns ==
    \/ DrainInvalidation \/ DrainReload \/ ReloadsDrained
    \/ KeepLive \/ AbandonLive \/ RestartLive
    \/ DrainLoad \/ DrainEdit \/ NoInput
    \/ FlushPending \/ FlushChanged \/ EditorClosed

Person == PressReload \/ ToggleLiveReload \/ OpenEditor \/ CloseEditor

Next == Change \/ WatcherError \/ Watching \/ Working \/ UiRuns \/ LoadReads \/ EditReads \/ Person

(* Every thread keeps running; nobody has to change, press or close anything. *)
Fairness ==
    /\ WF_vars(Watching) /\ WF_vars(Working) /\ WF_vars(UiRuns)
    /\ WF_vars(LoadReads) /\ WF_vars(EditReads)

Spec == Init /\ [][Next]_vars /\ Fairness
---------------------------------------------------------------------------
(* Something will still bring the view up to the source: an event or a      *)
(* command, a worker that has not read it yet, or a result that has.        *)
UpToDate(read) == read \in {Failed, source}
Brings(result) == result.kind = "loaded" /\ UpToDate(result.read)

Heard == events > 0 \/ watcher \in {"looking", "sending"} \/ control # <<>>

WorkerBrings ==
    \/ worker.at \in {"quiet", "starting", "loading"}
    \/ worker.at = "looking" /\ worker.loaded = Unread
    \/ worker.at \in {"looking", "sending"} /\ UpToDate(worker.loaded)

Coming == Heard \/ WorkerBrings \/ \E k \in DOMAIN reloads : Brings(reloads[k])

(* A worker that was told to pause while it recorded its reload takes the   *)
(* record back, and with it one that the watcher made for a newer change;   *)
(* and a load of the reader's own may be shown after a newer one.           *)
MayLag == (Bound.watch /\ Bound.pausable /\ used.editors > 0) \/ used.reloads + used.toggles > 0
Undisturbed == used.watches = 0 /\ ~MayLag

(* In watch mode, while no editor pauses the worker, nobody reloads by hand *)
(* and the watcher does not fail, no change is forgotten: bursts that fill  *)
(* the channel, commands dropped for lack of room, changes during a load    *)
(* and failed loads all leave either the current source or an error on the  *)
(* screen, or a reload that is still to come.                               *)
NoChangeForgotten ==
    live.running /\ live.auto /\ Undisturbed => view.shown = source \/ view.alert \/ Coming

(* A watched view that may not lag does not stay behind its source: it      *)
(* shows it again and again, or that it could not, unless the editor is     *)
(* kept open.                                                               *)
WatchedViewCatchesUp ==
    []<>(~AutoReload \/ MayLag \/ view.shown = source \/ view.alert \/ ui = "editing")

(* A view that stays behind its source says so, by the `!` after the change *)
(* counts or an error, as long as its watcher does not fail.                *)
StaleViewSaysSo ==
    Undisturbed ~>
        (view.shown = source \/ view.changed \/ view.alert \/ ui = "editing" \/ ~Undisturbed)

(* "Refreshing" ends, whatever the pause kept back, failed or restarted.    *)
RefreshingEnds == view.status = "pending" ~> (view.status # "pending" \/ ui = "editing")

(* What a view says of itself is true in the end: that it is refreshing, or *)
(* that it is behind (live_diff.rs, runner.rs, diff_replace.rs).            *)
StatusTellsTruth == RefreshingEnds /\ StaleViewSaysSo
=============================================================================
