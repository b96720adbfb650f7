----------------------------- MODULE LiveDiffProofs -----------------------------
(***************************************************************************)
(* For channels of any capacity and any number of changes, failed loads    *)
(* and closed editors: whatever the pipeline from the watcher to the       *)
(* screen holds is up to date, or something is still behind it.            *)
(***************************************************************************)
EXTENDS LiveDiff, TLAPS

Reads == Nat \cup {Unread, Failed}
Results == [kind: {"started", "watcher_failed"}] \cup [kind: {"loaded"}, read: Nat \cup {Failed}]
Statuses == {"off", "idle", "invalidated", "pending"}

WorkerPhases == {"waiting", "quiet", "looking", "recording", "rechecking", "claiming", "starting",
                 "loading", "sending", "failing", "finished"}

Counters == [of: Scenarios, reloads: Nat, editors: Nat, toggles: Nat, loads: Nat, watches: Nat]
Lives == [running: BOOLEAN, auto: BOOLEAN, failed: BOOLEAN]
FlagSets == [paused: BOOLEAN, pending: BOOLEAN, invalidated: BOOLEAN]
WorkerStates == [at: WorkerPhases, loaded: Reads]
Views == [shown: Nat, changed: BOOLEAN, generation: Nat, alert: BOOLEAN, status: Statuses]
Loads == [running: BOOLEAN, read: Reads]
Edits == [before: Reads, queued: BOOLEAN, running: BOOLEAN, generation: Nat, read: Reads]

Types ==
    /\ used \in Counters /\ source \in Nat /\ events \in Nat
    /\ live \in Lives /\ flags \in FlagSets
    /\ control \in Seq({"changed", "watcher_failed"})
    /\ worker \in WorkerStates /\ (worker.at = "sending" => worker.loaded # Unread)
    /\ reloads \in Seq(Results)
    /\ view \in Views /\ load \in Loads /\ edit \in Edits

(* Nothing has read what is not there yet. *)
NotAhead ==
    /\ view.shown <= source /\ worker.loaded <= source /\ load.read <= source /\ edit.read <= source
    /\ \A k \in DOMAIN reloads : reloads[k].kind = "loaded" => reloads[k].read <= source

(* While nothing disturbs a watched view, its watcher runs and no thread is *)
(* pausing, failing or loading for a person.                                *)
Running ==
    /\ live.running /\ live.auto /\ ~live.failed /\ view.status # "off"
    /\ ~flags.paused /\ ui \notin {"unpausing", "flushing"}
    /\ watcher \in {"idle", "looking", "sending"}
    /\ worker.at \in {"waiting", "quiet", "looking", "starting", "loading", "sending"}
    /\ \A k \in DOMAIN control : control[k] = "changed"
    /\ \A k \in DOMAIN reloads : reloads[k].kind # "watcher_failed"
    /\ ~load.running
    /\ worker.at \in {"looking", "sending"} \/ worker.loaded = Unread

(* A stage that holds an old reading has a newer one behind it. *)
Followed ==
    /\ worker.at \in {"looking", "sending"} => worker.loaded = Unread \/ UpToDate(worker.loaded) \/ Heard
    /\ \A k \in DOMAIN reloads :
          reloads[k].kind = "loaded" =>
              \/ UpToDate(reloads[k].read) \/ Heard \/ WorkerBrings
              \/ \E l \in DOMAIN reloads : l > k /\ Brings(reloads[l])
    /\ view.shown = source \/ view.alert \/ Coming

(* The reload of an edited file that is still wanted is no older than what  *)
(* is shown.                                                                *)
EditIsNewer ==
    edit.running => /\ edit.generation <= view.generation
                    /\ edit.generation = view.generation /\ edit.read \in Nat => view.shown <= edit.read

LiveInv ==
    /\ Types /\ NotAhead /\ EditIsNewer
    /\ ~Bound.watch => ~live.auto
    /\ Bound.watch /\ Undisturbed => Running /\ Followed

---------------------------------------------------------------------------
(* Types *)

(* Counting one more. *)
Grown(n, u) ==
    /\ n.of = u.of /\ u.reloads <= n.reloads /\ u.editors <= n.editors
    /\ u.toggles <= n.toggles /\ u.watches <= n.watches

LEMMA CountedOnce ==
  ASSUME NEW u \in Counters
  PROVE  /\ Grown(u, u)
         /\ [u EXCEPT !.reloads = @ + 1] \in Counters /\ Grown([u EXCEPT !.reloads = @ + 1], u)
         /\ [u EXCEPT !.editors = @ + 1] \in Counters /\ Grown([u EXCEPT !.editors = @ + 1], u)
         /\ [u EXCEPT !.toggles = @ + 1] \in Counters /\ Grown([u EXCEPT !.toggles = @ + 1], u)
         /\ [u EXCEPT !.loads = @ + 1] \in Counters /\ Grown([u EXCEPT !.loads = @ + 1], u)
         /\ [u EXCEPT !.watches = @ + 1] \in Counters /\ Grown([u EXCEPT !.watches = @ + 1], u)
<1>1. u.reloads \in Nat /\ u.editors \in Nat /\ u.toggles \in Nat /\ u.loads \in Nat /\ u.watches \in Nat
  BY DEF Counters
<1>2. \A k \in Nat : k + 1 \in Nat /\ k <= k /\ k <= k + 1
  OBVIOUS
<1>3. [u EXCEPT !.reloads = @ + 1] \in Counters /\ Grown([u EXCEPT !.reloads = @ + 1], u)
  <2> DEFINE next == u.reloads + 1
             n == [u EXCEPT !.reloads = next]
  <2>1. next \in Nat /\ u.reloads <= next
    BY <1>1, <1>2
  <2> HIDE DEF next
  <2>2. n \in Counters
    BY <2>1 DEF Counters
  <2>3. n.reloads = next /\ n.of = u.of /\ n.editors = u.editors /\ n.toggles = u.toggles /\ n.loads = u.loads /\ n.watches = u.watches
    BY DEF Counters
  <2> HIDE DEF n
  <2>4. Grown(n, u)
    BY <1>1, <1>2, <2>1, <2>3 DEF Grown
  <2> QED  BY <2>2, <2>4 DEF n, next
<1>4. [u EXCEPT !.editors = @ + 1] \in Counters /\ Grown([u EXCEPT !.editors = @ + 1], u)
  <2> DEFINE next == u.editors + 1
             n == [u EXCEPT !.editors = next]
  <2>1. next \in Nat /\ u.editors <= next
    BY <1>1, <1>2
  <2> HIDE DEF next
  <2>2. n \in Counters
    BY <2>1 DEF Counters
  <2>3. n.editors = next /\ n.of = u.of /\ n.reloads = u.reloads /\ n.toggles = u.toggles /\ n.loads = u.loads /\ n.watches = u.watches
    BY DEF Counters
  <2> HIDE DEF n
  <2>4. Grown(n, u)
    BY <1>1, <1>2, <2>1, <2>3 DEF Grown
  <2> QED  BY <2>2, <2>4 DEF n, next
<1>5. [u EXCEPT !.toggles = @ + 1] \in Counters /\ Grown([u EXCEPT !.toggles = @ + 1], u)
  <2> DEFINE next == u.toggles + 1
             n == [u EXCEPT !.toggles = next]
  <2>1. next \in Nat /\ u.toggles <= next
    BY <1>1, <1>2
  <2> HIDE DEF next
  <2>2. n \in Counters
    BY <2>1 DEF Counters
  <2>3. n.toggles = next /\ n.of = u.of /\ n.reloads = u.reloads /\ n.editors = u.editors /\ n.loads = u.loads /\ n.watches = u.watches
    BY DEF Counters
  <2> HIDE DEF n
  <2>4. Grown(n, u)
    BY <1>1, <1>2, <2>1, <2>3 DEF Grown
  <2> QED  BY <2>2, <2>4 DEF n, next
<1>6. [u EXCEPT !.loads = @ + 1] \in Counters /\ Grown([u EXCEPT !.loads = @ + 1], u)
  <2> DEFINE next == u.loads + 1
             n == [u EXCEPT !.loads = next]
  <2>1. next \in Nat /\ u.loads <= next
    BY <1>1, <1>2
  <2> HIDE DEF next
  <2>2. n \in Counters
    BY <2>1 DEF Counters
  <2>3. n.loads = next /\ n.of = u.of /\ n.reloads = u.reloads /\ n.editors = u.editors /\ n.toggles = u.toggles /\ n.watches = u.watches
    BY DEF Counters
  <2> HIDE DEF n
  <2>4. Grown(n, u)
    BY <1>1, <1>2, <2>1, <2>3 DEF Grown
  <2> QED  BY <2>2, <2>4 DEF n, next
<1>7. [u EXCEPT !.watches = @ + 1] \in Counters /\ Grown([u EXCEPT !.watches = @ + 1], u)
  <2> DEFINE next == u.watches + 1
             n == [u EXCEPT !.watches = next]
  <2>1. next \in Nat /\ u.watches <= next
    BY <1>1, <1>2
  <2> HIDE DEF next
  <2>2. n \in Counters
    BY <2>1 DEF Counters
  <2>3. n.watches = next /\ n.of = u.of /\ n.reloads = u.reloads /\ n.editors = u.editors /\ n.toggles = u.toggles /\ n.loads = u.loads
    BY DEF Counters
  <2> HIDE DEF n
  <2>4. Grown(n, u)
    BY <1>1, <1>2, <2>1, <2>3 DEF Grown
  <2> QED  BY <2>2, <2>4 DEF n, next
<1>8. Grown(u, u)
  BY <1>1, <1>2 DEF Grown
<1> QED  BY <1>3, <1>4, <1>5, <1>6, <1>7, <1>8

(* What the UI thread makes of a view is a view. *)
LEMMA ViewTypes ==
  ASSUME NEW v \in Views
  PROVE  /\ Reset(v) \in Views /\ Alerted(v) \in Views /\ Invalidated(v) \in Views
         /\ \A read \in Nat, always \in BOOLEAN : Replaced(v, read, always) \in Views
         /\ \A result \in Results : Shown(v, result) \in Views
<1>1. \A w \in Views : Reset(w) \in Views /\ Alerted(w) \in Views
  BY DEF Reset, Alerted, Enabled, Views, Statuses
<1>2. Invalidated(v) \in Views
  BY DEF Invalidated, Views, Statuses
<1>3. ASSUME NEW read \in Nat, NEW always \in BOOLEAN
      PROVE  Replaced(v, read, always) \in Views
  <2>1. \A w \in Views, g \in Nat : [w EXCEPT !.shown = read, !.changed = FALSE, !.alert = FALSE,
                                                !.generation = g] \in Views
    BY DEF Views
  <2>2. Reset(v).generation \in Nat /\ Reset(v).generation + 1 \in Nat
    BY <1>1 DEF Views
  <2> QED  BY <1>1, <2>1, <2>2 DEF Replaced
<1>4. ASSUME NEW result \in Results
      PROVE  Shown(v, result) \in Views
  <2>1. CASE result.kind = "started"
    BY <2>1 DEF Shown, Views, Statuses
  <2>2. CASE result.kind = "watcher_failed"
    BY <1>1, <2>2 DEF Shown
  <2>3. CASE result.kind = "loaded"
    <3>1. result.read \in Nat \cup {Failed}
      BY <2>3 DEF Results
    <3> QED  BY <1>1, <1>3, <2>3, <3>1 DEF Shown
  <2> QED  BY <2>1, <2>2, <2>3 DEF Results
<1> QED  BY <1>1, <1>2, <1>3, <1>4

LEMMA WorkerTypes ==
  /\ \A w \in WorkerStates, at \in WorkerPhases :
        /\ [w EXCEPT !.at = at] \in WorkerStates
        /\ [w EXCEPT !.at = at].at = at /\ [w EXCEPT !.at = at].loaded = w.loaded
  /\ IdleWorker \in WorkerStates /\ IdleWorker.at = "waiting" /\ IdleWorker.loaded = Unread
<1>1. IdleWorker \in WorkerStates /\ IdleWorker.at = "waiting" /\ IdleWorker.loaded = Unread
  BY DEF IdleWorker, WorkerStates, WorkerPhases, Reads
<1>2. \A w \in WorkerStates, at \in WorkerPhases :
        /\ [w EXCEPT !.at = at] \in WorkerStates
        /\ [w EXCEPT !.at = at].at = at /\ [w EXCEPT !.at = at].loaded = w.loaded
  BY DEF WorkerStates
<1> QED  BY <1>1, <1>2

LEMMA ProceedsTypes ==
  ASSUME Types
  PROVE  Proceeds \in WorkerStates /\ (Proceeds.at = "sending" => Proceeds.loaded # Unread)
<1> DEFINE next == IF worker.loaded = Unread THEN "starting" ELSE "sending"
<1>1. next \in WorkerPhases /\ worker \in WorkerStates
  BY DEF Types, WorkerPhases
<1>2. Proceeds = [worker EXCEPT !.at = next]
  BY DEF Proceeds
<1>3. next = "sending" => worker.loaded # Unread
  OBVIOUS
<1> HIDE DEF next
<1> QED  BY <1>1, <1>2, <1>3, WorkerTypes

LEMMA TypesStep ==
  ASSUME Types, [Next]_vars
  PROVE  Types'
<1> USE DEF Types
<1>1. CASE Change
  <2>1. source' \in Nat
    BY <1>1 DEF Change
  <2>2. events' \in Nat
    BY <1>1 DEF Change
  <2> QED  BY <1>1, <2>1, <2>2 DEF Change
<1>2. CASE LoadReads
  <2>1. load' \in Loads
    BY <1>2 DEF LoadReads, Loads, Reads
  <2>2. used' \in Counters
    BY <1>2, CountedOnce DEF LoadReads, ReadsSource, LoadFails
  <2> QED  BY <1>2, <2>1, <2>2 DEF LoadReads
<1>3. CASE EditReads
  <2>1. edit' \in Edits
    BY <1>3 DEF EditReads, Edits, Reads
  <2>2. used' \in Counters
    BY <1>3, CountedOnce DEF EditReads, ReadsSource, LoadFails
  <2> QED  BY <1>3, <2>1, <2>2 DEF EditReads
<1>4. CASE WatcherError
  <2>1. used' \in Counters
    BY <1>4, CountedOnce DEF WatcherError, WatchFails
  <2> QED  BY <1>4, <2>1 DEF WatcherError
<1>5. CASE TakeEvent
  <2>1. events' \in Nat
    BY <1>5 DEF TakeEvent
  <2>2. flags' \in FlagSets
    BY <1>5 DEF TakeEvent, FlagSets
  <2> QED  BY <1>5, <2>1, <2>2 DEF TakeEvent
<1>6. CASE LookForPause
  BY <1>6 DEF LookForPause, WatcherMoves
<1>7. CASE RecordPending
  <2>1. flags' \in FlagSets
    BY <1>7 DEF RecordPending, FlagSets
  <2> QED  BY <1>7, <2>1 DEF RecordPending, WatcherMoves
<1>8. CASE LookAgain
  BY <1>8 DEF LookAgain, WatcherMoves
<1>9. CASE ClaimPending
  <2>1. flags' \in FlagSets
    BY <1>9 DEF ClaimPending, FlagSets
  <2> QED  BY <1>9, <2>1 DEF ClaimPending, WatcherMoves
<1>10. CASE QueueChanged
  <2>1. control' \in Seq({"changed", "watcher_failed"})
    BY <1>10 DEF QueueChanged, SendChanged
  <2> QED  BY <1>10, <2>1 DEF QueueChanged, WatcherMoves
<1>11. CASE ReportWatcherError
  <2>1. control' \in Seq({"changed", "watcher_failed"})
    BY <1>11 DEF ReportWatcherError
  <2> QED  BY <1>11, <2>1 DEF ReportWatcherError, WatcherMoves
<1>12. CASE TakeCommand
  <2>1. worker' \in WorkerStates /\ (worker'.at = "sending" => worker'.loaded # Unread)
    BY <1>12, WorkerTypes DEF TakeCommand, WorkerMoves, WorkerPhases
  <2>2. control' \in Seq({"changed", "watcher_failed"})
    BY <1>12 DEF TakeCommand
  <2> QED  BY <1>12, <2>1, <2>2 DEF TakeCommand, WorkerMoves
<1>13. CASE QuietPeriodEnds
  <2>1. worker' \in WorkerStates /\ (worker'.at = "sending" => worker'.loaded # Unread)
    BY <1>13, WorkerTypes DEF QuietPeriodEnds, WorkerMoves, WorkerPhases
  <2> QED  BY <1>13, <2>1 DEF QuietPeriodEnds, WorkerMoves
<1>14. CASE WorkerLooks
  <2>1. worker' \in WorkerStates /\ (worker'.at = "sending" => worker'.loaded # Unread)
    <3>1. Proceeds \in WorkerStates /\ (Proceeds.at = "sending" => Proceeds.loaded # Unread)
      BY ProceedsTypes
    <3>2. [worker EXCEPT !.at = "recording"] \in WorkerStates /\ [worker EXCEPT !.at = "recording"].at = "recording"
      BY WorkerTypes DEF WorkerPhases
    <3> QED  BY <1>14, <3>1, <3>2 DEF WorkerLooks, WorkerMoves
  <2> QED  BY <1>14, <2>1 DEF WorkerLooks, WorkerMoves
<1>15. CASE WorkerRecords
  <2>1. worker' \in WorkerStates /\ (worker'.at = "sending" => worker'.loaded # Unread)
    BY <1>15, WorkerTypes DEF WorkerRecords, WorkerMoves, WorkerPhases
  <2>2. flags' \in FlagSets
    BY <1>15 DEF WorkerRecords, FlagSets
  <2> QED  BY <1>15, <2>1, <2>2 DEF WorkerRecords, WorkerMoves
<1>16. CASE WorkerLooksAgain
  <2>1. worker' \in WorkerStates /\ (worker'.at = "sending" => worker'.loaded # Unread)
    BY <1>16, WorkerTypes DEF WorkerLooksAgain, WorkerMoves, WorkerPhases
  <2> QED  BY <1>16, <2>1 DEF WorkerLooksAgain, WorkerMoves
<1>17. CASE WorkerClaims
  <2>1. worker' \in WorkerStates /\ (worker'.at = "sending" => worker'.loaded # Unread)
    <3>1. Proceeds \in WorkerStates /\ (Proceeds.at = "sending" => Proceeds.loaded # Unread)
      BY ProceedsTypes
    <3> QED  BY <1>17, <3>1 DEF WorkerClaims, WorkerMoves
  <2>2. flags' \in FlagSets
    BY <1>17 DEF WorkerClaims, FlagSets
  <2> QED  BY <1>17, <2>1, <2>2 DEF WorkerClaims, WorkerMoves
<1>18. CASE ReportStarted
  <2>1. worker' \in WorkerStates /\ (worker'.at = "sending" => worker'.loaded # Unread)
    BY <1>18, WorkerTypes DEF ReportStarted, WorkerMoves, WorkerPhases
  <2>2. reloads' \in Seq(Results)
    BY <1>18 DEF ReportStarted, SendResult, Results
  <2> QED  BY <1>18, <2>1, <2>2 DEF ReportStarted, WorkerMoves
<1>19. CASE LoadSource
  <2>1. worker' \in WorkerStates /\ (worker'.at = "sending" => worker'.loaded # Unread)
    <3>1. [at |-> "looking", loaded |-> source] \in WorkerStates /\ [at |-> "looking", loaded |-> Failed] \in WorkerStates
      BY DEF WorkerStates, WorkerPhases, Reads
    <3> QED  BY <1>19, <3>1 DEF LoadSource, WorkerMoves
  <2>2. used' \in Counters
    BY <1>19, CountedOnce DEF LoadSource, ReadsSource, LoadFails
  <2> QED  BY <1>19, <2>1, <2>2 DEF LoadSource, WorkerMoves
<1>20. CASE ReportLoaded
  <2>1. worker' \in WorkerStates /\ (worker'.at = "sending" => worker'.loaded # Unread)
    BY <1>20, WorkerTypes DEF ReportLoaded, WorkerMoves, WorkerPhases
  <2>2. reloads' \in Seq(Results)
    BY <1>20 DEF ReportLoaded, SendResult, Results, WorkerStates, Reads
  <2> QED  BY <1>20, <2>1, <2>2 DEF ReportLoaded, WorkerMoves
<1>21. CASE ReportFailed
  <2>1. worker' \in WorkerStates /\ (worker'.at = "sending" => worker'.loaded # Unread)
    BY <1>21, WorkerTypes DEF ReportFailed, WorkerMoves, WorkerPhases
  <2>2. reloads' \in Seq(Results)
    BY <1>21 DEF ReportFailed, SendResult, Results
  <2> QED  BY <1>21, <2>1, <2>2 DEF ReportFailed, WorkerMoves
<1>22. CASE DrainInvalidation
  <2>1. flags' \in FlagSets
    BY <1>22 DEF DrainInvalidation, FlagsTaken, FlagSets
  <2>2. view' \in Views
    BY <1>22, ViewTypes DEF DrainInvalidation, Noticed
  <2> QED  BY <1>22, <2>1, <2>2 DEF DrainInvalidation, UiMoves
<1>23. CASE DrainReload
  <2>1. reloads' \in Seq(Results)
    BY <1>23 DEF DrainReload
  <2>2. live' \in Lives
    BY <1>23 DEF DrainReload, Lives
  <2>3. view' \in Views
    <3>1. Head(reloads) \in Results
      BY <1>23 DEF DrainReload
    <3> QED  BY <1>23, <3>1, ViewTypes DEF DrainReload
  <2> QED  BY <1>23, <2>1, <2>2, <2>3 DEF DrainReload, UiMoves
<1>24. CASE ReloadsDrained
  BY <1>24 DEF ReloadsDrained, UiMoves
<1>25. CASE KeepLive
  BY <1>25 DEF KeepLive, UiMoves
<1>26. CASE AbandonLive
  <2>1. PICK running \in BOOLEAN, failed \in BOOLEAN : DropLive(running, failed)
    BY <1>26 DEF AbandonLive
  <2>2. live' \in Lives /\ flags' \in FlagSets
    <3>1. AutoReload \in BOOLEAN
      BY DEF AutoReload, Enabled, Bound, Counters
    <3> QED  BY <2>1, <3>1 DEF DropLive, Lives, FlagSets
  <2>3. worker' \in WorkerStates /\ worker'.at # "sending"
    BY <2>1, WorkerTypes DEF DropLive
  <2> QED  BY <1>26, <2>1, <2>2, <2>3 DEF AbandonLive, DropLive
<1>27. CASE RestartLive
  <2>1. PICK running \in BOOLEAN, failed \in BOOLEAN : DropLive(running, failed)
    BY <1>27 DEF RestartLive
  <2>2. live' \in Lives /\ flags' \in FlagSets
    <3>1. AutoReload \in BOOLEAN
      BY DEF AutoReload, Enabled, Bound, Counters
    <3> QED  BY <2>1, <3>1 DEF DropLive, Lives, FlagSets
  <2>3. worker' \in WorkerStates /\ worker'.at # "sending"
    BY <2>1, WorkerTypes DEF DropLive
  <2>4. used' \in Counters
    <3>1. [used EXCEPT !.watches = @ + 1] \in Counters
      BY DEF Counters
    <3> QED  BY <1>27, <3>1 DEF RestartLive, WatchFails
  <2>5. view' \in Views
    BY <1>27, ViewTypes DEF RestartLive
  <2> QED  BY <1>27, <2>1, <2>2, <2>3, <2>4, <2>5 DEF RestartLive, DropLive
<1>28. CASE DrainLoad
  <2>1. load' \in Loads
    <3>1. [running |-> FALSE, read |-> Unread] \in Loads
      BY DEF Loads, Reads
    <3> QED  BY <1>28, <3>1 DEF DrainLoad
  <2>2. view' \in Views
    BY <1>28, ViewTypes DEF DrainLoad, Loads, Reads
  <2> QED  BY <1>28, <2>1, <2>2 DEF DrainLoad, UiMoves
<1>29. CASE DrainEdit
  <2>1. edit' \in Edits
    <3>1. NoEdit \in Edits
      BY DEF NoEdit, Edits, Reads
    <3>2. view.generation \in Nat
      BY DEF Views
    <3>3. \A g \in Nat : [edit EXCEPT !.queued = FALSE, !.running = TRUE, !.generation = g, !.read = Unread] \in Edits
      BY DEF Edits, Reads
    <3> QED  BY <1>29, <3>1, <3>2, <3>3 DEF DrainEdit
  <2>2. view' \in Views
    <3>1. Alerted(view) \in Views
      BY ViewTypes
    <3>2. edit.read \in Nat /\ view.generation + 1 \in Nat =>
             [view EXCEPT !.shown = edit.read, !.generation = @ + 1] \in Views
      BY DEF Views
    <3>3. view.generation \in Nat /\ edit.read \in Nat \cup {Unread, Failed}
      BY DEF Views, Edits, Reads
    <3> QED  BY <1>29, <3>1, <3>2, <3>3 DEF DrainEdit
  <2> QED  BY <1>29, <2>1, <2>2 DEF DrainEdit, UiMoves
<1>30. CASE NoInput
  BY <1>30 DEF NoInput, UiMoves
<1>31. CASE FlushPending
  <2>1. flags' \in FlagSets
    BY <1>31 DEF FlushPending, FlagSets
  <2> QED  BY <1>31, <2>1 DEF FlushPending, UiMoves
<1>32. CASE FlushChanged
  <2>1. control' \in Seq({"changed", "watcher_failed"})
    BY <1>32 DEF FlushChanged, SendChanged
  <2> QED  BY <1>32, <2>1 DEF FlushChanged, UiMoves
<1>33. CASE EditorClosed
  <2>1. edit' \in Edits
    BY <1>33 DEF EditorClosed, Edits, Reads
  <2> QED  BY <1>33, <2>1 DEF EditorClosed, UiMoves
<1>34. CASE PressReload
  <2>1. load' \in Loads
    BY <1>34 DEF PressReload, Loads, Reads
  <2>2. used' \in Counters
    BY <1>34, CountedOnce DEF PressReload
  <2>3. flags' \in FlagSets
    BY <1>34 DEF PressReload, FlagsTaken, FlagSets
  <2>4. view' \in Views
    BY <1>34, ViewTypes DEF PressReload, Noticed
  <2> QED  BY <1>34, <2>1, <2>2, <2>3, <2>4 DEF PressReload, UiMoves
<1>35. CASE ToggleLiveReload
  <2>1. used' \in Counters
    BY <1>35, CountedOnce DEF ToggleLiveReload
  <2>2. flags' \in FlagSets
    BY <1>35 DEF ToggleLiveReload, FlagsTaken, FlagSets
  <2>3. view' \in Views
    <3>1. Noticed \in Views
      BY ViewTypes DEF Noticed
    <3> QED  BY <1>35, <3>1 DEF ToggleLiveReload, Views, Statuses
  <2>4. live' \in Lives
    BY <1>35 DEF ToggleLiveReload, Lives
  <2>5. load' \in Loads
    BY <1>35 DEF ToggleLiveReload, Loads, Reads
  <2> QED  BY <1>35, <2>1, <2>2, <2>3, <2>4, <2>5 DEF ToggleLiveReload, UiMoves
<1>36. CASE OpenEditor
  <2>1. used' \in Counters
    BY <1>36, CountedOnce DEF OpenEditor
  <2>2. flags' \in FlagSets
    BY <1>36 DEF OpenEditor, FlagsTaken, FlagSets
  <2>3. view' \in Views
    BY <1>36, ViewTypes DEF OpenEditor, Noticed
  <2>4. edit' \in Edits
    BY <1>36 DEF OpenEditor, Edits, Reads
  <2> QED  BY <1>36, <2>1, <2>2, <2>3, <2>4 DEF OpenEditor, UiMoves
<1>37. CASE CloseEditor
  <2>1. flags' \in FlagSets
    BY <1>37 DEF CloseEditor, FlagSets
  <2> QED  BY <1>37, <2>1 DEF CloseEditor, UiMoves
<1>38. CASE UNCHANGED vars
  BY <1>38 DEF vars
<1> QED
  BY <1>1, <1>2, <1>3, <1>4, <1>5, <1>6, <1>7, <1>8, <1>9, <1>10, <1>11, <1>12, <1>13, <1>14, <1>15, <1>16, <1>17, <1>18, <1>19, <1>20, <1>21, <1>22, <1>23, <1>24, <1>25, <1>26, <1>27, <1>28, <1>29, <1>30, <1>31, <1>32, <1>33, <1>34, <1>35, <1>36, <1>37, <1>38
  DEF Next, Watching, Working, UiRuns, Person

(* What a view shows, and whether it reloads at all, stay the same. *)
SameView(w, v) ==
    w.shown = v.shown /\ w.generation = v.generation /\ (w.status = "off" <=> v.status = "off")

LEMMA ViewFields ==
  ASSUME NEW v \in Views
  PROVE  /\ SameView(v, v)
         /\ SameView(Reset(v), v) /\ Reset(v).alert = v.alert
         /\ SameView(Alerted(v), v) /\ Alerted(v).alert
         /\ SameView(Invalidated(v), v) /\ Invalidated(v).alert = v.alert
         /\ \A read \in Nat, always \in BOOLEAN :
               /\ Replaced(v, read, always).shown = read
               /\ Replaced(v, read, always).status = "off" <=> v.status = "off"
               /\ Replaced(v, read, always).generation =
                     IF always \/ read # v.shown THEN v.generation + 1 ELSE v.generation
<1>1. SameView(Reset(v), v) /\ Reset(v).alert = v.alert /\ Reset(v) \in Views
  BY DEF SameView, Reset, Enabled, Views, Statuses
<1>2. SameView(Alerted(v), v) /\ Alerted(v).alert
  BY DEF SameView, Alerted, Views
<1>3. SameView(Invalidated(v), v) /\ Invalidated(v).alert = v.alert
  BY DEF SameView, Invalidated, Views, Statuses
<1>4. ASSUME NEW read \in Nat, NEW always \in BOOLEAN
      PROVE  /\ Replaced(v, read, always).shown = read
             /\ Replaced(v, read, always).status = "off" <=> v.status = "off"
             /\ Replaced(v, read, always).generation =
                   IF always \/ read # v.shown THEN v.generation + 1 ELSE v.generation
  <2>1. ASSUME NEW w \in Views, NEW g
        PROVE  LET n == [w EXCEPT !.shown = read, !.changed = FALSE, !.alert = FALSE, !.generation = g]
               IN  n.shown = read /\ n.status = w.status /\ n.generation = g
    BY DEF Views
  <2>2. Replaced(v, read, always) = [Reset(v) EXCEPT !.shown = read, !.changed = FALSE, !.alert = FALSE,
               !.generation = IF always \/ read # v.shown THEN Reset(v).generation + 1 ELSE Reset(v).generation]
    BY DEF Replaced
  <2> QED  BY <1>1, <2>1, <2>2 DEF SameView
<1> QED  BY <1>1, <1>2, <1>3, <1>4 DEF SameView

(* What the UI thread does to the view. *)
LEMMA ViewMoves ==
  ASSUME Types, [Next]_vars
  PROVE  \/ SameView(view', view) /\ (view.alert => view'.alert)
         \/ /\ DrainReload /\ Head(reloads) \in Results /\ Head(reloads).kind = "loaded"
            /\ Head(reloads).read \in Nat /\ view' = Replaced(view, Head(reloads).read, FALSE)
         \/ /\ DrainLoad /\ load.running /\ load.read \in Nat /\ view' = Replaced(view, load.read, TRUE)
         \/ /\ DrainEdit /\ ~edit.queued /\ edit.running /\ edit.read \in Nat
            /\ edit.generation = view.generation
            /\ view'.shown = edit.read /\ view'.alert = view.alert /\ view'.status = view.status
            /\ view'.generation = view.generation + 1 /\ edit' = NoEdit
         \/ ToggleLiveReload /\ view'.shown = view.shown /\ view'.generation = view.generation
<1> DEFINE Kept == SameView(view', view) /\ (view.alert => view'.alert)
<1>0. view \in Views /\ Noticed \in Views /\ SameView(Noticed, view) /\ Noticed.alert = view.alert
  BY ViewFields, ViewTypes DEF Types, Noticed
<1>a. /\ SameView(Alerted(Reset(view)), view) /\ Alerted(Reset(view)).alert
      /\ SameView(Reset(view), view) /\ Reset(view).alert = view.alert
  <2>1. Reset(view) \in Views /\ SameView(Reset(view), view) /\ Reset(view).alert = view.alert
    BY <1>0, ViewFields, ViewTypes
  <2>2. SameView(Alerted(Reset(view)), Reset(view)) /\ Alerted(Reset(view)).alert
    BY <2>1, ViewFields
  <2> QED  BY <2>1, <2>2 DEF SameView
<1>1. ASSUME view' = view PROVE Kept
  BY <1>0, <1>1, ViewFields
<1>2. ASSUME view' = Noticed PROVE Kept
  BY <1>0, <1>2
<1>3. CASE DrainReload
  <2>1. Head(reloads) \in Results /\ view' = Shown(view, Head(reloads))
    BY <1>3 DEF DrainReload, Types
  <2>2. CASE Head(reloads).kind = "started"
    <3>1. view' = [view EXCEPT !.status = IF Enabled(view) THEN "pending" ELSE "off"]
      BY <2>1, <2>2 DEF Shown
    <3> QED  BY <1>0, <3>1 DEF SameView, Enabled, Views
  <2>3. CASE Head(reloads).kind = "watcher_failed"
    BY <1>a, <2>1, <2>3 DEF Shown
  <2>4. CASE Head(reloads).kind = "loaded"
    <3>1. Head(reloads).read \in Nat \cup {Failed}
      BY <2>1, <2>4 DEF Results
    <3>2. CASE Head(reloads).read = Failed
      BY <1>a, <2>1, <2>4, <3>2 DEF Shown
    <3>3. CASE Head(reloads).read # Failed
      BY <1>3, <2>1, <2>4, <3>1, <3>3 DEF Shown
    <3> QED  BY <3>2, <3>3
  <2> QED  BY <2>1, <2>2, <2>3, <2>4 DEF Results
<1>4. CASE DrainLoad
  <2>1. load.read \in Nat \cup {Unread, Failed}
    BY DEF Types, Loads, Reads
  <2> QED  BY <1>0, <1>1, <1>4, <2>1, ViewFields DEF DrainLoad
<1>5. CASE DrainEdit
  <2>1. edit.read \in Nat \cup {Unread, Failed}
    BY DEF Types, Edits, Reads
  <2>2. CASE edit.queued
    BY <1>1, <1>5, <2>2 DEF DrainEdit
  <2>3. CASE ~edit.queued /\ edit.running /\ edit.read # Unread
    <3>1. /\ edit' = NoEdit
          /\ view' = IF edit.generation # view.generation THEN view
                     ELSE IF edit.read = Failed THEN Alerted(view)
                     ELSE [view EXCEPT !.shown = edit.read, !.generation = @ + 1]
      BY <1>5, <2>3 DEF DrainEdit
    <3>2. CASE edit.generation # view.generation
      BY <1>1, <3>1, <3>2
    <3>3. CASE edit.generation = view.generation /\ edit.read = Failed
      BY <1>0, <3>1, <3>3, ViewFields
    <3>4. CASE edit.generation = view.generation /\ edit.read # Failed
      <4>1. view' = [view EXCEPT !.shown = edit.read, !.generation = @ + 1]
        BY <3>1, <3>4
      <4>2. /\ view'.shown = edit.read /\ view'.alert = view.alert /\ view'.status = view.status
            /\ view'.generation = view.generation + 1
        BY <1>0, <4>1 DEF Views
      <4> QED  BY <1>5, <2>1, <2>3, <3>1, <3>4, <4>2
    <3> QED  BY <3>2, <3>3, <3>4
  <2>4. CASE ~edit.queued /\ ~(edit.running /\ edit.read # Unread)
    BY <1>1, <1>5, <2>4 DEF DrainEdit
  <2> QED  BY <2>2, <2>3, <2>4
<1>6. CASE ToggleLiveReload
  <2>1. view' = [Noticed EXCEPT !.status = IF Enabled(view) THEN "off" ELSE "idle"]
    BY <1>6 DEF ToggleLiveReload
  <2>2. view'.shown = Noticed.shown /\ view'.generation = Noticed.generation
    BY <1>0, <2>1 DEF Views
  <2> QED  BY <1>0, <1>6, <2>2 DEF SameView
<1>7. CASE RestartLive
  <2>1. view' = Reset(view) \/ view' = Alerted(Reset(view))
    BY <1>7 DEF RestartLive
  <2> QED  BY <1>a, <2>1
<1>8. CASE DrainInvalidation \/ PressReload \/ OpenEditor
  BY <1>2, <1>8 DEF DrainInvalidation, PressReload, OpenEditor
<1>9. ASSUME [Next]_vars, ~DrainReload, ~DrainLoad, ~DrainEdit, ~ToggleLiveReload, ~RestartLive,
             ~(DrainInvalidation \/ PressReload \/ OpenEditor)
      PROVE  view' = view
  <2>1. CASE UNCHANGED vars \/ Change \/ LoadReads \/ EditReads \/ WatcherError
    BY <2>1 DEF vars, Change, LoadReads, EditReads, WatcherError
  <2>2. CASE Watching
    BY <2>2 DEF Watching, TakeEvent, LookForPause, RecordPending, LookAgain, ClaimPending, QueueChanged,
       ReportWatcherError, WatcherMoves
  <2>3. CASE Working
    BY <2>3 DEF Working, TakeCommand, QuietPeriodEnds, WorkerLooks, WorkerRecords, WorkerLooksAgain,
       WorkerClaims, ReportStarted, LoadSource, ReportLoaded, ReportFailed, WorkerMoves
  <2>4. CASE UiRuns \/ Person
    BY <1>9, <2>4 DEF UiRuns, Person, ReloadsDrained, KeepLive, AbandonLive, NoInput, FlushPending,
       FlushChanged, EditorClosed, CloseEditor
  <2> QED  BY <1>9, <2>1, <2>2, <2>3, <2>4 DEF Next
<1> HIDE DEF Kept
<1>10. CASE ~DrainReload /\ ~DrainLoad /\ ~DrainEdit /\ ~ToggleLiveReload /\ ~RestartLive
            /\ ~(DrainInvalidation \/ PressReload \/ OpenEditor)
  BY <1>1, <1>9, <1>10 DEF Kept
<1> QED  BY <1>3, <1>4, <1>5, <1>6, <1>7, <1>8, <1>10 DEF Kept

-----------------------------------------------------------------------
(* Counters, and what was read *)

(* Who moves what. *)
LEMMA WhoMoves ==
  ASSUME [Next]_vars
  PROVE  /\ source' = source \/ Change
         /\ worker' = worker \/ Working \/ AbandonLive \/ RestartLive
         /\ load' = load \/ LoadReads \/ DrainLoad \/ PressReload \/ ToggleLiveReload
         /\ edit' = edit \/ EditReads \/ DrainEdit \/ OpenEditor \/ EditorClosed
         /\ \/ reloads' = reloads \/ ReportStarted \/ ReportLoaded \/ ReportFailed \/ DrainReload
            \/ AbandonLive \/ RestartLive
         /\ live' = live \/ DrainReload \/ ToggleLiveReload \/ AbandonLive \/ RestartLive
<1> USE DEF WatcherMoves, WorkerMoves, UiMoves
<1>1. CASE UNCHANGED vars \/ Change \/ LoadReads \/ EditReads \/ WatcherError
  BY <1>1 DEF vars, Change, LoadReads, EditReads, WatcherError
<1>2. CASE Watching
  BY <1>2 DEF Watching, TakeEvent, LookForPause, RecordPending, LookAgain, ClaimPending, QueueChanged,
     ReportWatcherError
<1>3. CASE Working
  BY <1>3 DEF Working, TakeCommand, QuietPeriodEnds, WorkerLooks, WorkerRecords, WorkerLooksAgain,
     WorkerClaims, ReportStarted, LoadSource, ReportLoaded, ReportFailed
<1>4. CASE UiRuns
  BY <1>4 DEF UiRuns, DrainInvalidation, DrainReload, ReloadsDrained, KeepLive, AbandonLive, RestartLive,
     DropLive, DrainLoad, DrainEdit, NoInput, FlushPending, FlushChanged, EditorClosed
<1>5. CASE Person
  BY <1>5 DEF Person, PressReload, ToggleLiveReload, OpenEditor, CloseEditor
<1> QED  BY <1>1, <1>2, <1>3, <1>4, <1>5 DEF Next

(* Bounds are used up, never given back. *)
LEMMA CountersGrow ==
  ASSUME Types, [Next]_vars
  PROVE  /\ used'.of = used.of /\ used.reloads <= used'.reloads /\ used.editors <= used'.editors
         /\ used.toggles <= used'.toggles /\ used.watches <= used'.watches
<1> DEFINE Next_ == {used, [used EXCEPT !.reloads = @ + 1], [used EXCEPT !.editors = @ + 1],
                     [used EXCEPT !.toggles = @ + 1], [used EXCEPT !.loads = @ + 1],
                     [used EXCEPT !.watches = @ + 1]}
<1>1. \A n \in Next_ : Grown(n, used)
  BY CountedOnce DEF Types
<1>2. ASSUME UNCHANGED vars \/ Change \/ LoadReads \/ EditReads \/ WatcherError
      PROVE  used' \in Next_
  BY <1>2 DEF vars, Change, LoadReads, EditReads, WatcherError, ReadsSource, LoadFails, WatchFails
<1>3. ASSUME Watching PROVE used' \in Next_
  BY <1>3 DEF Watching, TakeEvent, LookForPause, RecordPending, LookAgain, ClaimPending, QueueChanged,
     ReportWatcherError, WatcherMoves
<1>4. ASSUME Working PROVE used' \in Next_
  BY <1>4 DEF Working, TakeCommand, QuietPeriodEnds, WorkerLooks, WorkerRecords, WorkerLooksAgain,
     WorkerClaims, ReportStarted, LoadSource, ReportLoaded, ReportFailed, ReadsSource, LoadFails
<1>5. ASSUME UiRuns \/ Person PROVE used' \in Next_
  BY <1>5 DEF UiRuns, Person, DrainInvalidation, DrainReload, ReloadsDrained, KeepLive, AbandonLive,
     RestartLive, DrainLoad, DrainEdit, NoInput, FlushPending, FlushChanged, EditorClosed, PressReload,
     ToggleLiveReload, OpenEditor, CloseEditor, WatchFails
<1>6. used' \in Next_
  BY <1>2, <1>3, <1>4, <1>5 DEF Next
<1> HIDE DEF Next_
<1> QED  BY <1>1, <1>6 DEF Grown

LEMMA NotAheadStep ==
  ASSUME Types, NotAhead, [Next]_vars
  PROVE  NotAhead'
<1> DEFINE Upto(read) == read <= source
<1>0. /\ source \in Nat /\ source' \in Nat /\ source <= source'
      /\ Upto(source) /\ Upto(Unread) /\ Upto(Failed)
      /\ view.shown \in Nat /\ view'.shown \in Nat
      /\ worker.loaded \in Reads /\ load.read \in Reads /\ edit.read \in Reads
  <2>1. source' = source \/ source' = source + 1
    BY WhoMoves DEF Change
  <2>2. view'.shown \in Nat
    BY TypesStep DEF Types, Views
  <2> QED  BY <2>1, <2>2 DEF Types, Views, WorkerStates, Loads, Edits, Unread, Failed
<1>1. \A read \in Reads : Upto(read) => Upto(read)'
  BY <1>0 DEF Reads, Unread, Failed
<1>2. Upto(view'.shown)
  <2>1. CASE DrainReload /\ Head(reloads).kind = "loaded" /\ view'.shown = Head(reloads).read
    <3>1. 1 \in DOMAIN reloads /\ Head(reloads) = reloads[1]
      BY <2>1 DEF DrainReload, Types
    <3> QED  BY <2>1, <3>1 DEF NotAhead
  <2>3. \A read \in Nat, always \in BOOLEAN : Replaced(view, read, always).shown = read
    BY ViewFields DEF Types
  <2>4. \/ view'.shown = view.shown
        \/ DrainReload /\ Head(reloads).kind = "loaded" /\ view'.shown = Head(reloads).read
        \/ load.read \in Nat /\ view'.shown = load.read
        \/ edit.read \in Nat /\ view'.shown = edit.read
    BY <2>3, ViewMoves DEF SameView
  <2>5. Upto(view.shown) /\ Upto(load.read) /\ Upto(edit.read)
    BY DEF NotAhead
  <2> HIDE DEF Upto
  <2> QED  BY <2>1, <2>4, <2>5
<1>3. worker'.loaded \in {worker.loaded, Unread, source, Failed}
  <2>1. CASE Working
    BY <2>1 DEF Working, Types, WorkerStates, TakeCommand, QuietPeriodEnds, WorkerLooks, WorkerRecords,
       WorkerLooksAgain, WorkerClaims, ReportStarted, LoadSource, ReportLoaded, ReportFailed, WorkerMoves,
       Proceeds, IdleWorker
  <2>2. CASE worker' = worker \/ AbandonLive \/ RestartLive
    BY <2>2 DEF AbandonLive, RestartLive, DropLive, IdleWorker
  <2> QED  BY <2>1, <2>2, WhoMoves
<1>4. load'.read \in {load.read, Unread, source, Failed}
  <2>1. CASE LoadReads
    <3>1. PICK read \in {source, Failed} : load' = [load EXCEPT !.read = read]
      BY <2>1 DEF LoadReads
    <3> QED  BY <3>1 DEF Types, Loads
  <2>2. CASE load' = load \/ DrainLoad \/ PressReload \/ ToggleLiveReload
    <3>1. \/ load' = load \/ load' = [running |-> FALSE, read |-> Unread]
          \/ load' = [running |-> TRUE, read |-> Unread]
      BY <2>2, Zenon DEF DrainLoad, PressReload, ToggleLiveReload
    <3> QED  BY <3>1
  <2> QED  BY <2>1, <2>2, WhoMoves
<1>5. edit'.read \in {edit.read, Unread, source, Failed}
  <2>1. CASE EditReads
    <3>1. PICK read \in {source, Failed} : edit' = [edit EXCEPT !.read = read]
      BY <2>1 DEF EditReads
    <3> QED  BY <3>1 DEF Types, Edits
  <2>2. CASE DrainEdit
    <3>1. edit' = edit \/ edit' = NoEdit \/ edit' = [edit EXCEPT !.queued = FALSE, !.running = TRUE,
                                      !.generation = view.generation, !.read = Unread]
      BY <2>2 DEF DrainEdit
    <3>2. NoEdit.read = Unread
      BY DEF NoEdit
    <3>3. \A g : [edit EXCEPT !.queued = FALSE, !.running = TRUE, !.generation = g, !.read = Unread].read = Unread
      BY DEF Types, Edits
    <3> QED  BY <3>1, <3>2, <3>3
  <2>3. CASE edit' = edit \/ OpenEditor \/ EditorClosed
    <3>1. edit'.read = edit.read
      BY <2>3 DEF OpenEditor, EditorClosed, Types, Edits
    <3> QED  BY <3>1
  <2> QED  BY <2>1, <2>2, <2>3, WhoMoves
<1>6. \A k \in DOMAIN reloads' :
         \/ \E j \in DOMAIN reloads : reloads'[k] = reloads[j]
         \/ reloads'[k].kind # "loaded" \/ reloads'[k].read = worker.loaded
  <2>1. CASE reloads' = reloads \/ AbandonLive \/ RestartLive
    BY <2>1 DEF AbandonLive, RestartLive, DropLive
  <2>2. CASE DrainReload
    BY <2>2 DEF DrainReload, Types
  <2>3. CASE ReportStarted \/ ReportLoaded \/ ReportFailed
    <3>1. PICK result : /\ reloads' = Append(reloads, result)
                        /\ result.kind # "loaded" \/ result.read = worker.loaded
      BY <2>3 DEF ReportStarted, ReportLoaded, ReportFailed, SendResult
    <3>2. reloads \in Seq(Results) /\ DOMAIN reloads' = 1..(Len(reloads) + 1)
      BY <3>1 DEF Types
    <3>3. \A k \in 1..(Len(reloads) + 1) :
             (k \in DOMAIN reloads /\ reloads'[k] = reloads[k]) \/ reloads'[k] = result
      BY <3>1, <3>2
    <3> QED  BY <3>1, <3>2, <3>3
  <2> QED  BY <2>1, <2>2, <2>3, WhoMoves
<1>7. Upto(worker'.loaded) /\ Upto(load'.read) /\ Upto(edit'.read)
  BY <1>0, <1>3, <1>4, <1>5 DEF NotAhead
<1>8. \A k \in DOMAIN reloads' : reloads'[k].kind = "loaded" => Upto(reloads'[k].read)
  BY <1>6 DEF NotAhead
<1>9. /\ worker'.loaded \in Reads /\ load'.read \in Reads /\ edit'.read \in Reads
      /\ \A k \in DOMAIN reloads' : reloads'[k].kind = "loaded" => reloads'[k].read \in Reads
  <2>1. worker' \in WorkerStates /\ load' \in Loads /\ edit' \in Edits /\ reloads' \in Seq(Results)
    BY TypesStep DEF Types
  <2>2. worker'.loaded \in Reads
    BY <2>1 DEF WorkerStates
  <2>3. load'.read \in Reads
    BY <2>1 DEF Loads
  <2>4. edit'.read \in Reads
    BY <2>1 DEF Edits
  <2>5. ASSUME NEW k \in DOMAIN reloads', reloads'[k].kind = "loaded"
        PROVE  reloads'[k].read \in Reads
    <3>1. reloads'[k] \in Results
      BY <2>1, <2>5
    <3>2. \A result \in Results : result.kind = "loaded" => result.read \in Reads
      BY DEF Results, Reads
    <3> QED  BY <2>5, <3>1, <3>2
  <2> QED  BY <2>2, <2>3, <2>4, <2>5
<1> HIDE DEF Upto
<1> QED  BY <1>0, <1>1, <1>2, <1>7, <1>8, <1>9 DEF NotAhead, Upto

LEMMA EditIsNewerStep ==
  ASSUME Types, NotAhead, EditIsNewer, [Next]_vars
  PROVE  EditIsNewer'
<1>1. /\ view.generation \in Nat /\ view.shown \in Nat /\ edit.generation \in Nat
      /\ view.shown <= source /\ source \in Nat
  BY DEF Types, Views, Edits, NotAhead
<1>2. \A read \in Nat, always \in BOOLEAN :
         /\ Replaced(view, read, always).shown = read
         /\ Replaced(view, read, always).generation =
               IF always \/ read # view.shown THEN view.generation + 1 ELSE view.generation
  BY ViewFields DEF Types
<1>3. edit'.running =>
         \/ /\ edit.running /\ edit'.generation = edit.generation
            /\ edit'.read = edit.read
         \/ EditReads /\ edit.running /\ edit'.generation = edit.generation /\ edit'.read \in {source, Failed}
         \/ DrainEdit /\ edit.queued /\ edit'.generation = view.generation /\ edit'.read = Unread
  <2>1. CASE EditReads
    <3>1. PICK read \in {source, Failed} : edit' = [edit EXCEPT !.read = read] /\ edit.running
      BY <2>1 DEF EditReads
    <3> QED  BY <2>1, <3>1 DEF Types, Edits
  <2>2. CASE DrainEdit
    <3>1. \/ edit' = edit \/ edit' = NoEdit
          \/ edit.queued /\ edit' = [edit EXCEPT !.queued = FALSE, !.running = TRUE,
                                      !.generation = view.generation, !.read = Unread]
      BY <2>2 DEF DrainEdit
    <3>2. ~NoEdit.running
      BY DEF NoEdit
    <3>3. \A g : LET n == [edit EXCEPT !.queued = FALSE, !.running = TRUE, !.generation = g, !.read = Unread]
                 IN  n.read = Unread /\ n.generation = g
      BY DEF Types, Edits
    <3> QED  BY <2>2, <3>1, <3>2, <3>3
  <2>3. CASE edit' = edit \/ OpenEditor \/ EditorClosed
    <3>1. edit'.read = edit.read /\ edit'.running = edit.running /\ edit'.generation = edit.generation
      BY <2>3 DEF OpenEditor, EditorClosed, Types, Edits
    <3> QED  BY <3>1
  <2> QED  BY <2>1, <2>2, <2>3, WhoMoves
<1>4. CASE EditReads
  <2>1. view' = view
    BY <1>4 DEF EditReads
  <2>2. ~DrainEdit
    BY <1>4 DEF EditReads, DrainEdit, UiMoves
  <2> QED  BY <1>1, <1>3, <1>4, <2>1, <2>2 DEF EditIsNewer, Failed
<1>b. \/ view'.shown = view.shown /\ view'.generation = view.generation
      \/ view'.generation = view.generation + 1
  <2>1. CASE SameView(view', view)
    BY <2>1 DEF SameView
  <2>2. ASSUME NEW read \in Nat, NEW always \in BOOLEAN, view' = Replaced(view, read, always)
        PROVE  \/ view'.shown = view.shown /\ view'.generation = view.generation
               \/ view'.generation = view.generation + 1
    BY <1>2, <2>2
  <2>3. CASE \/ view'.generation = view.generation + 1
             \/ view'.shown = view.shown /\ view'.generation = view.generation
    BY <2>3
  <2>4. \/ SameView(view', view)
        \/ \E read \in Nat, always \in BOOLEAN : view' = Replaced(view, read, always)
        \/ view'.generation = view.generation + 1
        \/ view'.shown = view.shown /\ view'.generation = view.generation
    BY ViewMoves
  <2> QED  BY <2>1, <2>2, <2>3, <2>4
<1>a. view.generation <= view'.generation
  BY <1>1, <1>b
<1>5. CASE DrainEdit
  <2>1. ~DrainReload /\ ~DrainLoad /\ ~ToggleLiveReload /\ ~EditReads
    BY <1>5 DEF DrainEdit, DrainReload, DrainLoad, ToggleLiveReload, EditReads, UiMoves
  <2>2. SameView(view', view) \/ edit' = NoEdit
    BY <2>1, ViewMoves
  <2>3. CASE edit' = NoEdit
    BY <2>3 DEF EditIsNewer, NoEdit
  <2>4. CASE edit' # NoEdit
    <3>1. view'.shown = view.shown /\ view'.generation = view.generation
      BY <2>2, <2>4 DEF SameView
    <3> QED  BY <1>1, <1>3, <2>1, <3>1 DEF EditIsNewer, Unread
  <2> QED  BY <2>3, <2>4
<1>6. CASE ~EditReads /\ ~DrainEdit
  <2>1. edit'.running => edit.running /\ edit'.generation = edit.generation /\ edit'.read = edit.read
    BY <1>3, <1>6
  <2>2. \/ view'.shown = view.shown /\ view'.generation = view.generation
        \/ view'.generation = view.generation + 1
    BY <1>b
  <2> QED  BY <1>1, <2>1, <2>2 DEF EditIsNewer
<1> QED  BY <1>4, <1>5, <1>6

---------------------------------------------------------------------------
(* A view that nothing disturbs *)

Calm == Bound.watch /\ Undisturbed

(* What can happen to it: nobody presses anything but opens and closes the  *)
(* editor, the pause is never recorded, and the watcher fits its options.   *)
CalmNext ==
    \/ Change \/ EditReads
    \/ TakeEvent \/ LookForPause \/ QueueChanged
    \/ TakeCommand \/ QuietPeriodEnds \/ WorkerLooks \/ ReportStarted \/ LoadSource \/ ReportLoaded
    \/ DrainInvalidation \/ DrainReload \/ ReloadsDrained \/ KeepLive \/ DrainLoad \/ DrainEdit \/ NoInput
    \/ EditorClosed \/ OpenEditor \/ CloseEditor

LEMMA CalmBefore ==
  ASSUME Types, [Next]_vars, Calm'
  PROVE  Calm
<1>1. /\ used \in Counters /\ used' \in Counters /\ used'.of = used.of
      /\ used.reloads <= used'.reloads /\ used.editors <= used'.editors
      /\ used.toggles <= used'.toggles /\ used.watches <= used'.watches
  BY TypesStep, CountersGrow DEF Types
<1>2. /\ used'.of.watch /\ used'.watches = 0 /\ used'.reloads + used'.toggles = 0
      /\ used'.of.pausable => ~(used'.editors > 0)
  BY <1>1 DEF Calm, Undisturbed, MayLag, Bound, Counters
<1>3. /\ used.watches = 0 /\ used.reloads = 0 /\ used.toggles = 0
      /\ used'.editors = 0 => used.editors = 0
  BY <1>1, <1>2 DEF Counters
<1>4. used.of.pausable => ~(used.editors > 0)
  BY <1>1, <1>2, <1>3 DEF Counters
<1> QED  BY <1>1, <1>2, <1>3, <1>4 DEF Calm, Undisturbed, MayLag, Bound

LEMMA CalmSteps ==
  ASSUME LiveInv, [Next]_vars, Calm'
  PROVE  /\ Calm /\ Running /\ Followed
         /\ CalmNext \/ UNCHANGED vars
         /\ OpenEditor => ~Bound.pausable
         /\ ~ToggleLiveReload
<1>1. Calm
  BY CalmBefore DEF LiveInv
<1>2. Running /\ Followed /\ Types
  BY <1>1 DEF LiveInv, Calm
<1>3. /\ used.reloads = 0 /\ used.toggles = 0 /\ used.watches = 0
      /\ used'.reloads = 0 /\ used'.toggles = 0 /\ used'.watches = 0
  <2>1. used \in Counters /\ used' \in Counters
    BY <1>2, TypesStep DEF Types
  <2> QED  BY <1>1, <2>1 DEF Calm, Undisturbed, MayLag, Counters
<1>4. ~PressReload /\ ~ToggleLiveReload /\ ~WatcherError
  <2>1. \A n : n = [used EXCEPT !.reloads = @ + 1] => n.reloads = used.reloads + 1
    BY <1>2 DEF Types, Counters
  <2>2. \A n : n = [used EXCEPT !.toggles = @ + 1] => n.toggles = used.toggles + 1
    BY <1>2 DEF Types, Counters
  <2>3. \A n : n = [used EXCEPT !.watches = @ + 1] => n.watches = used.watches + 1
    BY <1>2 DEF Types, Counters
  <2> QED  BY <1>3, <2>1, <2>2, <2>3 DEF PressReload, ToggleLiveReload, WatcherError, WatchFails
<1>5. ~LoadReads /\ ~FlushPending /\ ~FlushChanged
  BY <1>2 DEF Running, LoadReads, FlushPending, FlushChanged
<1>6. ~RecordPending /\ ~LookAgain /\ ~ClaimPending /\ ~ReportWatcherError
  BY <1>2 DEF Running, RecordPending, LookAgain, ClaimPending, ReportWatcherError
<1>7. ~WorkerRecords /\ ~WorkerLooksAgain /\ ~WorkerClaims /\ ~ReportFailed
  BY <1>2 DEF Running, WorkerRecords, WorkerLooksAgain, WorkerClaims, ReportFailed
<1>8. ~AbandonLive /\ ~RestartLive
  <2>1. Fits
    BY <1>1, <1>2 DEF Running, Fits, AutoReload, Enabled, Calm, Bound, Types, Lives
  <2> QED  BY <2>1 DEF AbandonLive, RestartLive
<1>9. CalmNext \/ UNCHANGED vars
  BY <1>4, <1>5, <1>6, <1>7, <1>8 DEF Next, Watching, Working, UiRuns, Person, CalmNext
<1>10. OpenEditor => ~Bound.pausable
  <2>1. OpenEditor => used'.editors = used.editors + 1 /\ used'.of = used.of /\ used.editors \in Nat
    BY <1>2 DEF OpenEditor, Types, Counters
  <2> QED  BY <2>1 DEF Calm, Undisturbed, MayLag, Bound
<1> QED  BY <1>1, <1>2, <1>4, <1>9, <1>10

LEMMA RunningStep ==
  ASSUME LiveInv, [Next]_vars, Calm'
  PROVE  Running'
<1>1. Calm /\ Running /\ Types /\ (CalmNext \/ UNCHANGED vars) /\ (OpenEditor => ~Bound.pausable)
  BY CalmSteps DEF LiveInv
<1>2. /\ live'.running /\ live'.auto /\ ~live'.failed
  <2>1. CASE live' = live
    BY <1>1, <2>1 DEF Running
  <2>2. CASE DrainReload
    <3>1. Head(reloads).kind # "watcher_failed"
      BY <1>1, <2>2 DEF Running, DrainReload, Types
    <3> QED  BY <1>1, <2>2, <3>1 DEF Running, DrainReload, Types, Lives
  <2> QED  BY <1>1, <2>1, <2>2, WhoMoves DEF CalmNext, Change, EditReads, TakeEvent, LookForPause,
           QueueChanged, TakeCommand, QuietPeriodEnds, WorkerLooks, ReportStarted, LoadSource, ReportLoaded,
           DrainInvalidation, ReloadsDrained, KeepLive, DrainLoad, DrainEdit, NoInput, EditorClosed,
           OpenEditor, CloseEditor, WatcherMoves, WorkerMoves, UiMoves, vars
<1>3. view'.status # "off"
  <2>1. ~ToggleLiveReload
    BY CalmSteps
  <2>2. \/ SameView(view', view) \/ view'.status = view.status
        \/ \E read \in Nat, always \in BOOLEAN : view' = Replaced(view, read, always)
    BY <2>1, ViewMoves, <1>1
  <2>3. \A read \in Nat, always \in BOOLEAN : Replaced(view, read, always).status = "off" <=> view.status = "off"
    BY <1>1, ViewFields DEF Types
  <2> QED  BY <1>1, <2>2, <2>3 DEF SameView, Running
<1>4. ~flags'.paused /\ ui' \notin {"unpausing", "flushing"}
  <2>1. ui' \notin {"unpausing", "flushing"}
    BY <1>1 DEF Running, CalmNext, Change, EditReads, TakeEvent, LookForPause,
     QueueChanged, TakeCommand, QuietPeriodEnds, WorkerLooks, ReportStarted, LoadSource, ReportLoaded,
     DrainInvalidation, DrainReload, ReloadsDrained, KeepLive, DrainLoad, DrainEdit, NoInput, EditorClosed,
     OpenEditor, CloseEditor, WatcherMoves, WorkerMoves, UiMoves, vars
  <2>2. CASE flags' = flags
    BY <2>1, <1>1, <2>2 DEF Running
  <2>3. CASE TakeEvent \/ DrainInvalidation \/ OpenEditor \/ CloseEditor
    <3>1. \A b : ~[flags EXCEPT !.invalidated = b].paused
      BY <1>1 DEF Running, Types, FlagSets
    <3>2. \A b, c : c = FALSE => ~[[flags EXCEPT !.invalidated = b] EXCEPT !.paused = c].paused
      BY <1>1 DEF Types, FlagSets
    <3>3. ~[flags EXCEPT !.paused = FALSE].paused
      BY <1>1 DEF Types, FlagSets
    <3>4. CASE TakeEvent \/ DrainInvalidation
      BY <2>1, <3>1, <3>4 DEF TakeEvent, DrainInvalidation, FlagsTaken
    <3>5. CASE OpenEditor
      <4>1. ~Bound.pausable
        BY <1>1, <3>5
      <4>2. (Bound.pausable /\ live.running) = FALSE
        BY <4>1
      <4> QED  BY <2>1, <3>2, <3>5, <4>2 DEF OpenEditor, FlagsTaken
    <3>6. CASE CloseEditor
      BY <2>1, <3>3, <3>6 DEF CloseEditor
    <3> QED  BY <2>3, <3>4, <3>5, <3>6
  <2> QED  BY <1>1, <2>1, <2>2, <2>3 DEF CalmNext, Change, EditReads, TakeEvent, LookForPause,
     QueueChanged, TakeCommand, QuietPeriodEnds, WorkerLooks, ReportStarted, LoadSource, ReportLoaded,
     DrainInvalidation, DrainReload, ReloadsDrained, KeepLive, DrainLoad, DrainEdit, NoInput, EditorClosed,
     OpenEditor, CloseEditor, WatcherMoves, WorkerMoves, UiMoves, vars
<1>5. watcher' \in {"idle", "looking", "sending"}
  BY <1>1 DEF Running, CalmNext, Change, EditReads, TakeEvent, LookForPause,
     QueueChanged, TakeCommand, QuietPeriodEnds, WorkerLooks, ReportStarted, LoadSource, ReportLoaded,
     DrainInvalidation, DrainReload, ReloadsDrained, KeepLive, DrainLoad, DrainEdit, NoInput, EditorClosed,
     OpenEditor, CloseEditor, WatcherMoves, WorkerMoves, UiMoves, vars
<1>6. /\ worker'.at \in {"waiting", "quiet", "looking", "starting", "loading", "sending"}
      /\ worker'.at \in {"looking", "sending"} \/ worker'.loaded = Unread
  <2>0. worker \in WorkerStates
    BY <1>1 DEF Types
  <2>1. CASE TakeCommand
    <3>1. Head(control) = "changed"
      BY <1>1, <2>1 DEF TakeCommand, Types, Running
    <3> QED  BY <2>1, <3>1, WorkerTypes DEF TakeCommand, WorkerMoves, WorkerPhases
  <2>2. CASE QuietPeriodEnds \/ ReportStarted
    <3>1. worker.loaded = Unread
      BY <1>1, <2>2 DEF Running, QuietPeriodEnds, ReportStarted
    <3>2. worker' = [worker EXCEPT !.at = "looking"] \/ worker' = [worker EXCEPT !.at = "loading"]
      BY <2>2 DEF QuietPeriodEnds, ReportStarted, WorkerMoves
    <3>3. worker'.at \in {"looking", "loading"} /\ worker'.loaded = worker.loaded
      BY <2>0, <3>2 DEF WorkerStates
    <3> QED  BY <3>1, <3>3
  <2>3. CASE WorkerLooks
    <3>1. worker' = [worker EXCEPT !.at = IF worker.loaded = Unread THEN "starting" ELSE "sending"]
      BY <1>1, <2>3 DEF Running, WorkerLooks, WorkerMoves, Proceeds
    <3>2. worker'.at = (IF worker.loaded = Unread THEN "starting" ELSE "sending") /\ worker'.loaded = worker.loaded
      BY <2>0, <3>1 DEF WorkerStates
    <3> QED  BY <3>2
  <2>4. CASE LoadSource
    BY <2>4 DEF LoadSource, WorkerMoves
  <2>5. CASE ReportLoaded
    BY <2>5, WorkerTypes DEF ReportLoaded, WorkerMoves
  <2>6. CASE worker' = worker
    BY <1>1, <2>6 DEF Running
  <2> QED  BY <1>1, <2>1, <2>2, <2>3, <2>4, <2>5, <2>6 DEF CalmNext, Change, EditReads, TakeEvent, LookForPause,
     QueueChanged, TakeCommand, QuietPeriodEnds, WorkerLooks, ReportStarted, LoadSource, ReportLoaded,
     DrainInvalidation, DrainReload, ReloadsDrained, KeepLive, DrainLoad, DrainEdit, NoInput, EditorClosed,
     OpenEditor, CloseEditor, WatcherMoves, WorkerMoves, UiMoves, vars
<1>7. \A k \in DOMAIN control' : control'[k] = "changed"
  <2>0. control \in Seq({"changed", "watcher_failed"}) /\ \A k \in DOMAIN control : control[k] = "changed"
    BY <1>1 DEF Types, Running
  <2>1. CASE control' = control
    BY <2>0, <2>1
  <2>2. CASE TakeCommand
    BY <2>0, <2>2 DEF TakeCommand
  <2>3. CASE control' = Append(control, "changed")
    BY <2>0, <2>3
  <2>4. QueueChanged => control' = control \/ control' = Append(control, "changed")
    BY DEF QueueChanged, SendChanged
  <2> QED  BY <1>1, <2>1, <2>2, <2>3, <2>4 DEF CalmNext, Change, EditReads, TakeEvent, LookForPause,
     QuietPeriodEnds, WorkerLooks, ReportStarted, LoadSource, ReportLoaded,
     DrainInvalidation, DrainReload, ReloadsDrained, KeepLive, DrainLoad, DrainEdit, NoInput, EditorClosed,
     OpenEditor, CloseEditor, WatcherMoves, WorkerMoves, UiMoves, vars
<1>8. \A k \in DOMAIN reloads' : reloads'[k].kind # "watcher_failed"
  <2>0. reloads \in Seq(Results) /\ \A k \in DOMAIN reloads : reloads[k].kind # "watcher_failed"
    BY <1>1 DEF Types, Running
  <2>1. CASE reloads' = reloads
    BY <2>0, <2>1
  <2>2. CASE DrainReload
    BY <2>0, <2>2 DEF DrainReload
  <2>3. CASE ReportStarted \/ ReportLoaded
    <3>1. PICK result : reloads' = Append(reloads, result) /\ result.kind # "watcher_failed"
      BY <2>3 DEF ReportStarted, ReportLoaded, SendResult
    <3>2. \A k \in DOMAIN reloads' : (k \in DOMAIN reloads /\ reloads'[k] = reloads[k]) \/ reloads'[k] = result
      BY <2>0, <3>1
    <3> QED  BY <2>0, <3>1, <3>2
  <2> QED  BY <1>1, <2>1, <2>2, <2>3 DEF CalmNext, Change, EditReads, TakeEvent, LookForPause,
     QueueChanged, TakeCommand, QuietPeriodEnds, WorkerLooks, ReportStarted, LoadSource, ReportLoaded,
     DrainInvalidation, DrainReload, ReloadsDrained, KeepLive, DrainLoad, DrainEdit, NoInput, EditorClosed,
     OpenEditor, CloseEditor, WatcherMoves, WorkerMoves, UiMoves, vars
<1>9. ~load'.running
  <2>1. load' = load
    BY <1>1 DEF Running, CalmNext, Change, EditReads, TakeEvent, LookForPause,
     QueueChanged, TakeCommand, QuietPeriodEnds, WorkerLooks, ReportStarted, LoadSource, ReportLoaded,
     DrainInvalidation, DrainReload, ReloadsDrained, KeepLive, DrainLoad, DrainEdit, NoInput, EditorClosed,
     OpenEditor, CloseEditor, WatcherMoves, WorkerMoves, UiMoves, vars
  <2> QED  BY <1>1, <2>1 DEF Running
<1> QED  BY <1>2, <1>3, <1>4, <1>5, <1>6, <1>7, <1>8, <1>9 DEF Running

(* Whatever is behind a stage stays behind it, or has arrived. *)
LEMMA FollowedStep ==
  ASSUME LiveInv, [Next]_vars, Calm'
  PROVE  Followed'
<1>1. /\ Types /\ Types' /\ Running /\ Running' /\ Followed /\ NotAhead /\ EditIsNewer
      /\ CalmNext \/ UNCHANGED vars
  BY CalmSteps, TypesStep, RunningStep DEF LiveInv
<1>2. ASSUME Heard' \/ WorkerBrings' PROVE Followed'
  BY <1>2 DEF Followed, Coming, WorkerBrings
<1>3. CASE Change \/ TakeEvent \/ LookForPause \/ QueueChanged
  <2>1. CASE Change
    BY <1>1, <1>2, <2>1 DEF Change, Heard, Types
  <2>2. CASE TakeEvent
    BY <1>1, <1>2, <2>2 DEF TakeEvent, Heard, Running
  <2>3. CASE LookForPause
    BY <1>1, <1>2, <2>3 DEF LookForPause, WatcherMoves, Heard, Running
  <2>4. CASE QueueChanged
    <3>1. control' # <<>>
      <4>1. control' = IF Len(control) < ControlCapacity THEN Append(control, "changed") ELSE control
        BY <2>4 DEF QueueChanged, SendChanged
      <4>2. control \in Seq({"changed", "watcher_failed"})
        BY <1>1 DEF Types
      <4>3. CASE Len(control) < ControlCapacity
        <5>1. Append(control, "changed") # <<>>
          BY <4>2
        <5> QED  BY <4>1, <4>3, <5>1
      <4>4. CASE ~(Len(control) < ControlCapacity)
        <5>1. ControlCapacity > 0
          BY LiveAssumption
        <5>2. control # <<>>
          BY <4>4, <5>1, LiveAssumption
        <5> QED  BY <4>1, <4>4, <5>2
      <4> QED  BY <4>3, <4>4
    <3> QED  BY <1>2, <3>1 DEF Heard
  <2> QED  BY <1>3, <2>1, <2>2, <2>3, <2>4
<1>4. CASE TakeCommand \/ QuietPeriodEnds \/ ReportStarted \/ LoadSource
  <2>0. worker \in WorkerStates
    BY <1>1 DEF Types
  <2>1. CASE TakeCommand
    <3>1. worker'.at = "quiet"
      BY <1>1, <2>1, WorkerTypes DEF TakeCommand, WorkerMoves, Types, Running, WorkerPhases
    <3> QED  BY <1>2, <3>1 DEF WorkerBrings
  <2>2. CASE QuietPeriodEnds
    <3>1. worker'.at = "looking" /\ worker'.loaded = Unread
      BY <1>1, <2>0, <2>2, WorkerTypes DEF QuietPeriodEnds, WorkerMoves, Running, WorkerPhases
    <3> QED  BY <1>2, <3>1 DEF WorkerBrings
  <2>3. CASE ReportStarted
    <3>1. worker'.at = "loading"
      BY <2>0, <2>3, WorkerTypes DEF ReportStarted, WorkerMoves, WorkerPhases
    <3> QED  BY <1>2, <3>1 DEF WorkerBrings
  <2>4. CASE LoadSource
    <3>1. worker'.at = "looking" /\ worker'.loaded \in {source, Failed} /\ source' = source
      BY <2>4 DEF LoadSource, WorkerMoves
    <3> QED  BY <1>2, <3>1 DEF WorkerBrings, UpToDate
  <2> QED  BY <1>4, <2>1, <2>2, <2>3, <2>4
<1>5. CASE WorkerLooks
  <2>1. worker' = [worker EXCEPT !.at = IF worker.loaded = Unread THEN "starting" ELSE "sending"]
    BY <1>1, <1>5 DEF Running, WorkerLooks, WorkerMoves, Proceeds
  <2>2. worker'.at = (IF worker.loaded = Unread THEN "starting" ELSE "sending") /\ worker'.loaded = worker.loaded
    BY <1>1, <2>1 DEF Types, WorkerStates
  <2>3. CASE worker.loaded = Unread
    BY <1>2, <2>2, <2>3 DEF WorkerBrings
  <2>4. CASE UpToDate(worker.loaded)
    BY <1>2, <1>5, <2>2, <2>3, <2>4 DEF WorkerBrings, UpToDate, WorkerLooks, WorkerMoves
  <2>5. CASE Heard
    BY <1>2, <1>5, <2>5 DEF Heard, WorkerLooks, WorkerMoves
  <2> QED  BY <1>1, <1>5, <2>3, <2>4, <2>5 DEF Followed, WorkerLooks
<1>6. CASE ReportLoaded
  <2>1. /\ reloads' = Append(reloads, [kind |-> "loaded", read |-> worker.loaded])
        /\ worker' = IdleWorker /\ source' = source
        /\ worker.at = "sending" /\ worker.loaded # Unread /\ reloads \in Seq(Results)
    BY <1>1, <1>6 DEF ReportLoaded, SendResult, WorkerMoves, Types
  <2>2. CASE Heard
    BY <1>2, <1>6, <2>2 DEF Heard, ReportLoaded, WorkerMoves
  <2>3. CASE ~Heard
    <3>1. UpToDate(worker.loaded)
      BY <1>1, <2>1, <2>3 DEF Followed
    <3>2. /\ DOMAIN reloads' = 1..(Len(reloads) + 1) /\ Len(reloads) \in Nat
          /\ reloads'[Len(reloads) + 1] = [kind |-> "loaded", read |-> worker.loaded]
      BY <2>1
    <3>3. Brings(reloads'[Len(reloads) + 1])
      BY <2>1, <3>1, <3>2 DEF Brings, UpToDate
    <3>4. Len(reloads) + 1 \in DOMAIN reloads'
      BY <3>2
    <3>5. \A k \in DOMAIN reloads' : k = Len(reloads) + 1 \/ Len(reloads) + 1 > k
      BY <3>2
    <3>6. worker'.at = "waiting"
      BY <2>1, WorkerTypes
    <3> QED  BY <2>1, <3>3, <3>4, <3>5, <3>6 DEF Followed, Coming, Brings, UpToDate
  <2> QED  BY <2>2, <2>3
<1>7. CASE DrainReload
  <2>1. /\ reloads' = Tail(reloads) /\ reloads # <<>> /\ reloads \in Seq(Results)
        /\ source' = source /\ worker' = worker
        /\ view' = Shown(view, Head(reloads)) /\ Head(reloads) = reloads[1] /\ 1 \in DOMAIN reloads
    BY <1>1, <1>7 DEF DrainReload, UiMoves, Types
  <2>2. CASE Heard \/ WorkerBrings
    <3>1. (Heard => Heard') /\ (WorkerBrings => WorkerBrings')
      BY <1>7 DEF DrainReload, UiMoves, Heard, WorkerBrings, UpToDate
    <3> QED  BY <1>2, <2>2, <3>1
  <2>3. CASE ~Heard /\ ~WorkerBrings
    <3>1. /\ DOMAIN reloads = 1..Len(reloads) /\ Len(reloads) \in Nat
          /\ DOMAIN reloads' = 1..(Len(reloads) - 1)
          /\ \A k \in DOMAIN reloads' : reloads'[k] = reloads[k + 1]
      BY <2>1
    <3>2. \A read : UpToDate(read) <=> UpToDate(read)'
      BY <2>1 DEF UpToDate
    <3>3. \A l \in DOMAIN reloads : l > 1 /\ Brings(reloads[l]) =>
             l - 1 \in DOMAIN reloads' /\ Brings(reloads'[l - 1])
      <4>1. SUFFICES ASSUME NEW l \in DOMAIN reloads, l > 1, Brings(reloads[l])
                     PROVE  l - 1 \in DOMAIN reloads' /\ Brings(reloads'[l - 1])
        OBVIOUS
      <4>2. l - 1 \in DOMAIN reloads' /\ reloads'[l - 1] = reloads[l]
        BY <3>1, <4>1
      <4> QED  BY <2>1, <4>1, <4>2 DEF Brings, UpToDate
    <3>4. worker'.at \in {"looking", "sending"} => worker'.loaded = Unread \/ UpToDate(worker'.loaded)
      BY <1>1, <2>1, <2>3 DEF Followed, UpToDate
    <3>5. ASSUME NEW k \in DOMAIN reloads', reloads'[k].kind = "loaded"
          PROVE  \/ UpToDate(reloads'[k].read)
                 \/ \E l \in DOMAIN reloads' : l > k /\ Brings(reloads'[l])
      <4>1. k + 1 \in DOMAIN reloads /\ reloads'[k] = reloads[k + 1] /\ k \in Nat
        BY <3>1
      <4>2. CASE UpToDate(reloads[k + 1].read)
        BY <2>1, <4>1, <4>2 DEF UpToDate
      <4>3. ASSUME NEW l \in DOMAIN reloads, l > k + 1, Brings(reloads[l])
            PROVE  \E m \in DOMAIN reloads' : m > k /\ Brings(reloads'[m])
        <5>1. l > 1 /\ l - 1 > k
          BY <3>1, <4>1, <4>3
        <5> QED  BY <3>3, <4>3, <5>1
      <4> QED  BY <1>1, <2>3, <3>5, <4>1, <4>2, <4>3 DEF Followed
    <3>6. view'.shown = source \/ view'.alert \/ \E l \in DOMAIN reloads' : Brings(reloads'[l])
      <4>1. CASE reloads[1].kind = "loaded"
        <5>1. reloads[1].read \in Nat \cup {Failed}
          BY <2>1, <4>1 DEF Results
        <5>2. CASE UpToDate(reloads[1].read) /\ reloads[1].read = Failed
          <6>1. view' = Alerted(Reset(view))
            BY <2>1, <4>1, <5>2 DEF Shown
          <6>2. view'.alert
            BY <1>1, <6>1, ViewFields, ViewTypes DEF Types
          <6> QED  BY <6>2
        <5>3. CASE UpToDate(reloads[1].read) /\ reloads[1].read # Failed
          <6>1. view' = Replaced(view, reloads[1].read, FALSE) /\ reloads[1].read = source
            BY <2>1, <4>1, <5>3 DEF Shown, UpToDate
          <6>2. view'.shown = source
            BY <1>1, <5>1, <5>3, <6>1, ViewFields DEF Types
          <6> QED  BY <6>2
        <5>4. CASE ~UpToDate(reloads[1].read)
          <6>1. \E l \in DOMAIN reloads : l > 1 /\ Brings(reloads[l])
            BY <1>1, <2>1, <2>3, <4>1, <5>4 DEF Followed
          <6> QED  BY <3>3, <6>1
        <5> QED  BY <5>2, <5>3, <5>4
      <4>2. CASE reloads[1].kind # "loaded"
        <5>1. SameView(view', view) /\ (view.alert => view'.alert)
          <6>1. ~DrainLoad /\ ~DrainEdit /\ ~ToggleLiveReload
            BY <1>7 DEF DrainReload, DrainLoad, DrainEdit, ToggleLiveReload
          <6> QED  BY <1>1, <2>1, <4>2, <6>1, ViewMoves
        <5>2. view.shown = source \/ view.alert \/ \E l \in DOMAIN reloads : Brings(reloads[l])
          BY <1>1, <2>3 DEF Followed, Coming
        <5>3. \A l \in DOMAIN reloads : Brings(reloads[l]) => l > 1
          BY <3>1, <4>2 DEF Brings
        <5> QED  BY <3>3, <5>1, <5>2, <5>3 DEF SameView
      <4> QED  BY <4>1, <4>2
    <3> QED  BY <2>1, <3>4, <3>5, <3>6 DEF Followed, Coming, Brings, UpToDate
  <2> QED  BY <2>2, <2>3
<1> DEFINE Still == UNCHANGED <<source, events, watcher, control, worker, reloads>>
<1>8. ASSUME Still, view'.shown = view.shown, view.alert => view'.alert
      PROVE  Followed'
  BY <1>1, <1>8 DEF Followed, Coming, Heard, WorkerBrings, UpToDate, Brings
<1>9. CASE DrainEdit
  <2>1. Still
    BY <1>9 DEF DrainEdit, UiMoves
  <2>2. ~DrainReload /\ ~DrainLoad /\ ~ToggleLiveReload
    BY <1>9 DEF DrainEdit, DrainReload, DrainLoad, ToggleLiveReload
  <2>3. CASE SameView(view', view) /\ (view.alert => view'.alert)
    BY <1>8, <2>1, <2>3 DEF SameView
  <2>4. CASE /\ edit.running /\ edit.read \in Nat /\ edit.generation = view.generation
             /\ view'.shown = edit.read /\ view'.alert = view.alert
    <3>1. view.shown <= edit.read /\ edit.read <= source
      BY <1>1, <2>4 DEF EditIsNewer, NotAhead
    <3>2. view.shown \in Nat /\ source \in Nat
      BY <1>1 DEF Types, Views
    <3>3. edit.read # source => view.shown # source
      BY <2>4, <3>1, <3>2
    <3>4. (Coming => Coming') /\ source' = source
      BY <2>1 DEF Coming, Heard, WorkerBrings, UpToDate, Brings
    <3>5. view'.shown = source' \/ view'.alert \/ Coming'
      BY <1>1, <2>4, <3>3, <3>4 DEF Followed
    <3>6. /\ worker.at \in {"looking", "sending"} => worker.loaded = Unread \/ UpToDate(worker.loaded) \/ Heard
          /\ \A k \in DOMAIN reloads :
                reloads[k].kind = "loaded" =>
                    \/ UpToDate(reloads[k].read) \/ Heard \/ WorkerBrings
                    \/ \E l \in DOMAIN reloads : l > k /\ Brings(reloads[l])
      BY <1>1 DEF Followed
    <3> QED  BY <2>1, <3>5, <3>6 DEF Followed, Heard, WorkerBrings, UpToDate, Brings
  <2> QED  BY <1>1, <2>2, <2>3, <2>4, ViewMoves
<1>10. CASE \/ DrainInvalidation \/ ReloadsDrained \/ KeepLive \/ DrainLoad \/ NoInput \/ EditReads
            \/ OpenEditor \/ CloseEditor \/ EditorClosed \/ UNCHANGED vars
  <2>1. Still
    BY <1>10 DEF DrainInvalidation, ReloadsDrained, KeepLive, DrainLoad, NoInput, EditReads, OpenEditor,
       CloseEditor, EditorClosed, UiMoves, vars
  <2>2. ~DrainReload /\ ~DrainEdit /\ ~ToggleLiveReload
    <3>1. ~DrainReload
      BY <2>1, <1>1 DEF DrainReload, Types
    <3>2. ~ToggleLiveReload
      BY CalmSteps
    <3>3. ~DrainEdit
      BY <1>1, <1>10 DEF DrainInvalidation, ReloadsDrained, KeepLive, DrainLoad, NoInput, EditReads, OpenEditor,
         CloseEditor, EditorClosed, UiMoves, vars, DrainEdit
    <3> QED  BY <3>1, <3>2, <3>3
  <2>3. ~load.running
    BY <1>1 DEF Running
  <2>4. SameView(view', view) /\ (view.alert => view'.alert)
    BY <1>1, <2>2, <2>3, ViewMoves
  <2> QED  BY <1>8, <2>1, <2>4 DEF SameView
<1> QED  BY <1>1, <1>3, <1>4, <1>5, <1>6, <1>7, <1>9, <1>10 DEF CalmNext

---------------------------------------------------------------------------
(* A view not launched with --watch never reloads by itself. *)
LEMMA OnlyWatchedReload ==
  ASSUME LiveInv, [Next]_vars
  PROVE  ~Bound'.watch => ~live'.auto
<1>1. Types /\ Bound' = Bound /\ (~Bound.watch => ~live.auto)
  BY CountersGrow DEF LiveInv, Bound
<1>2. CASE AbandonLive \/ RestartLive
  <2>1. PICK running \in BOOLEAN, failed \in BOOLEAN : DropLive(running, failed)
    BY <1>2 DEF AbandonLive, RestartLive
  <2>2. live' = [running |-> running, auto |-> running /\ AutoReload, failed |-> failed]
    BY <2>1 DEF DropLive
  <2>3. live'.auto = (running /\ AutoReload)
    BY <2>2
  <2> QED  BY <1>1, <2>3 DEF AutoReload
<1>3. CASE DrainReload \/ ToggleLiveReload
  <2>1. live'.auto = live.auto
    BY <1>1, <1>3 DEF DrainReload, ToggleLiveReload, Types, Lives
  <2> QED  BY <1>1, <2>1
<1> QED  BY <1>1, <1>2, <1>3, WhoMoves

LEMMA LiveInvInit == Init => LiveInv
<1> SUFFICES ASSUME Init PROVE LiveInv
  OBVIOUS
<1>1. PICK s \in Scenarios :
         used = [of |-> s, reloads |-> 0, editors |-> 0, toggles |-> 0, loads |-> 0, watches |-> 0]
  BY DEF Init
<1>2. used \in Counters /\ Bound = s /\ s.watch \in BOOLEAN
  BY <1>1, LiveAssumption DEF Counters, Bound
<1>3. Types
  <2>1. live \in Lives
    BY <1>2 DEF Init, Lives
  <2>2. flags \in FlagSets
    BY DEF Init, FlagSets
  <2>3. worker \in WorkerStates /\ worker.at # "sending"
    BY WorkerTypes DEF Init
  <2>4. view \in Views
    BY DEF Init, Views, Statuses
  <2>5. load \in Loads
    BY DEF Init, Loads, Reads
  <2>6. edit \in Edits
    BY DEF Init, NoEdit, Edits, Reads
  <2>7. /\ control \in Seq({"changed", "watcher_failed"}) /\ reloads \in Seq(Results)
        /\ source \in Nat /\ events \in Nat
    BY DEF Init
  <2> QED  BY <1>2, <2>1, <2>2, <2>3, <2>4, <2>5, <2>6, <2>7 DEF Types
<1>4. NotAhead
  BY DEF Init, NotAhead, IdleWorker, NoEdit, Unread
<1>5. EditIsNewer
  BY DEF Init, EditIsNewer, NoEdit
<1>6. ~Bound.watch => ~live.auto
  BY DEF Init
<1>7. Bound.watch => Running /\ Followed
  <2>1. Bound.watch => Running
    BY <1>2 DEF Init, Running, IdleWorker
  <2>2. Followed
    BY DEF Init, Followed, IdleWorker
  <2> QED  BY <2>1, <2>2
<1> QED  BY <1>3, <1>4, <1>5, <1>6, <1>7 DEF LiveInv

LEMMA LiveInvHolds == Spec => []LiveInv
<1>1. LiveInv /\ [Next]_vars => LiveInv'
  <2> SUFFICES ASSUME LiveInv, [Next]_vars PROVE LiveInv'
    OBVIOUS
  <2>1. Types /\ NotAhead /\ EditIsNewer
    BY DEF LiveInv
  <2>2. Types' /\ NotAhead' /\ EditIsNewer'
    BY <2>1, TypesStep, NotAheadStep, EditIsNewerStep
  <2>3. ~Bound'.watch => ~live'.auto
    BY OnlyWatchedReload
  <2>4. Calm' => Running' /\ Followed'
    BY RunningStep, FollowedStep
  <2> QED  BY <2>2, <2>3, <2>4 DEF LiveInv, Calm
<1> QED  BY <1>1, LiveInvInit, PTL DEF Spec

(* In watch mode, while no editor pauses the worker, nobody reloads by hand *)
(* and the watcher does not fail, a view that is behind its source shows an *)
(* error or has a reload on its way: no burst of changes, full channel,     *)
(* failed load or reload of an edited file loses the last change.           *)
THEOREM ChangesAreNotForgotten == Spec => []NoChangeForgotten
<1>1. LiveInv => NoChangeForgotten
  BY DEF LiveInv, NoChangeForgotten, Followed
<1> QED  BY <1>1, LiveInvHolds, PTL
=============================================================================
