------------------------------ MODULE Terminal ------------------------------
(***************************************************************************)
(* The terminal of a view: the modes it takes and gives back (run.rs,      *)
(* editor.rs), the input it discards when it does (terminal_input.rs), the *)
(* thread that reads events (event_reader.rs) and the UI thread that acts  *)
(* on them, opens editors and quits (app/runner.rs).                       *)
(*                                                                         *)
(* A key is a number, the order it was typed in, and its kind; the wheel   *)
(* reports the number of its gesture.  What a key does is left out but for *)
(* what moves between the layers of the UI ("menu"), opens an editor       *)
(* ("edit"), opens one from the annotation menu or from a binding of two   *)
(* keys ("external") or quits.  A panic aborts the process and is not      *)
(* modelled.                                                               *)
(***************************************************************************)
EXTENDS Integers, Sequences, FiniteSets, SequencesExt, FiniteSetsExt

CONSTANTS
    ChannelCapacity,    \* EVENT_READER_CHANNEL_CAPACITY
    Scenarios           \* how often each thing may happen in a run: [keys, scrolls, failures]

VARIABLES
    tty,        \* the terminal: its modes and the input nobody has read
    reader,     \* the thread that reads events, and the event in its hand
    channel,    \* the events it has sent
    ui,         \* the UI thread: what it is doing and what for
    fence,      \* MouseScrollContextFence, and the layer of the UI keys go to
    seen,       \* history: which keys were typed for whom, and what became of them
    failed      \* history: the calls that failed, how often any did, and the scenario

vars == <<tty, reader, channel, ui, fence, seen, failed>>

Bound == failed.of
Kinds == {"key", "menu", "edit", "external", "quit"}
Scroll == "scroll"
Event(kind, n) == [kind |-> kind, n |-> n]
Error == Event("error", 0)      \* io::Error of a poll or a read
Nothing == Event("none", 0)
Keys(events) == {events[i].n : i \in {j \in DOMAIN events : events[j].kind \in Kinds}}
Scrolls(events) == {i \in DOMAIN events : events[i].kind = Scroll}
Gestures(events) == {events[i].n : i \in Scrolls(events)}

Fails(call) ==
    /\ failed.times < Bound.failures
    /\ failed' = [failed EXCEPT !.times = @ + 1, !.calls = @ \cup {call}]
Works == UNCHANGED failed

Modes == [mode \in {"raw", "screen", "mouse"} |-> FALSE]
Idle == [at |-> "gone", hand |-> Nothing, shutdown |-> FALSE]

Init ==
    /\ tty = [modes |-> Modes, queue |-> <<>>, air |-> <<>>]
    /\ reader = Idle
    /\ channel = [events |-> <<>>, closed |-> FALSE]
    /\ ui = [at |-> "raw", then |-> "", paused |-> FALSE, tries |-> 0, ignoring |-> FALSE,
             result |-> "ok"]
    /\ fence = [last |-> 0, fenced |-> FALSE, layer |-> 0]
    /\ seen = [keys |-> 0, scrolls |-> 0, gesture |-> 0, mine |-> {}, theirs |-> {},
               handled |-> {}, shared |-> FALSE, layers |-> {}, late |-> FALSE]
    /\ \E scenario \in Scenarios : failed = [times |-> 0, calls |-> {}, of |-> scenario]

----------------------------------------------------------------------------
(* The person at the terminal.  A report of the wheel is under way for a      *)
(* while: it may arrive after reporting was turned off.                       *)

Type(kind) ==
    /\ ui.at # "left" /\ seen.keys < Bound.keys
    /\ LET n == seen.keys + 1
       IN  /\ tty' = [tty EXCEPT !.queue = Append(@, Event(kind, n))]
           /\ seen' = [seen EXCEPT !.keys = n,
                          !.mine = IF ui.at = "loop" THEN @ \cup {n} ELSE @,
                          !.theirs = IF ui.at = "editor" THEN @ \cup {n} ELSE @]
    /\ UNCHANGED <<reader, channel, ui, fence, failed>>

Wheel(gesture) ==
    /\ tty.modes.mouse /\ seen.scrolls < Bound.scrolls
    /\ tty' = [tty EXCEPT !.air = Append(@, Event(Scroll, gesture))]
    /\ seen' = [seen EXCEPT !.scrolls = @ + 1, !.gesture = gesture]
    /\ UNCHANGED <<reader, channel, ui, fence, failed>>

Arrive ==
    /\ tty.air # <<>>
    /\ tty' = [tty EXCEPT !.queue = Append(@, Head(tty.air)), !.air = Tail(@)]
    /\ UNCHANGED <<reader, channel, ui, fence, seen, failed>>

EditorReads ==
    /\ ui.at = "editor" /\ tty.queue # <<>>
    /\ tty' = [tty EXCEPT !.queue = Tail(@)]
    /\ UNCHANGED <<reader, channel, ui, fence, seen, failed>>

----------------------------------------------------------------------------
(* read_terminal_events: the thread looks for the shutdown flag before it    *)
(* polls and after; the poll takes the event from the terminal.              *)

Full == Len(channel.events) >= ChannelCapacity
ReaderOnly == UNCHANGED <<ui, fence, seen>>

ReaderPolls ==
    /\ reader.at = "poll"
    /\ UNCHANGED channel /\ ReaderOnly
    /\ \/ /\ reader.shutdown \/ (tty.queue = <<>> /\ channel.closed)
          /\ reader' = [reader EXCEPT !.at = "drain"]
          /\ UNCHANGED tty /\ Works
       \/ /\ ~reader.shutdown /\ tty.queue # <<>>
          /\ reader' = [reader EXCEPT !.at = "read", !.hand = Head(tty.queue)]
          /\ tty' = [tty EXCEPT !.queue = Tail(@)]
          /\ Works
       \/ /\ ~reader.shutdown
          /\ reader' = [reader EXCEPT !.at = "read", !.hand = Error]
          /\ UNCHANGED tty /\ Fails("read")

ReaderReads ==
    /\ reader.at = "read"
    /\ reader' = IF reader.shutdown THEN [reader EXCEPT !.at = "drain", !.hand = Nothing]
                 ELSE [reader EXCEPT !.at = "send"]
    /\ UNCHANGED <<tty, channel, failed>> /\ ReaderOnly

Sent == [reader EXCEPT !.at = IF reader.hand = Error THEN "drain" ELSE "poll", !.hand = Nothing]

(* Mutant: whatever does not fit is dropped. *)
WaitsForRoom_Never(event) == FALSE

(* Reports of the wheel that do not fit are dropped, anything else waits.    *)
WaitsForRoom(event) == event.kind # Scroll

ReaderSends ==
    /\ reader.at = "send"
    /\ UNCHANGED <<tty, failed>> /\ ReaderOnly
    /\ \/ /\ channel.closed
          /\ reader' = [reader EXCEPT !.at = "drain", !.hand = Nothing]
          /\ UNCHANGED channel
       \/ /\ ~channel.closed /\ ~Full
          /\ reader' = Sent
          /\ channel' = [channel EXCEPT !.events = Append(@, reader.hand)]
       \/ /\ ~channel.closed /\ Full /\ ~WaitsForRoom(reader.hand)
          /\ reader' = Sent
          /\ UNCHANGED channel

ReaderDrains ==
    /\ reader.at = "drain"
    /\ reader' = [reader EXCEPT !.at = "gone"]
    /\ tty' = [tty EXCEPT !.queue = <<>>]
    /\ UNCHANGED <<channel, failed>> /\ ReaderOnly

ReaderStep == ReaderPolls \/ ReaderReads \/ ReaderSends \/ ReaderDrains

----------------------------------------------------------------------------
(* The UI thread takes the terminal: TerminalCleanup::install, and what the  *)
(* start may fail at before the loop: run.rs.                                *)

Turn(at) == ui.at = at
Go(at) == ui' = [ui EXCEPT !.at = at]
GoFailing(at) == ui' = [ui EXCEPT !.at = at, !.result = "error"]
UiOnly == UNCHANGED <<fence, seen>>

Turned(on, modes) == [tty EXCEPT !.modes = [m \in DOMAIN @ |-> IF m \in modes THEN on ELSE @[m]]]

(* Escape sequences are written together; of a write that fails, the first   *)
(* may have got out.                                                         *)
Switch(call, on, modes, next, onError) ==
    \/ tty' = Turned(on, modes) /\ Works /\ next
    \/ /\ Fails(call) /\ onError
       /\ \E partly \in SUBSET modes : partly # modes /\ tty' = Turned(on, partly)

StartReader ==
    /\ reader' = [at |-> "poll", hand |-> Nothing, shutdown |-> FALSE]
    /\ channel' = [events |-> <<>>, closed |-> FALSE]

EnterRaw ==
    /\ Turn("raw") /\ UiOnly /\ UNCHANGED <<reader, channel>>
    /\ Switch("raw on", TRUE, {"raw"}, Go("enter"), GoFailing("left"))

EnterScreen ==
    /\ Turn("enter") /\ UiOnly /\ UNCHANGED <<reader, channel>>
    /\ Switch("enter", TRUE, {"screen", "mouse"}, Go("start"), GoFailing("mouse off"))

StartLoop ==
    /\ Turn("start") /\ UNCHANGED <<fence, tty>>
    /\ \/ StartReader /\ Go("loop") /\ Works /\ seen' = [seen EXCEPT !.mine = {}]
       \/ GoFailing("mouse off") /\ Fails("start") /\ UNCHANGED <<reader, channel, seen>>

----------------------------------------------------------------------------
(* A turn of the loop takes one event, or a run of reports of the wheel and  *)
(* what follows it: handle_ready_events.  Time is not modelled: any two       *)
(* moments may be within the quiet period or not.                            *)

Stop(then) == [ui EXCEPT !.at = "stop", !.then = then]
Quit(result) == [Stop("mouse off") EXCEPT !.result = result]
LoopOnly == UNCHANGED <<tty, reader>>

Recent(last) == IF last = 0 THEN {FALSE} ELSE BOOLEAN

(* More reports of the gesture may come, or are behind the key just taken.    *)
UnderWay(gesture) ==
    /\ gesture # 0
    /\ gesture \in {seen.gesture} \cup Gestures(tty.air) \cup Gestures(tty.queue)
                    \cup Gestures(<<reader.hand>>) \cup Gestures(channel'.events)

Act(event, f) ==
    /\ ui' = IF event.kind = "quit" THEN Quit("ok") ELSE ui
    /\ IF event.kind = "menu"
       THEN \E recent \in Recent(f.last) :
               /\ fence' = [f EXCEPT !.layer = 1 - @, !.fenced = recent]
               /\ seen' = [seen EXCEPT !.handled = @ \cup {event.n},
                                       !.late = @ \/ (~recent /\ UnderWay(f.last))]
       ELSE fence' = f /\ seen' = [seen EXCEPT !.handled = @ \cup {event.n}]
    /\ Works

(* An editor opened by the effects of the loop pauses the reader, one opened  *)
(* by the handler of the key does not; or there is nothing to edit.          *)
Edit(event, f) ==
    /\ fence' = f /\ Works
    /\ \/ ui' = ui /\ seen' = [seen EXCEPT !.handled = @ \cup {event.n}]
       \/ /\ ui' = IF event.kind = "edit" THEN [Stop("suspend mouse") EXCEPT !.paused = TRUE]
                   ELSE [ui EXCEPT !.at = "suspend mouse", !.paused = FALSE]
          /\ seen' = [seen EXCEPT !.handled = @ \cup {event.n},
                                  !.shared = @ \/ event.kind = "external"]

Heard(event, f) ==
    /\ seen' = [seen EXCEPT !.handled = @ \cup {event.n}]
    /\ fence' = f

(* handle_event: a quit key just after an editor is ignored; an effect may    *)
(* fail, which ends the loop.                                                *)
Press(event, f) ==
    \/ /\ event.kind = "quit" /\ ui.ignoring
       /\ Heard(event, f) /\ Works /\ UNCHANGED ui
    \/ /\ event.kind \in {"key", "menu"} \/ (event.kind = "quit" /\ ~ui.ignoring)
       /\ Act(event, f)
    \/ event.kind \in {"edit", "external"} /\ Edit(event, f)
    \/ /\ event.kind = "key"
       /\ Heard(event, f) /\ Fails("effect") /\ ui' = Quit("error")

WheelRun == SelectInSeq(channel.events, LAMBDA e : e.kind # Scroll) - 1
Later(n) == [channel EXCEPT !.events = SubSeq(@, n + 1, Len(@))]

TakeKey ==
    /\ Turn("loop") /\ LoopOnly
    /\ channel.events # <<>> /\ Head(channel.events).kind \in Kinds
    /\ channel' = Later(1)
    /\ Press(Head(channel.events), fence)

(* What follows a run of reports makes it stale; a quit key comes before it.  *)
TakeWheelAndKey ==
    /\ Turn("loop") /\ LoopOnly
    /\ WheelRun > 0
    /\ LET next == channel.events[WheelRun + 1]
           last == channel.events[WheelRun].n
       IN  /\ next.kind \in Kinds
           /\ channel' = Later(WheelRun + 1)
           /\ Press(next, IF next.kind = "quit" THEN fence ELSE [fence EXCEPT !.last = last])

Suppressed(continues) == fence.fenced /\ continues

TakeWheel ==
    /\ Turn("loop") /\ LoopOnly
    /\ channel.events # <<>> /\ Scrolls(channel.events) = DOMAIN channel.events
    /\ channel' = Later(Len(channel.events))
    /\ LET gestures == Gestures(channel.events)
       IN  \E continues \in Recent(fence.last) :
              /\ fence' = [fence EXCEPT !.last = Last(channel.events).n,
                                        !.fenced = Suppressed(continues)]
              /\ seen' = IF Suppressed(continues) THEN seen
                         ELSE [seen EXCEPT
                                 !.layers = @ \cup {<<g, fence.layer>> : g \in gestures},
                                 !.late = @ \/ (fence.fenced /\ fence.last \in gestures)]
    /\ Works /\ UNCHANGED ui

(* The reader reports an error and ends, or has ended. *)
TakeError ==
    /\ Turn("loop") /\ LoopOnly /\ UNCHANGED <<channel, fence, seen>>
    /\ \/ channel.events = <<>> /\ reader.at = "gone"
       \/ SelectInSeq(channel.events, LAMBDA e : e.kind # Scroll) > 0
          /\ channel.events[WheelRun + 1] = Error
    /\ ui' = Quit("error") /\ Works

EditorQuitKeysCount ==
    /\ ui.at = "loop" /\ ui.ignoring
    /\ ui' = [ui EXCEPT !.ignoring = FALSE]
    /\ UNCHANGED <<tty, reader, channel, fence, seen, failed>>

----------------------------------------------------------------------------
(* TerminalEventReader::stop, of a pause or of the drop at the end: the flag, *)
(* the channel that a reader may wait at, and the end of the thread.         *)

SetShutdown ==
    /\ Turn("stop") /\ UiOnly /\ Works
    /\ reader' = [reader EXCEPT !.shutdown = TRUE]
    /\ Go("close") /\ UNCHANGED <<tty, channel>>

(* Mutant: a reader that waits for room is left to wait. *)
CloseChannel_Open(open) == open

CloseChannel(open) == [open EXCEPT !.closed = TRUE]

CloseAndJoin ==
    /\ Turn("close") /\ UiOnly /\ Works
    /\ channel' = CloseChannel(channel)
    /\ Go("join") /\ UNCHANGED <<tty, reader>>

(* A pause also clears what was sent before. *)
Joined ==
    /\ Turn("join") /\ reader.at = "gone" /\ UiOnly /\ Works
    /\ channel' = [channel EXCEPT !.events = <<>>]
    /\ Go(ui.then) /\ UNCHANGED <<tty, reader>>

----------------------------------------------------------------------------
(* The modes given back: TerminalCleanup::cleanup, SuspendedTerminal.         *)

(* Mutant: the reports that are under way are not waited for. *)
Settled_AtOnce(t) == [t EXCEPT !.queue = <<>>]

Settled(t) == [t EXCEPT !.queue = <<>>, !.air = <<>>]

(* disable_mouse_capture_and_discard_reports *)
MouseOff(call, next, onError) ==
    \/ tty' = Settled(Turned(FALSE, {"mouse"})) /\ Works /\ next
    \/ tty' \in {tty, Turned(FALSE, {"mouse"})} /\ Fails(call) /\ onError

Rest == UiOnly /\ UNCHANGED <<reader, channel>>

SuspendFailed == ui' = [ui EXCEPT !.at = "flush", !.tries = 1]

Suspend ==
    \/ Turn("suspend mouse") /\ Rest /\ MouseOff("suspend", Go("suspend screen"), SuspendFailed)
    \/ Turn("suspend screen") /\ Rest
          /\ Switch("suspend", FALSE, {"screen"}, Go("suspend raw"), SuspendFailed)
    \/ Turn("suspend raw") /\ Rest
          /\ Switch("suspend", FALSE, {"raw"}, Go("editor"), SuspendFailed)

EditorEnds ==
    /\ Turn("editor") /\ Rest /\ UNCHANGED <<tty, failed>>
    /\ ui' = [ui EXCEPT !.at = "flush", !.tries = 2]

Flushed(t) == [t EXCEPT !.queue = <<>>]

(* A terminal that cannot be resumed is resumed once more when it is dropped. *)
ResumeFailed == ui' = [ui EXCEPT !.at = IF ui.tries > 1 THEN "flush" ELSE "restart", !.tries = @ - 1]

Resume ==
    \/ Turn("flush") /\ Rest /\ Go("resume raw")
          /\ \/ tty' = Flushed(tty) /\ Works
             \/ UNCHANGED tty /\ Fails("flush")
    \/ Turn("resume raw") /\ Rest
          /\ Switch("resume", TRUE, {"raw"}, Go("resume screen"), ResumeFailed)
    \/ Turn("resume screen") /\ Rest
          /\ Switch("resume", TRUE, {"screen", "mouse"}, Go("restart"), ResumeFailed)

Listens == [ui EXCEPT !.at = "loop", !.ignoring = TRUE]

(* The reader starts again, if it was paused; a pause that cannot tries once  *)
(* more when it is dropped, and ends the loop.                               *)
Restart ==
    /\ Turn("restart") /\ UNCHANGED <<tty, fence>>
    /\ seen' = [seen EXCEPT !.mine = {}]
    /\ \/ /\ ui.paused /\ StartReader /\ Works
          /\ ui' = Listens
       \/ /\ ui.paused /\ (StartReader \/ UNCHANGED <<reader, channel>>) /\ Fails("restart")
          /\ ui' = Quit("error")
       \/ /\ ~ui.paused /\ UNCHANGED <<reader, channel>> /\ Works
          /\ ui' = Listens

(* Every mode is given back, whatever failed before. *)
Cleanup ==
    \/ Turn("mouse off") /\ Rest /\ MouseOff("mouse off", Go("screen off"), GoFailing("screen off"))
    \/ Turn("screen off") /\ Rest
          /\ Switch("screen off", FALSE, {"screen"}, Go("raw off"), GoFailing("raw off"))
    \/ Turn("raw off") /\ Rest
          /\ Switch("raw off", FALSE, {"raw"}, Go("left"), GoFailing("left"))

----------------------------------------------------------------------------
UiStep ==
    \/ EnterRaw \/ EnterScreen \/ StartLoop
    \/ TakeKey \/ TakeWheelAndKey \/ TakeWheel \/ TakeError
    \/ SetShutdown \/ CloseAndJoin \/ Joined
    \/ Suspend \/ Resume \/ Restart \/ Cleanup

Next ==
    \/ \E kind \in Kinds : Type(kind)
    \/ \E gesture \in {seen.gesture, seen.gesture + 1} \ {0} : Wheel(gesture)
    \/ Arrive \/ EditorReads \/ EditorEnds \/ EditorQuitKeysCount
    \/ ReaderStep
    \/ UiStep

(* Both threads run and reports arrive; an editor may stay open forever.      *)
Fairness == WF_vars(ReaderStep) /\ WF_vars(UiStep) /\ WF_vars(Arrive)

Spec == Init /\ [][Next]_vars /\ Fairness

----------------------------------------------------------------------------
NoScrolls(t) == Scrolls(t.queue) = {} /\ t.air = <<>>
GivenBackBy == [raw |-> "raw off", screen |-> "screen off", mouse |-> "mouse off"]

(* An editor runs in a terminal as a shell leaves it, and a shell gets it so  *)
(* back, without reports of the wheel that would turn into text at its       *)
(* prompt, whatever fails on the way, but for what could not be given back;  *)
(* while the view listens the terminal is its own (run.rs, editor.rs).       *)
TerminalInItsPlace ==
    /\ ui.at = "editor" => tty.modes = Modes /\ NoScrolls(tty)
    /\ ui.at = "left" =>
          /\ \A mode \in DOMAIN Modes : tty.modes[mode] => GivenBackBy[mode] \in failed.calls
          /\ "mouse off" \notin failed.calls => NoScrolls(tty)
    /\ ui.at = "loop" /\ "resume" \notin failed.calls =>
          \A mode \in DOMAIN Modes : tty.modes[mode]

(* A key typed for an editor is the editor's: it is never acted on by the     *)
(* view, also when the editor left it unread (editor.rs, runner.rs).         *)
EditorKeepsItsKeys ==
    "flush" \notin failed.calls => seen.handled \cap seen.theirs = {}

(* So it is with an editor opened by the loop, which pauses the reader; and   *)
(* a key typed while the view listens is handled or on its way, also when    *)
(* the wheel fills the channel and its reports are dropped.                  *)
KeysGoWhereTyped ==
    /\ ~seen.shared => EditorKeepsItsKeys
    /\ ui.at = "loop" /\ "read" \notin failed.calls =>
          seen.mine \subseteq seen.handled \cup Keys(tty.queue) \cup Keys(<<reader.hand>>)
                               \cup Keys(channel.events)

(* One gesture of the wheel scrolls one layer of the UI: its tail is dropped  *)
(* when a menu opens or closes in the middle (MouseScrollContextFence), as   *)
(* long as the view comes to each report, or to a key before it, within the  *)
(* quiet period of the report before: it is then that it looks at the clock. *)
GestureStaysInLayer ==
    ~seen.late => \A a, b \in seen.layers : a[1] = b[1] => a[2] = b[2]

(* What the person does reaches whom it was meant for: the editor, the view  *)
(* or the layer of the UI under the wheel (event_reader.rs, runner.rs).       *)
InputGoesWhereMeant == KeysGoWhereTyped /\ GestureStaysInLayer

Waits == ui.at \notin {"loop", "editor", "left"}
Unheard == ui.at = "loop" /\ seen.mine \ seen.handled # {}

(* Pausing, resuming and quitting end, though the reader may be waiting for   *)
(* room in a full channel that nobody reads any more; and the keys typed are *)
(* handled, unless the view stops listening (the person rests at the bound). *)
NobodyWaitsForever == Waits \/ Unheard ~> ~Waits /\ ~Unheard
=============================================================================
