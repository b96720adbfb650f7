---------------------------- MODULE SessionServer ----------------------------
(***************************************************************************)
(* The session of a running view (crates/mark-session/src/server.rs,       *)
(* registry.rs, client.rs, transport.rs; crates/mark-tui/src/session/      *)
(* runtime.rs, controller.rs, reload.rs; run.rs).  The server's task       *)
(* publishes the view in a directory that any other process of the user    *)
(* may be listing and cleaning, step by step; clients connect to its       *)
(* socket, their commands go through a bounded channel to the UI thread,   *)
(* which may be in an editor or quitting, and the answers go back.         *)
(*                                                                         *)
(* One session: names are drawn at random and never used again.  The base  *)
(* directory exists and is private; peers are the user's.  What a command  *)
(* does is its own business: here it is done at once, or a reload.         *)
(***************************************************************************)
EXTENDS Integers, FiniteSets, Sequences, SequencesExt

CONSTANTS
    Client, Scanner, NONE,
    ChannelCapacity,    \* SESSION_COMMAND_CHANNEL_CAPACITY
    Scenarios           \* who is there in a run, and MAX_CONNECTED_CLIENTS

ASSUME SessionAssumption ==
    /\ ChannelCapacity \in Nat \ {0}
    /\ NONE \notin Client
    /\ Scenarios \subseteq [clients: SUBSET Client, places: Nat, scanners: SUBSET Scanner, editors: Nat]

VARIABLES
    entry,      \* the session's directory: its mode, and what is in it
    server,     \* where run_server is
    view,       \* where the UI thread is, and the client whose reload it loads
    scan,       \* where each listing process is with the entry
    queue,      \* the channel of commands
    conn,       \* the connections
    done,       \* history: the clients whose command was carried out
    hasty,      \* history: who found the directory before it was private, and went on
    used        \* the scenario, and how often the editor was opened

vars == <<entry, server, view, scan, queue, conn, done, hasty, used>>

NoEntry == [mode |-> "none", socket |-> "none", record |-> FALSE, temp |-> FALSE]

(* Startup's steps, in their order; "failed" has told the view why. *)
Steps == <<"make", "secure", "bind", "restrict", "remake", "resecure", "write", "rename", "protect", "serving">>
After(step) == Steps[(CHOOSE k \in DOMAIN Steps : Steps[k] = step) + 1]
Listening == server \in ToSet(SubSeq(Steps, 4, Len(Steps)))

Running == {"loop", "editing"}
Removals == {"checking", "unlinking", "forgetting", "emptying"}

Init ==
    /\ entry = NoEntry
    /\ server = "make"
    /\ view = [at |-> "loop", load |-> NONE]
    /\ scan = [s \in Scanner |-> "idle"]
    /\ queue = <<>>
    /\ conn = [c \in Client |-> [at |-> "none", method |-> "none", open |-> FALSE, sent |-> FALSE,
                                 reply |-> "none", told |-> "none"]]
    /\ done = {} /\ hasty = [s \in Scanner |-> "no"]
    /\ \E scenario \in Scenarios : used = [of |-> scenario, editors |-> 0]

----------------------------------------------------------------------------
(* The registry: registry.rs *)

Gone(e) == e.mode = "none"

(* ensure_private_directory makes the directory by the umask, then restricts *)
(* it.                                                                       *)
Made(e) == IF Gone(e) THEN [e EXCEPT !.mode = "open"] ELSE e

(* remove_session, one system call after the other.                          *)
RemovalStep(at) ==
    CASE at = "checking" -> [next |-> IF entry.mode = "private" THEN "unlinking" ELSE "over", entry |-> entry]
      [] at = "unlinking" -> [next |-> "forgetting", entry |-> [entry EXCEPT !.socket = "none"]]
      [] at = "forgetting" -> [next |-> "emptying", entry |-> [entry EXCEPT !.record = FALSE]]
      [] at = "emptying" -> [next |-> "over",
             entry |-> IF entry.socket # "none" \/ entry.record \/ entry.temp THEN entry ELSE NoEntry]

(* Mutant: a directory without a record is left over from a session. *)
Judgement_Missing(e) ==
    CASE Gone(e) -> "idle"
      [] e.mode = "open" -> "checking"
      [] e.mode = "private" /\ ~e.record -> "checking"
      [] e.mode = "private" /\ e.record -> "probing"

(* read_record: what cannot be read for another reason than its absence is   *)
(* removed.                                                                  *)
Judgement(e) ==
    CASE Gone(e) -> "idle"
      [] e.mode = "open" -> "checking"
      [] e.mode = "private" /\ ~e.record -> "idle"
      [] e.mode = "private" /\ e.record -> "probing"

ScanUnchanged == UNCHANGED <<server, view, queue, conn, done, used>>

(* list: the entry is found, *)
ScanFinds(s) ==
    /\ s \in used.of.scanners
    /\ scan[s] = "idle" /\ ~Gone(entry)
    /\ scan' = [scan EXCEPT ![s] = "reading"]
    /\ UNCHANGED <<entry, hasty>> /\ ScanUnchanged

(* its record read, *)
ScanReads(s) ==
    /\ scan[s] = "reading"
    /\ scan' = [scan EXCEPT ![s] = Judgement(entry)]
    /\ hasty' = [hasty EXCEPT ![s] = IF @ = "removed" THEN @
                                     ELSE IF entry.mode = "open" THEN "read" ELSE "no"]
    /\ UNCHANGED entry /\ ScanUnchanged

(* and its socket tried: a dead process, or another with its number, leaves  *)
(* one that refuses.  (The connection this makes, closed at once, is left    *)
(* out.)                                                                     *)
ScanProbes(s) ==
    /\ scan[s] = "probing"
    /\ scan' = [scan EXCEPT ![s] = IF entry.socket = "bound" THEN "idle" ELSE "checking"]
    /\ UNCHANGED <<entry, hasty>> /\ ScanUnchanged

ScanRemoves(s) ==
    /\ scan[s] \in Removals
    /\ LET step == RemovalStep(scan[s])
       IN  /\ entry' = step.entry
           /\ scan' = [scan EXCEPT ![s] = IF step.next = "over" THEN "idle" ELSE step.next]
           /\ hasty' = [hasty EXCEPT ![s] =
                            IF step.next = "unlinking" /\ @ = "read" THEN "removed" ELSE @]
    /\ ScanUnchanged

----------------------------------------------------------------------------
(* run_server *)

ServerUnchanged == UNCHANGED <<view, scan, queue, done, hasty, used>>

(* What each step needs, and what it makes of the directory; write_record    *)
(* prepares the directory again.                                             *)
Needs(step) ==
    CASE step \in {"make", "remake"} -> TRUE
      [] step \in {"secure", "bind", "resecure", "write"} -> ~Gone(entry)
      [] step = "restrict" -> entry.socket # "none"
      [] step = "rename" -> entry.temp
      [] step = "protect" -> entry.record

Effect(step) ==
    CASE step \in {"make", "remake"} -> Made(entry)
      [] step \in {"secure", "resecure"} -> [entry EXCEPT !.mode = "private"]
      [] step = "bind" -> [entry EXCEPT !.socket = "bound"]
      [] step = "write" -> [entry EXCEPT !.temp = TRUE]
      [] step = "rename" -> [entry EXCEPT !.temp = FALSE, !.record = TRUE]
      [] step \in {"restrict", "protect"} -> entry

(* A listener that goes leaves a socket that refuses, and drops whoever it   *)
(* has not accepted.                                                         *)
Orphaned(e) == [e EXCEPT !.socket = IF @ = "bound" THEN "dead" ELSE @]
Dropped(c) == [conn[c] EXCEPT !.at = "over", !.open = FALSE, !.told = "nothing"]
Unlistened == [c \in Client |-> IF conn[c].at = "backlog" THEN Dropped(c) ELSE conn[c]]

Startup ==
    /\ server \in ToSet(Front(Steps))
    /\ view.at # "exited"
    /\ IF Needs(server)
       THEN entry' = Effect(server) /\ server' = After(server) /\ UNCHANGED conn
       ELSE entry' = Orphaned(entry) /\ server' = "failed" /\ conn' = Unlistened
    /\ ServerUnchanged

----------------------------------------------------------------------------
(* Clients: client.rs *)

ClientUnchanged == UNCHANGED <<entry, server, view, scan, done, hasty, used>>

Over(c, told) == conn' = [conn EXCEPT ![c].at = "over", ![c].open = FALSE, ![c].told = told]

(* An address from an earlier listing may lead nowhere. *)
Connect(c, method) ==
    /\ c \in used.of.clients
    /\ conn[c].at = "none" /\ server # "make"
    /\ IF Listening /\ entry.socket = "bound"
       THEN conn' = [conn EXCEPT ![c].at = "backlog", ![c].method = method, ![c].open = TRUE]
       ELSE Over(c, "unreachable")
    /\ UNCHANGED queue /\ ClientUnchanged

Send(c) ==
    /\ conn[c].open /\ ~conn[c].sent
    /\ conn' = [conn EXCEPT ![c].sent = TRUE]
    /\ UNCHANGED queue /\ ClientUnchanged

(* It dies, is told to stop, or has waited for its read timeout, which a     *)
(* reload has not.                                                           *)
Leave(c) ==
    /\ conn[c].open
    /\ conn' = [conn EXCEPT ![c].open = FALSE, ![c].told = "nothing"]
    /\ UNCHANGED queue /\ ClientUnchanged

----------------------------------------------------------------------------
(* handle_connection *)

Holding(c) == conn[c].at \in {"reading", "sending", "waiting", "replying"}
Taken == Cardinality({c \in Client : Holding(c)})
Alive == view.at # "exited"

Accept(c) ==
    /\ Alive /\ server = "serving" /\ conn[c].at = "backlog"
    /\ conn' = [conn EXCEPT ![c].at = IF Taken < used.of.places THEN "reading" ELSE "rejecting"]
    /\ UNCHANGED queue /\ ClientUnchanged

(* The request is drained before the reply, or the reply would be lost; a    *)
(* client that sends none is closed.                                         *)
RejectBusy(c) ==
    /\ Alive /\ conn[c].at = "rejecting"
    /\ Over(c, IF conn[c].open /\ conn[c].sent THEN "busy" ELSE "nothing")
    /\ UNCHANGED queue /\ ClientUnchanged

Reply(c, result) == conn' = [conn EXCEPT ![c].at = "replying", ![c].reply = result]

(* A whole frame, one that is not a request, none before the client went, or *)
(* none in time.                                                             *)
ReadFrame(c) ==
    /\ Alive /\ conn[c].at = "reading"
    /\ \/ conn[c].sent /\ conn' = [conn EXCEPT ![c].at = "sending"]
       \/ conn[c].sent /\ Reply(c, "invalid")
       \/ ~conn[c].sent /\ ~conn[c].open /\ Over(c, "nothing")
       \/ ~conn[c].sent /\ conn[c].open /\ Reply(c, "request_timeout")
    /\ UNCHANGED queue /\ ClientUnchanged

ReceiverGone == view.at \notin Running \cup {"finishing"}

Enqueue(c) ==
    /\ Alive /\ conn[c].at = "sending"
    /\ IF ReceiverGone
       THEN Reply(c, "unavailable") /\ UNCHANGED queue
       ELSE /\ Len(queue) < ChannelCapacity
            /\ conn' = [conn EXCEPT ![c].at = "waiting"]
            /\ queue' = Append(queue, c)
    /\ ClientUnchanged

(* Mutant: the server does not wait for the view. *)
Answer_Impatient(c) ==
    /\ Alive /\ conn[c].at = "waiting"
    /\ Reply(c, IF conn[c].reply = "none" THEN "unavailable" ELSE conn[c].reply)
    /\ UNCHANGED queue /\ ClientUnchanged

Answer(c) ==
    /\ Alive /\ conn[c].at = "waiting" /\ conn[c].reply # "none"
    /\ Reply(c, conn[c].reply)
    /\ UNCHANGED queue /\ ClientUnchanged

(* The write fails if the client went, and is given up in the end.           *)
WriteReply(c) ==
    /\ Alive /\ conn[c].at = "replying"
    /\ Over(c, IF conn[c].open THEN conn[c].reply ELSE conn[c].told)
    /\ UNCHANGED queue /\ ClientUnchanged

Connection(c) == Accept(c) \/ RejectBusy(c) \/ ReadFrame(c) \/ Enqueue(c) \/ Answer(c) \/ WriteReply(c)

----------------------------------------------------------------------------
(* The UI thread: run_loop, session::handle, the end of the view *)

ViewUnchanged == UNCHANGED <<server, scan, hasty, used>>
Told(cs, result) == [c \in Client |-> IF c \in cs THEN [conn[c] EXCEPT !.reply = result] ELSE conn[c]]

Handle ==
    /\ view.at = "loop" /\ queue # <<>>
    /\ queue' = Tail(queue)
    /\ LET c == Head(queue)
       IN  \/ /\ conn[c].method = "get"
              /\ conn' = Told({c}, "ok") /\ done' = done \cup {c}
              /\ UNCHANGED view
           \/ /\ conn[c].method = "reload" /\ view.load # NONE
              /\ conn' = Told({c}, "reload_in_progress")
              /\ UNCHANGED <<view, done>>
           \/ /\ conn[c].method = "reload" /\ view.load = NONE
              /\ view' = [view EXCEPT !.load = c]
              /\ UNCHANGED <<conn, done>>
    /\ UNCHANGED entry /\ ViewUnchanged

(* The reload is applied, or fails. *)
LoadEnds ==
    /\ view.at = "loop" /\ view.load # NONE
    /\ view' = [view EXCEPT !.load = NONE]
    /\ \/ conn' = Told({view.load}, "ok") /\ done' = done \cup {view.load}
       \/ conn' = Told({view.load}, "reload_failed") /\ UNCHANGED done
    /\ UNCHANGED <<entry, queue>> /\ ViewUnchanged

(* Mutant: whoever waits for the load that is dropped is forgotten. *)
LoadDropped_Silently ==
    /\ view.at = "loop" /\ view.load # NONE
    /\ view' = [view EXCEPT !.load = NONE]
    /\ UNCHANGED <<entry, queue, conn, done>> /\ ViewUnchanged

(* The reader chooses another diff. *)
LoadDropped ==
    /\ view.at = "loop" /\ view.load # NONE
    /\ view' = [view EXCEPT !.load = NONE]
    /\ conn' = Told({view.load}, "stopped")
    /\ UNCHANGED <<entry, queue, done>> /\ ViewUnchanged

OpenEditor ==
    /\ view.at = "loop" /\ used.editors < used.of.editors
    /\ view' = [view EXCEPT !.at = "editing"]
    /\ used' = [used EXCEPT !.editors = @ + 1]
    /\ UNCHANGED <<entry, server, scan, queue, conn, done, hasty>>

CloseEditor ==
    /\ view.at = "editing"
    /\ view' = [view EXCEPT !.at = "loop"]
    /\ UNCHANGED <<entry, queue, conn, done>> /\ ViewUnchanged

Quit ==
    /\ view.at = "loop"
    /\ view' = [view EXCEPT !.at = "finishing"]
    /\ UNCHANGED <<entry, queue, conn, done>> /\ ViewUnchanged

(* The session is dropped: its channel with what is in it, then the server's *)
(* handle, which removes the registration.  The connections stay.            *)
DropSession ==
    /\ view.at = "finishing"
    /\ view' = [view EXCEPT !.at = "checking"]
    /\ queue' = <<>>
    /\ conn' = Told(ToSet(queue), "stopped")
    /\ UNCHANGED <<entry, done>> /\ ViewUnchanged

(* The task is aborted at its next wait, which startup has none of. *)
Aborted ==
    /\ view.at \in Removals \cup {"leaving"} /\ server = "serving"
    /\ server' = "failed"
    /\ entry' = Orphaned(entry)
    /\ conn' = Unlistened
    /\ ServerUnchanged

DropRegistration ==
    /\ view.at \in Removals
    /\ LET step == RemovalStep(view.at)
       IN  /\ entry' = step.entry
           /\ view' = [view EXCEPT !.at = IF step.next = "over" THEN "leaving" ELSE step.next]
    /\ UNCHANGED <<queue, conn, done>> /\ ViewUnchanged

(* The process ends, at the end or by a crash: whoever is connected reads an *)
(* end of file.                                                              *)
Ended ==
    /\ view' = [at |-> "exited", load |-> NONE]
    /\ server' = "failed"
    /\ entry' = Orphaned(entry)
    /\ queue' = <<>>
    /\ conn' = [c \in Client |-> IF conn[c].at \in {"none", "over"} THEN conn[c] ELSE Dropped(c)]
    /\ UNCHANGED <<scan, done, hasty, used>>

(* After the session the view goes, with its load.                           *)
DropView ==
    /\ view.at = "leaving" /\ view.load # NONE
    /\ view' = [view EXCEPT !.load = NONE]
    /\ conn' = Told({view.load}, "stopped")
    /\ UNCHANGED <<entry, queue, done>> /\ ViewUnchanged

Exit == view.at = "leaving" /\ view.load = NONE /\ Ended
Crash == view.at # "exited" /\ Ended

View ==
    \/ Handle \/ LoadEnds \/ CloseEditor
    \/ DropSession \/ Aborted \/ DropRegistration \/ DropView \/ Exit

----------------------------------------------------------------------------
Scan(s) == ScanFinds(s) \/ ScanReads(s) \/ ScanProbes(s) \/ ScanRemoves(s)

Next ==
    \/ Startup
    \/ View \/ LoadDropped \/ OpenEditor \/ Quit \/ Crash
    \/ \E s \in Scanner : Scan(s)
    \/ \E c \in Client :
          \/ \E method \in {"get", "reload"} : Connect(c, method)
          \/ Send(c) \/ Leave(c) \/ Connection(c)

(* The runtime polls every task, and the process gets on: the loop goes      *)
(* round, loads end, editors are closed.  Somebody lists sessions again and  *)
(* again.  Clients need not send what they began, nor may they stay.         *)
Fairness ==
    /\ WF_vars(Startup) /\ WF_vars(View)
    /\ \A c \in Client : WF_vars(Connection(c))
    /\ \A s \in Scanner : WF_vars(Scan(s))

Spec == Init /\ [][Next]_vars /\ Fairness

----------------------------------------------------------------------------
Refusals == {"busy", "invalid", "request_timeout", "unavailable", "stopped",
             "reload_in_progress", "reload_failed", "unreachable"}

(* An answer is true: who is told it was done had it done, and who is told   *)
(* it was not will not see it done later, though commands wait in a channel  *)
(* while their clients give up, the view edits, loads something else or      *)
(* quits.                                                                    *)
AnswersAreTrue ==
    \A c \in Client :
        /\ conn[c].told = "ok" => c \in done
        /\ conn[c].told \in Refusals => c \notin done /\ ~Contains(queue, c) /\ view.load # c

Registered == entry = [mode |-> "private", socket |-> "bound", record |-> TRUE, temp |-> FALSE]

(* Who lists sessions finds every one that runs, and nobody is removing it:  *)
(* listing removes what is left of the dead.  Only who read the directory in *)
(* the moment between the call that made it and the one that made it private *)
(* may be about to, and finds it gone or goes on to remove it: nothing else  *)
(* that was read at any moment of the startup or after it, by any number of  *)
(* listings, takes a running session out of the registry (the comment at     *)
(* registry.rs:130; the moment itself is what ListingSpares is about).       *)
RunningIsListed ==
    server = "serving" /\ view.at \in Running =>
        \/ Registered /\ \A s \in Scanner : scan[s] \in Removals => hasty[s] = "read"
        \/ \E s \in Scanner : hasty[s] = "removed"

(* Without that moment: an entry that is being made is spared.               *)
ListingSpares == server = "serving" /\ view.at \in Running => Registered

(* Every call ends, whoever else is slow, silent or gone: no client waits    *)
(* for an answer nobody will give, every place of a connection is given      *)
(* back, and the entry of a session that is gone does not stay.              *)
EveryoneIsDone ==
    /\ \A c \in Client : conn[c].open ~> ~conn[c].open
    /\ []<>(Taken = 0)
    /\ (view.at = "exited" /\ entry.record /\ used.of.scanners # {}) ~> ~entry.record
=============================================================================
