-------------------------- MODULE MCSyntaxRuntime --------------------------
(* The threads beside a view, in two instances of which a behaviour has      *)
(* one. Highlighting: two files with hunks, one of them readable as a        *)
(* whole and with a context row, and a file nothing highlights; the cache    *)
(* holds what the first rows or the last ask for, not what those between     *)
(* do, nor any two of the heavier sources. The terminal: two keys and two    *)
(* reports of the wheel over a channel of one event, or a call that fails    *)
(* for the second report; a key, a report and two such calls; or a key and   *)
(* three reports, for a gesture that goes on behind a menu.                  *)
EXTENDS Threads, TLC
CONSTANTS w1, w2

MCRows == <<[file |-> "a", hunk |-> 0], [file |-> "a", hunk |-> 1], [file |-> "b", hunk |-> 1],
            [file |-> "b", hunk |-> 2], [file |-> "c", hunk |-> 1]>>
MCHasFullFile == {"a"}
MCHunkBytes == <<0, 2, 2, 1, 1>>
Highlighted(bytes) == [result |-> "ok", bytes |-> bytes]
MCOutcomes(file, hunk) ==
    CASE hunk = 0 -> {Highlighted(2), Highlighted(4), [result |-> "unavailable", bytes |-> 0]}
      [] file = "a" /\ hunk = 1 -> {Highlighted(4), [result |-> "error", bytes |-> 0]}
      [] OTHER -> {Highlighted(hunk)}
MCNoLanguage == {"c"}
MCWorkers == {w1, w2}

MCTerminalScenarios ==
    {[keys |-> 2, scrolls |-> 2, failures |-> 0], [keys |-> 2, scrolls |-> 1, failures |-> 1],
     [keys |-> 1, scrolls |-> 1, failures |-> 2], [keys |-> 1, scrolls |-> 3, failures |-> 0]}

RuntimeDropped ==
    /\ generation = 0 /\ top = 1 /\ dirty = FALSE /\ todo = <<>> /\ painted = {} /\ ui = "dropped"
    /\ queue = [generation |-> 0, visible |-> <<>>, prefetch |-> <<>>, bytes |-> 0, closed |-> TRUE]
    /\ pending = {} /\ keyOf = [r \in RowIds |-> NoKey] /\ skipped = {} /\ skippedFiles = {}
    /\ unavailable = {} /\ failed = {} /\ cache = <<>>
    /\ worker = [w \in Workers |-> [pc |-> "exited"]] /\ results = <<>> /\ open = FALSE
    /\ refused = {} /\ reloads = 0 /\ scrolls = 0

TerminalLeft ==
    /\ tty = [modes |-> T!Modes, queue |-> <<>>, air |-> <<>>]
    /\ reader = T!Idle
    /\ channel = [events |-> <<>>, closed |-> TRUE]
    /\ uiThread = [at |-> "left"]
    /\ fence = <<>>
    /\ seen = [gesture |-> 0, mine |-> {}, theirs |-> {}, handled |-> {}, shared |-> FALSE,
               layers |-> {}, late |-> FALSE]
    /\ failures = [calls |-> {}]

MCInit == \/ Init /\ TerminalLeft
          \/ T!Init /\ RuntimeDropped

MCNext == \/ Next /\ UNCHANGED terminalVars
          \/ T!Next /\ UNCHANGED vars

MCSpec ==
    /\ MCInit
    /\ [][MCNext]_<<vars, terminalVars>>
    /\ Fairness
    /\ T!Fairness
=============================================================================
