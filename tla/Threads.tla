------------------------------- MODULE Threads -------------------------------
(* The threads beside that of a view: those that highlight (SyntaxRuntime)   *)
(* and the one that reads the terminal (Terminal).  They share no state.      *)
EXTENDS SyntaxRuntime

CONSTANTS EventCapacity, Scenarios      \* of the terminal
VARIABLES tty, reader, channel, uiThread, fence, seen, failures

terminalVars == <<tty, reader, channel, uiThread, fence, seen, failures>>

T == INSTANCE Terminal WITH
        ChannelCapacity <- EventCapacity, ui <- uiThread, failed <- failures

(* What the threads of the terminal promise (run.rs, editor.rs, runner.rs,   *)
(* event_reader.rs), as Terminal states it: its modes are where they belong. *)
TerminalInItsPlace == T!TerminalInItsPlace

(* What the person does reaches whom it was meant for.                        *)
InputGoesWhereMeant == T!InputGoesWhereMeant

(* Pausing, resuming and quitting end, and keys are handled.                  *)
NobodyWaitsForever == T!NobodyWaitsForever
=============================================================================
