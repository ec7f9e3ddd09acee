------------------------------ MODULE DriverSession ------------------------------
(* The session of one process of the command line tool: DriverContext
   (src/src/driver/driver_context.cpp), the commands that start, re-read or close
   it, and the Lua calls of src/src/scripting/lua_engine.cpp, which nest: a
   script may call with_session in the callback of another with_session, run
   another script, and leave any of them by an error. frames is the Lua call
   stack as far as the session sees it, the innermost call last. *)
EXTENDS Naturals, Sequences, SequencesExt

CONSTANTS
  Chips,       \* the packages a board may carry: "plain", "toshiba" (toggle TLC)
  MaxFrames    \* bound on the nesting of Lua calls

ASSUME SessionAssumption == Chips \subseteq {"plain", "toshiba"} /\ MaxFrames \in Nat \ {0}

Types == {"ONFI", "JEDEC"}

VARIABLES
  chip,        \* the package
  proc,        \* "down", "running" a script, or "leaving" main
  onfi,        \* onfi_: "none" or "constructed"
  started,     \* started_
  start_type,  \* start_type_
  page,        \* the parameter page the geometry comes from
  frames,      \* Lua frames: scripts, with_session callbacks, pcalls of the script
  raising,     \* a Lua error is unwinding
  opened_by,   \* history: who opened the session, "with_session" or "call"
  behind       \* history: a command read a page the session was not told about

driver == <<onfi, started, start_type, page, opened_by, behind>>
vars == <<chip, proc, driver, frames, raising>>

(* closed is history: code inside the frame called driver.shutdown *)
Frame == [kind : {"script", "session", "pcall"}, started_here : BOOLEAN, closed : BOOLEAN]
NewFrame(kind, here) == [kind |-> kind, started_here |-> here, closed |-> FALSE]

TypeOK ==
  /\ chip \in Chips /\ proc \in {"down", "running", "leaving"}
  /\ onfi \in {"none", "constructed"} /\ started \in BOOLEAN
  /\ start_type \in Types /\ page \in Types \cup (IF started THEN {} ELSE {"unset"})
  /\ frames \in Seq(Frame) /\ Len(frames) <= MaxFrames
  /\ raising \in BOOLEAN
  /\ opened_by \in {"with_session", "call"} /\ behind \in BOOLEAN

Init ==
  /\ chip \in Chips /\ proc = "down"
  /\ onfi = "none" /\ started = FALSE /\ start_type = "ONFI" /\ page = "unset"
  /\ opened_by = "call" /\ behind = FALSE
  /\ frames = <<>> /\ raising = FALSE

-----------------------------------------------------------------------------
(* DriverContext *)

(* get_started reads a toggle TLC part by its JEDEC page, whatever was asked *)
PageAtStart(type) == IF chip = "toshiba" THEN "JEDEC" ELSE type

(* the page the geometry comes from once require_onfi_started has returned *)
PageRequired(type) ==
  CASE ~started                     -> PageAtStart(type)
    [] started /\ type # start_type -> type
    [] OTHER                        -> page

(* Mutant: a re-read leaves start_type_ as it was *)
TypeAfterStartOnly(type) == IF started THEN start_type ELSE type
TypeAfter(type) == type

(* require_onfi_started as it returns to `caller`, which then reads the
   parameter page of type `reads` itself, or none *)
Require(type, reads, caller) ==
  /\ onfi' = "constructed" /\ started' = TRUE
  /\ start_type' = TypeAfter(type)
  /\ page' = IF reads = "none" THEN PageRequired(type) ELSE reads
  /\ behind' = IF reads = "none" THEN behind /\ started /\ type = start_type
                                 ELSE reads # type
  /\ opened_by' = IF started THEN opened_by ELSE caller

(* require_onfi_started as it throws: gpio_init failed in the constructor, or
   get_started failed and the object is thrown away *)
RequireThrows == ~started /\ onfi' = "none" /\ UNCHANGED
  <<started, start_type, page, opened_by, behind>>

ShutDown ==
  /\ onfi' = "none" /\ started' = FALSE /\ page' = "unset" /\ behind' = FALSE
  /\ UNCHANGED <<start_type, opened_by>>

-----------------------------------------------------------------------------
(* Commands, as the session sees them *)

Probe(type, refresh) == Require(type, IF refresh THEN type ELSE "none", "call")

(* `parameters` starts an ONFI session and reads the page of its own option *)
ReadParameters(type) == Require("ONFI", type, "call")

(* all other commands that touch the package *)
DeviceCommand == Require("ONFI", "none", "call")

CommandSucceeds ==
  \/ \E type \in Types, refresh \in BOOLEAN : Probe(type, refresh)
  \/ \E type \in Types : ReadParameters(type)
  \/ DeviceCommand

(* An unknown name, a bad argument or a missing root user stops a command before
   its handler; the handler may fail in the start or after it. *)
CommandFails ==
  \/ UNCHANGED driver
  \/ RequireThrows
  \/ Require("ONFI", "none", "call")

-----------------------------------------------------------------------------
(* main: DriverContext lives as long as the one command of the process *)

MainCommand ==
  /\ proc = "down"
  /\ CommandSucceeds \/ CommandFails
  /\ proc' = "leaving"
  /\ UNCHANGED <<chip, frames, raising>>

MainScript ==
  /\ proc = "down"
  /\ proc' = "running"
  /\ frames' = <<NewFrame("script", FALSE)>>
  /\ UNCHANGED <<chip, driver, raising>>

MainReturns ==
  /\ proc = "leaving"
  /\ ShutDown
  /\ proc' = "down"
  /\ UNCHANGED <<chip, frames, raising>>

-----------------------------------------------------------------------------
(* Lua code running in the innermost frame *)

InScript == proc = "running" /\ ~raising
HasRoom == Len(frames) < MaxFrames
Raise == raising' = TRUE
Stays == UNCHANGED <<chip, proc, frames>>

StartSession ==               \* driver.start_session
  /\ InScript
  /\ \/ \E type \in Types : Require(type, "none", "call") /\ UNCHANGED raising
     \/ RequireThrows /\ Raise
  /\ Stays

TimedOrGeometry ==            \* nandworks.timed.*, nandworks.geometry
  /\ InScript
  /\ \/ Require("ONFI", "none", "call") /\ raising' \in BOOLEAN
     \/ RequireThrows /\ Raise
  /\ Stays

DriverShutdown ==             \* driver.shutdown
  /\ InScript
  /\ ShutDown
  /\ frames' = [i \in DOMAIN frames |-> [frames[i] EXCEPT !.closed = TRUE]]
  /\ UNCHANGED <<chip, proc, raising>>

(* exec returns the status; commands.x raises it unless allow_failure is set *)
RunCommand ==
  /\ InScript
  /\ \/ CommandSucceeds /\ UNCHANGED raising
     \/ CommandFails /\ raising' \in BOOLEAN
  /\ UNCHANGED <<chip, proc, frames>>

NestedScript ==               \* exec("script", ...): another engine, same driver
  /\ InScript /\ HasRoom
  /\ frames' = Append(frames, NewFrame("script", FALSE))
  /\ UNCHANGED <<chip, proc, driver, raising>>

ScriptPcall ==
  /\ InScript /\ HasRoom
  /\ frames' = Append(frames, NewFrame("pcall", FALSE))
  /\ UNCHANGED <<chip, proc, driver, raising>>

ScriptError == InScript /\ Raise /\ Stays /\ UNCHANGED driver

(* Mutant: whoever calls with_session closes the session *)
AlwaysStartedHere == TRUE
StartedHere == ~started

WithSessionEnters ==
  /\ InScript /\ HasRoom
  /\ \E type \in Types : Require(type, "none", "with_session")
  /\ frames' = Append(frames, NewFrame("session", StartedHere))
  /\ UNCHANGED <<chip, proc, raising>>

(* the start fails, or the script has removed one of the two globals *)
WithSessionRefused ==
  /\ InScript
  /\ \/ RequireThrows
     \/ /\ ~started /\ onfi' = "none" /\ start_type' \in Types
        /\ UNCHANGED <<started, page, opened_by, behind>>
     \/ started /\ \E type \in Types : Require(type, "none", "with_session")
  /\ Raise /\ Stays

-----------------------------------------------------------------------------
(* Leaving a frame *)

Innermost == Last(frames)

(* the last script returns to main *)
Pop ==
  /\ frames' = Front(frames)
  /\ proc' = IF Len(frames) = 1 THEN "leaving" ELSE "running"

CloseIfStartedHere ==
  IF Innermost.started_here THEN ShutDown ELSE UNCHANGED driver

FrameReturns ==
  /\ InScript
  /\ CloseIfStartedHere
  /\ Pop
  /\ UNCHANGED <<chip, raising>>

(* Mutant: the error path of with_session forgets the session *)
SessionRethrowsOpen == Innermost.kind = "session" /\ UNCHANGED <<driver, raising>>
(* with_session closes what it started and passes the error on *)
SessionRethrows == Innermost.kind = "session" /\ CloseIfStartedHere /\ UNCHANGED raising

PcallCatches == Innermost.kind = "pcall" /\ raising' = FALSE /\ UNCHANGED driver

(* run_file catches: the script command returns 6, which its caller raises or not *)
ScriptFails ==
  /\ Innermost.kind = "script"
  /\ raising' \in IF Len(frames) = 1 THEN {FALSE} ELSE BOOLEAN
  /\ UNCHANGED driver

ErrorUnwinds ==
  /\ proc = "running" /\ raising
  /\ SessionRethrows \/ PcallCatches \/ ScriptFails
  /\ Pop
  /\ UNCHANGED chip

Next ==
  \/ MainCommand \/ MainScript \/ MainReturns
  \/ StartSession \/ TimedOrGeometry \/ DriverShutdown \/ RunCommand
  \/ NestedScript \/ ScriptPcall \/ ScriptError
  \/ WithSessionEnters \/ WithSessionRefused
  \/ FrameReturns \/ ErrorUnwinds

Spec == Init /\ [][Next]_vars

-----------------------------------------------------------------------------
(* A session that with_session opened is never left behind: while it is open, a
   with_session that opened one is still running, on every way out of the callback. *)
NoSessionLeftBehind ==
  started /\ opened_by = "with_session" => \E i \in DOMAIN frames : frames[i].started_here

(* The geometry of a session is that of the parameter page it was started or
   re-read for, except after `parameters --jedec`, which reads behind the session's
   back, and on a toggle TLC part, which has only its JEDEC page. *)
GeometryAsAsked ==
  started => page = start_type \/ behind \/ (chip = "toshiba" /\ page = "JEDEC")
=============================================================================
