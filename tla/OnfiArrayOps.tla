---------------------------- MODULE OnfiArrayOps ----------------------------
(***************************************************************************)
(* The host side of every operation on the flash array: how the driver     *)
(* starts a session, drives WP#, sends the command sequences, waits on     *)
(* R/B#, reads data and status back and decides what to report.            *)
(*                                                                         *)
(* Three families of functions reach the array and differ in what they     *)
(* wait for and in who drives WP#:                                         *)
(*   "legacy"  onfi_interface::erase_block, program_page, ...              *)
(*   "device"  onfi::NandDevice, used by the erase-block, program-page     *)
(*             and read-page commands                                      *)
(*   "timed"   onfi::timed, used by the measure-* commands and by Lua      *)
(* "driver" are the calls that manage the session, "raw" is raw-command    *)
(* 0xFF, which sends the byte and waits for nothing.                       *)
(*                                                                         *)
(* A call is the sequence of its phases.  A phase is one wait, one bus     *)
(* transaction or one WP# decision; the target, and the end of the         *)
(* process, interleave between any two of them.                            *)
(***************************************************************************)
EXTENDS NandTarget, Naturals, Sequences

CONSTANTS
  Apis,       \* the families of functions the sessions use
  Toggle      \* interface_type: TRUE is toggle, FALSE is asynchronous

ASSUME HostAssumption ==
  /\ Apis \subseteq {"legacy", "device", "timed", "driver", "raw"}
  /\ Toggle \in BOOLEAN

VARIABLES
  wp,         \* level of the WP# pin (0 protects the array)
  enabled,    \* erase_enabled_
  session,    \* "on" once get_started has returned
  call,       \* the call under way, or the last one
  at,         \* its phase, 0 when no call is under way
  seen,       \* what the call has learnt: BusyWindow, status byte, data
  verdict,    \* what the last call reported
  applied     \* history: writes the target completed with PASS in this call

hostVars == <<wp, enabled, session, call, at, seen, verdict, applied>>
vars     == <<targetVars, hostVars>>

-----------------------------------------------------------------------------
(* The calls and their phases. *)

Kinds(api) ==
  CASE api = "legacy" -> {"erase", "program", "read", "partial_erase", "partial_program"}
    [] api = "device" -> {"erase", "program", "read", "partial_erase"}
    [] api = "timed"  -> {"erase", "program", "read"}
    [] api = "driver" -> {"device_init", "reset", "set_feature", "status"}
    [] api = "raw"    -> {"reset"}
    [] api = "start"  -> {"start"}

Calls == {c \in [api  : Apis \cup {"start"},
                 kind : UNION {Kinds(api) : api \in Apis \cup {"start"}},
                 row  : Row,
                 data : Data] : c.kind \in Kinds(c.api)}

LegacyEraseBlock     == <<"enable", "await", "setup", "load", "confirm", "await",
                          "status", "sample", "disable">>
LegacyProgramPage    == <<"enable", "setup", "load", "confirm", "await",
                          "status", "sample", "disable">>
LegacyReadPage       == <<"setup", "load", "confirm", "await", "fetch">>
LegacyPartialErase   == <<"enable", "await", "setup", "load", "confirm", "reset",
                          "await", "await", "status", "sample", "disable">>
LegacyPartialProgram == <<"enable", "setup", "load", "confirm", "reset", "await",
                          "status", "sample", "disable">>

LegacyPhases(kind) ==
  CASE kind = "erase"           -> LegacyEraseBlock
    [] kind = "program"         -> LegacyProgramPage
    [] kind = "read"            -> LegacyReadPage
    [] kind = "partial_erase"   -> LegacyPartialErase
    [] kind = "partial_program" -> LegacyPartialProgram

DeviceEraseBlock   == <<"setup", "load", "confirm", "await", "await", "status", "sample">>
DeviceProgramPage  == <<"setup", "load", "confirm", "await", "await", "status", "sample">>

(* Mutation: read-page asks for the status before it fetches the page. *)
DeviceReadPageStatusFirst == <<"setup", "load", "confirm", "await", "status", "fetch">>

DeviceReadPage     == <<"setup", "load", "confirm", "await", "fetch">>
DevicePartialErase == <<"setup", "load", "confirm", "reset", "await">>

DevicePhases(kind) ==
  CASE kind = "erase"         -> DeviceEraseBlock
    [] kind = "program"       -> DeviceProgramPage
    [] kind = "read"          -> DeviceReadPage
    [] kind = "partial_erase" -> DevicePartialErase

(* Mutation: the erase looks at R/B# after it has sent its command. *)
TimedEraseBlockGuardLast == <<"enable", "setup", "load", "confirm", "guard", "assert",
                              "release", "status", "sample", "disable">>

TimedEraseBlock  == <<"enable", "guard", "setup", "load", "confirm", "assert", "release",
                      "status", "sample", "disable">>
TimedProgramPage == <<"enable", "guard", "setup", "load", "confirm", "assert", "release",
                      "status", "sample", "disable">>
TimedReadPage    == <<"guard", "setup", "load", "confirm", "assert", "release",
                      "fetch", "status", "sample">>

TimedPhases(kind) ==
  CASE kind = "erase"   -> TimedEraseBlock
    [] kind = "program" -> TimedProgramPage
    [] kind = "read"    -> TimedReadPage

GetStarted           == <<"mark_enabled", "pins", "await", "reset", "await",
                          "identify", "await", "identify", "await", "feature", "await">>
DeviceInitialization == <<"pins", "await", "reset", "await">>
ResetDevice          == <<"reset", "await">>
SetFeatures          == <<"feature", "await">>
GetStatus            == <<"status", "sample">>
RawReset             == <<"reset">>

DriverPhases(kind) ==
  CASE kind = "start"       -> GetStarted
    [] kind = "device_init" -> DeviceInitialization
    [] kind = "reset"       -> ResetDevice
    [] kind = "set_feature" -> SetFeatures
    [] kind = "status"      -> GetStatus

Phases(c) ==
  CASE c.api = "legacy" -> LegacyPhases(c.kind)
    [] c.api = "device" -> DevicePhases(c.kind)
    [] c.api = "timed"  -> TimedPhases(c.kind)
    [] c.api = "raw"    -> RawReset
    [] OTHER            -> DriverPhases(c.kind)

(* The job the confirm command of a call starts. *)
JobOf(c) == CASE c.kind = "partial_erase"   -> "erase"
              [] c.kind = "partial_program" -> "program"
              [] OTHER                      -> c.kind

(* The calls that release and protect the array themselves. *)
IsGuarded(c) == c.api \in {"legacy", "timed"} /\ c.kind # "read"

InPhase(phase) ==
  /\ at \in 1 .. Len(Phases(call))
  /\ Phases(call)[at] = phase

Blank == [busy |-> FALSE, late |-> FALSE, ready |-> FALSE, pass |-> FALSE,
          data |-> "none"]

Write(job, row, data) ==
  [job |-> job, row |-> row, data |-> IF job = "erase" THEN "none" ELSE data]

Init ==
  /\ TargetInit
  /\ wp \in {0, 1} /\ enabled = TRUE /\ session = "off"
  /\ call \in {c \in Calls : c.api = "start"}
  /\ at = 0 /\ seen = Blank /\ verdict = "none" /\ applied = {}

-----------------------------------------------------------------------------
(* Starting and ending calls. *)

Invoke ==
  /\ at = 0
  /\ call' \in {c \in Calls : (c.api = "start") <=> (session = "off")}
  /\ at' = 1 /\ seen' = Blank /\ verdict' = "pending" /\ applied' = {}
  /\ UNCHANGED <<targetVars, wp, enabled, session>>

(* OperationTiming::succeeded. *)
TimedSucceeded == seen.busy /\ seen.ready /\ seen.pass /\ ~seen.late

(* What the caller is told: the FAIL-bit test of the command handlers, the *)
(* page a read hands back; the other calls report nothing.                 *)
Report ==
  CASE call.api = "timed" -> IF TimedSucceeded THEN "success" ELSE "failure"
    [] call.api = "device" /\ call.kind \in Writes ->
         IF seen.pass THEN "success" ELSE "failure"
    [] call.api \in {"device", "legacy"} /\ call.kind = "read" -> "success"
    [] OTHER -> "none"

Return ==
  /\ at > Len(Phases(call))
  /\ at' = 0 /\ verdict' = Report
  /\ session' = "on"
  /\ UNCHANGED <<targetVars, wp, enabled, call, seen, applied>>

(* DriverContext::shutdown between two calls, the end of the process or    *)
(* its death anywhere.  No pin is touched: WP# keeps its level.            *)
ProcessEnds ==
  /\ session = "on" \/ at # 0
  /\ session' = "off" /\ at' = 0 /\ verdict' = "none"
  /\ UNCHANGED <<targetVars, wp, enabled, call, seen, applied>>

(* A phase that learns nothing and leaves WP# alone. *)
Proceed ==
  /\ at' = at + 1
  /\ UNCHANGED <<session, call, verdict, applied>>

Drives(targetAction) ==
  /\ targetAction
  /\ Proceed
  /\ UNCHANGED <<wp, enabled, seen>>

-----------------------------------------------------------------------------
(* Session start and WP#. *)

MarkEnabled ==
  /\ InPhase("mark_enabled")
  /\ enabled' = TRUE
  /\ Proceed /\ UNCHANGED <<targetVars, wp, seen>>

(* Mutation: start-up parks WP# at the protecting level. *)
PinsProtect ==
  /\ InPhase("pins")
  /\ wp' = 0
  /\ Proceed /\ UNCHANGED <<targetVars, enabled, seen>>

PinsInactive ==
  /\ InPhase("pins")
  /\ wp' = 1
  /\ Proceed /\ UNCHANGED <<targetVars, enabled, seen>>

(* Mutation: only the early return drives the pin.                         *)
EnableErasePinForgotten ==
  /\ InPhase("enable")
  /\ enabled \/ rb
  /\ wp' = (IF enabled THEN 1 ELSE wp) /\ enabled' = TRUE
  /\ Proceed /\ UNCHANGED <<targetVars, seen>>

EnableErase ==
  /\ InPhase("enable")
  /\ enabled \/ rb
  /\ wp' = 1 /\ enabled' = TRUE
  /\ Proceed /\ UNCHANGED <<targetVars, seen>>

(* Mutation: the pin is driven without waiting for the target. *)
DisableEraseAtOnce ==
  /\ InPhase("disable")
  /\ wp' = 0 /\ enabled' = FALSE
  /\ Proceed /\ UNCHANGED <<targetVars, seen>>

(* Mutation: the flag is not reset, so that the next calls return early.   *)
DisableEraseFlagKept ==
  /\ InPhase("disable")
  /\ enabled => rb
  /\ wp' = 0
  /\ Proceed /\ UNCHANGED <<targetVars, enabled, seen>>

DisableErase ==
  /\ InPhase("disable")
  /\ enabled => rb
  /\ wp' = 0 /\ enabled' = FALSE
  /\ Proceed /\ UNCHANGED <<targetVars, seen>>

-----------------------------------------------------------------------------
(* Bus transactions. *)

SendSetup    == InPhase("setup") /\ Drives(CmdSetup(JobOf(call)))

(* Mutation: the data-input cycles of a program are left out. *)
LoadRowOnly ==
  /\ InPhase("load")
  /\ Drives(LatchRow(call.row))

Load ==
  /\ InPhase("load")
  /\ Drives(IF JobOf(call) = "program" THEN LatchRowAndData(call.row, call.data)
                                       ELSE LatchRow(call.row))

SendConfirm  == InPhase("confirm")  /\ Drives(CmdConfirm(JobOf(call), wp))
(* Mutation: the status byte is read without sending 0x70. *)
SendStatusOmitted == InPhase("status") /\ Drives(UNCHANGED targetVars)

SendStatus   == InPhase("status")   /\ Drives(CmdStatus)
SendReset    == InPhase("reset")    /\ Drives(CmdReset)
SendIdentify == InPhase("identify") /\ Drives(CmdQuery("identify"))
SendFeature  == InPhase("feature")  /\ Drives(CmdQuery("feature"))

(* get_data: asynchronous mode waits for R/B# before RE# moves, toggle     *)
(* mode does not.                                                          *)
MayOutput == Toggle \/ rb

Sample ==
  /\ InPhase("sample") /\ MayOutput
  /\ IF out = "status"
     THEN seen' = [seen EXCEPT !.ready = Idle, !.pass = ~srFail]
     ELSE \E ready, pass \in BOOLEAN :
            seen' = [seen EXCEPT !.ready = ready, !.pass = pass]
  /\ Proceed /\ UNCHANGED <<targetVars, wp, enabled>>

Fetch ==
  /\ InPhase("fetch") /\ MayOutput
  /\ seen' = [seen EXCEPT !.data = IF Idle /\ out = "page" THEN reg ELSE "garbage"]
  /\ Proceed /\ UNCHANGED <<targetVars, wp, enabled>>

-----------------------------------------------------------------------------
(* Waiting on R/B#. *)

(* Mutation: wait_ready_blocking returns at once. *)
AwaitNothing == InPhase("await") /\ Drives(UNCHANGED targetVars)

AwaitReady == InPhase("await") /\ rb /\ Drives(UNCHANGED targetVars)

(* Mutation: a timed function does not look at R/B# before its command. *)
GuardIgnored == InPhase("guard") /\ Drives(UNCHANGED targetVars)

GuardPasses == InPhase("guard") /\ rb /\ Drives(UNCHANGED targetVars)

(* wait_for_ready_high gives up: the exception leaves the timed function   *)
(* with WP# as enable_erase left it.                                       *)
GuardThrows ==
  /\ InPhase("guard") /\ ~rb
  /\ at' = 0 /\ verdict' = "thrown"
  /\ UNCHANGED <<targetVars, wp, enabled, session, call, seen, applied>>

BusySeen ==
  /\ InPhase("assert") /\ ~rb
  /\ seen' = [seen EXCEPT !.busy = TRUE]
  /\ Proceed /\ UNCHANGED <<targetVars, wp, enabled>>

(* The 5 ms of the first loop pass with R/B# high at every look: the pulse *)
(* is over or never came (it cannot still be to come, tWB is far shorter). *)
(* measure_busy_cycle returns without its second loop.                     *)
(* Mutation: the first loop of measure_busy_cycle has no timeout. *)
BusyAwaitedForEver == FALSE

BusyMissed ==
  /\ InPhase("assert") /\ rb /\ Idle
  /\ seen' = [seen EXCEPT !.late = TRUE]
  /\ at' = at + 2
  /\ UNCHANGED <<targetVars, wp, enabled, session, call, verdict, applied>>

ReadySeen == InPhase("release") /\ rb /\ Drives(UNCHANGED targetVars)

(* Mutation: the second loop gives up without setting timed_out. *)
ReadyTimeoutUnmarked ==
  /\ InPhase("release") /\ ~rb
  /\ Proceed /\ UNCHANGED <<targetVars, wp, enabled, seen>>

ReadyTimesOut ==
  /\ InPhase("release") /\ ~rb
  /\ seen' = [seen EXCEPT !.late = TRUE]
  /\ Proceed /\ UNCHANGED <<targetVars, wp, enabled>>

-----------------------------------------------------------------------------

HostStep ==
  \/ MarkEnabled \/ PinsInactive \/ EnableErase \/ DisableErase
  \/ SendSetup \/ Load \/ SendConfirm \/ SendStatus \/ SendReset
  \/ SendIdentify \/ SendFeature \/ Sample \/ Fetch
  \/ AwaitReady \/ GuardPasses \/ GuardThrows
  \/ BusySeen \/ BusyMissed \/ ReadySeen \/ ReadyTimesOut
  \/ Return

TargetFalls == RbFalls /\ UNCHANGED hostVars

TargetCompletes(pass) ==
  /\ Completes(pass)
  /\ applied' = IF pass /\ activity \in Writes
                THEN applied \cup {Write(activity, addr, reg)} ELSE applied
  /\ UNCHANGED <<wp, enabled, session, call, at, seen, verdict>>

TargetStep == TargetFalls \/ \E pass \in BOOLEAN : TargetCompletes(pass)

Next == Invoke \/ ProcessEnds \/ HostStep \/ TargetStep

Spec == Init /\ [][Next]_vars

(* The process is scheduled (SCHED_FIFO, one thread) and the target ends   *)
(* every job it starts; nobody has to start a call.                        *)
FairSpec == Spec /\ WF_vars(HostStep) /\ WF_vars(TargetStep)

(* The same with a target that may stop answering. *)
HostFairSpec == Spec /\ WF_vars(HostStep)

-----------------------------------------------------------------------------
(* Properties. *)

(* Every variable keeps its type.  The pins, erase_enabled_ and the call   *)
(* progress of the driver, together with the target's registers.           *)
TypeOK ==
  /\ TargetTypeOK
  /\ wp \in {0, 1}
  /\ enabled \in BOOLEAN
  /\ session \in {"off", "on"}
  /\ call \in Calls
  /\ at \in 0 .. Len(Phases(call)) + 1
  /\ seen \in [busy : BOOLEAN, late : BOOLEAN, ready : BOOLEAN, pass : BOOLEAN,
               data : Content \cup {"none", "garbage"}]
  /\ verdict \in {"none", "pending", "success", "failure", "thrown"}
  /\ applied \subseteq [job : Writes, row : Row, data : Content \cup {"none"}]

(* A program or erase that is reported as done was done: the target        *)
(* completed that very write, with PASS, during the call.                  *)
SuccessIsReal ==
  verdict = "success" /\ call.kind \in Writes
    => Write(call.kind, call.row, call.data) \in applied

(* A read that is reported as good handed back the page that was asked     *)
(* for, not a status byte, an earlier page or bytes of a busy target.      *)
ReadReturnsThePage ==
  verdict = "success" /\ call.kind = "read" => seen.data = array[call.row]

(* A FAIL reported by erase-block or program-page is the target's word on  *)
(* this write and not a bit left over from an earlier one.                 *)
FailureIsReal ==
  verdict = "failure" /\ call.api = "device" => array[call.row] = "corrupt"

(* No setup, address, data or confirm cycle and no feature or identify     *)
(* sequence ever goes out to a target that is still working: only READ     *)
(* STATUS and RESET may.                                                   *)
CommandsNeedIdleTarget ==
  \A p \in {"setup", "load", "confirm", "identify", "feature"} :
    InPhase(p) => Idle

(* WP# does not move while the target is programming or erasing.           *)
WPStableDuringWrites == [][wp' # wp => activity \notin Writes]_vars

(* Between two calls of a session erase_enabled_ can be trusted: it is     *)
(* TRUE only over a released WP#, so that the early return of enable_erase *)
(* raises no pin and that of disable_erase lowers none that it should have *)
(* waited for.  A guarded write that threw has left the array open, and    *)
(* left the flag that makes the next disable_erase wait; one that returned *)
(* has closed both.                                                        *)
FlagKnowsWP ==
  at = 0 /\ session = "on" =>
    /\ enabled => wp = 1
    /\ IsGuarded(call) => /\ wp = 1 <=> verdict = "thrown"
                          /\ enabled <=> verdict = "thrown"

(* A call that throws can be made again: when wait_for_ready_high gives up *)
(* nothing of the call has reached the cells, and no write is under way    *)
(* that could reach them later, under a WP# that nobody will lower.        *)
ThrowsBeforeItWrites ==
  verdict = "thrown" => applied = {} /\ activity \notin Writes

(* Every call comes to an end. *)
CallsEnd == at # 0 ~> at = 0

-----------------------------------------------------------------------------
(* What the documentation and the comments say and the code does not do.   *)

(* docs/driver_cli.md on erase-block: "Erases a single block and waits for *)
(* completion."                                                            *)
EraseBlockErases ==
  verdict = "success" /\ call.api = "device" /\ call.kind = "erase"
    => \E w \in applied : w.job = "erase" /\ w.row = call.row

(* reset_device: "just wait for ready with a timeout". *)
ResetEnds == (at # 0 /\ call.kind = "reset") ~> at = 0
=============================================================================
