-------------------------- MODULE OnfiArrayOpsInv ---------------------------
(***************************************************************************)
(* Why the properties of OnfiArrayOps hold: the order of the phases, which *)
(* is a fact about the source alone, and the invariant that ties the phase *)
(* a call has reached to what the target is doing.                         *)
(***************************************************************************)
EXTENDS OnfiArrayOps

(* Phases of a call during which the target may be at work.  Only a timed  *)
(* function, when its window timed out, asks for status or data then.      *)
MayFindBusy(c) ==
  {"mark_enabled", "pins", "await", "assert", "release", "reset"}
    \cup (IF c.api = "timed" THEN {"fetch", "status", "sample"} ELSE {})

(* Phases after which it may be: they start a job, or do not wait for one. *)
MayLeaveBusy(c) ==
  {"mark_enabled", "pins", "reset", "assert", "release", "confirm", "identify", "feature"}
    \cup (IF c.api = "timed" THEN {"status"} ELSE {})

(* Phases that neither address the array nor abort what works on it.       *)
Harmless == {"await", "assert", "release", "status", "sample", "fetch", "disable"}

(* Phase p comes before position i of a call. *)
Before(c, i, p) == \E j \in 1 .. i - 1 : Phases(c)[j] = p

Passed(p) == Before(call, at, p)

IsWrite(c) == c.kind \in Writes /\ c.api \in {"legacy", "device", "timed"}
IsRead(c)  == c.kind = "read"

-----------------------------------------------------------------------------
(* The sessions the argument is about: a target that lowers R/B# before    *)
(* the host looks, no raw-command, and timed functions on the asynchronous *)
(* interface only, whose get_data waits even after a window timed out.     *)
PlainBus == LateBusy = {} /\ "raw" \notin Apis /\ (Toggle => "timed" \notin Apis)

(* erase-block and program-page do not share a session with functions that *)
(* protect the array when they are done.                                   *)
Unmixed == "device" \notin Apis \/ Apis \cap {"legacy", "timed"} = {}

-----------------------------------------------------------------------------
(* The target is only ever at work between two sessions or in a phase that *)
(* allows for it, and shows it on R/B#.                                    *)
BusyOnlyWhereExpected ==
  ~Idle => /\ ~rb
           /\ \/ at = 0 /\ session = "off"
              \/ at \in 1 .. Len(Phases(call)) /\ Phases(call)[at] \in MayFindBusy(call)

(* Only the start of a session runs outside one, and only a finished call  *)
(* of the session has a verdict.                                           *)
CallsInSession ==
  /\ at # 0 /\ session = "off" => call.api = "start"
  /\ at # 0 => verdict = "pending"
  /\ at = 0 /\ session = "off" => verdict \in {"none", "thrown"}

(* WP# is released from enable_erase to disable_erase, and low after it,   *)
(* and erase_enabled_ says so.                                             *)
GuardHolds ==
  /\ IsGuarded(call) /\ Passed("enable") /\ ~Passed("disable") => wp = 1 /\ enabled
  /\ IsGuarded(call) /\ at > Len(Phases(call)) => wp = 0 /\ ~enabled

(* The target has been told what the call is about. *)
Announced ==
  /\ InPhase("load") => setup = JobOf(call)
  /\ InPhase("confirm") =>
       /\ setup = JobOf(call) /\ addr = call.row
       /\ JobOf(call) = "program" => reg = call.data

(* From the confirm on, the target works on this write or has ended it.    *)
WriteLanded ==
  IsWrite(call) /\ Passed("confirm") =>
    \/ /\ activity = call.kind /\ addr = call.row
       /\ call.kind = "program" => reg = call.data
    \/ /\ Idle
       /\ IF srFail THEN array[call.row] = "corrupt"
                    ELSE Write(call.kind, call.row, call.data) \in applied

ReadLanded ==
  /\ IsRead(call) /\ Passed("confirm") =>
       \/ activity = "read" /\ addr = call.row
       \/ Idle /\ reg = array[call.row]
  /\ IsRead(call) /\ Passed("setup") /\ ~Passed("status") => out = "page"
  /\ IsRead(call) /\ Passed("fetch") => Idle /\ seen.data = array[call.row]

StatusSampled ==
  /\ InPhase("sample") => out = "status"
  /\ IsWrite(call) /\ Passed("sample") => Idle /\ seen.pass = ~srFail

(* Without the guarded functions nothing lowers WP# once a session is on.  *)
WPReleased ==
  /\ activity \in Writes => wp = 1
  /\ Apis \cap {"legacy", "timed"} = {} =>
       /\ session = "on" => wp = 1
       /\ call.api = "start" /\ Passed("pins") => wp = 1

Verdicts == at = 0 => SuccessIsReal /\ ReadReturnsThePage /\ FailureIsReal

(* The inductive invariant: what the driver may rely on about the target   *)
(* at every phase of every call (wait_ready_blocking, enable_erase and     *)
(* get_status keep it), and what follows for the verdicts.                 *)
Inv ==
  /\ TypeOK /\ BusyOnlyWhereExpected /\ CallsInSession /\ GuardHolds
  /\ Announced /\ WPReleased /\ ReadLanded
  /\ Unmixed => WriteLanded /\ StatusSampled /\ Verdicts

-----------------------------------------------------------------------------
(* The sessions of ops_late_busy: timed functions, the calls that manage   *)
(* the session and raw resets, on either interface.  The array operations  *)
(* may lower R/B# late, the others lower it at once.                       *)
LateBus == /\ Apis \cap {"legacy", "device"} = {}
           /\ LateBusy \subseteq Writes \cup {"read"}

(* A target that works behind a high R/B# has been left by a process that  *)
(* ended, and the reset of the next start will find it, or the timed       *)
(* function that gave it the work is waiting for the line to fall.         *)
WorkIsHidden ==
  ~Idle /\ rb =>
    \/ at = 0 /\ session = "off"
    \/ call.api = "start" /\ at # 0 /\ ~Passed("reset")
    \/ InPhase("assert")

(* A write outlives its session only when the process ends under it, and   *)
(* then until the reset of the next start; a timed function that began one *)
(* returns when it is over, whether or not its window was measured.        *)
WritesInPlace ==
  activity \in Writes =>
    \/ at = 0 /\ session = "off"
    \/ call.api = "start" /\ at # 0 /\ ~Passed("reset")
    \/ call.api = "timed" /\ call.kind \in Writes /\ at \in 6 .. 10

(* A timed erase or program, phase by phase: 1 enable, 2 guard, 3 setup,   *)
(* 4 load, 5 confirm, 6 assert, 7 release, 8 status, 9 sample, 10 disable. *)
TimedWriteRuns ==
  call.api = "timed" /\ call.kind \in Writes =>
    /\ at \in 2 .. 10 => enabled /\ wp = 1
    /\ at \in 3 .. 5 => Idle
    /\ at \in 4 .. 5 => setup = call.kind
    /\ at = 5 => addr = call.row /\ (call.kind = "program" => reg = call.data)
    /\ at > 5 => WriteLanded
    /\ at = 9 => out = "status"
    /\ at > 9 /\ seen.ready /\ seen.pass => Idle /\ ~srFail

(* A timed read: 1 guard, 2 setup, 3 load, 4 confirm, 5 assert, 6 release, *)
(* 7 fetch, 8 status, 9 sample.  Only a read whose window was measured has *)
(* waited for its page.                                                    *)
TimedReadRuns ==
  call.api = "timed" /\ call.kind = "read" =>
    /\ at \in 2 .. 4 => Idle
    /\ at \in 3 .. 4 => setup = "read"
    /\ at = 4 => addr = call.row
    /\ at > 4 => (activity = "read" /\ addr = call.row) \/ (Idle /\ reg = array[call.row])
    /\ at \in 3 .. 7 => out = "page"
    /\ at = 7 /\ ~seen.late => Idle
    /\ at > 7 /\ ~seen.late => Idle /\ seen.data = array[call.row]

(* The inductive invariant of these sessions: R/B# may lie about the work  *)
(* under way, the calls that succeed have waited until it no longer does.  *)
LateInv ==
  /\ TypeOK /\ CallsInSession /\ WorkIsHidden /\ WritesInPlace
  /\ activity \in Writes => wp = 1
  /\ TimedWriteRuns /\ TimedReadRuns
  /\ verdict = "success" => Idle /\ SuccessIsReal /\ ReadReturnsThePage
=============================================================================
