----------------------------- MODULE HostProcess_proofs -----------------------------
(* Proofs about the processes of the host: the session of a driver under nested Lua
   calls and errors (DriverSession), and the pins it shares the GPIO library for
   (Gpio), for any number of objects, packages, policies and frames. *)
EXTENDS HostProcess, FiniteSetTheorems, SequenceTheorems, TLAPS

-----------------------------------------------------------------------------
(* The session *)

(* the frames a session can have: a script at the bottom, only with_session opens
   and closes, and under a frame that opened the session every other one had
   lost it *)
FramesOK ==
  /\ \A i \in DOMAIN frames :
       /\ frames[i] \in Frame
       /\ frames[i].started_here => frames[i].kind = "session"
       /\ frames[i].kind = "session" /\ ~frames[i].closed => started
       /\ \A j \in DOMAIN frames :
            i < j /\ frames[j].started_here /\ frames[i].kind = "session" => frames[i].closed
  /\ frames # <<>> => frames[1].kind = "script"

DriverOK ==
  /\ onfi \in {"none", "constructed"} /\ started \in BOOLEAN
  /\ start_type \in Types /\ page \in Types \cup (IF started THEN {} ELSE {"unset"})
  /\ opened_by \in {"with_session", "call"} /\ behind \in BOOLEAN
  /\ (onfi = "constructed") = started
  /\ GeometryAsAsked

ProcOK ==
  /\ chip \in Chips /\ proc \in {"down", "running", "leaving"} /\ raising \in BOOLEAN
  /\ frames \in Seq(Frame) /\ Len(frames) <= MaxFrames
  /\ (proc = "running") = (frames # <<>>)
  /\ proc # "running" => ~raising
  /\ proc = "down" => ~started

SessionInv == DriverOK /\ FramesOK /\ ProcOK /\ NoSessionLeftBehind

-----------------------------------------------------------------------------
(* The library *)

(* while the count is above zero the state to go back to is the state before, and
   at zero nothing is kept *)
SavedOK ==
  /\ refcount = 0 =>
       /\ ~os.mapped /\ ~affinity_pinned /\ ~prev_affinity_valid
       /\ ~spoiled => os.policy = before.policy /\ os.affinity = before.affinity
  /\ refcount > 0 =>
       /\ os.mapped /\ os.policy = "fifo" /\ scheduler_elevated
       /\ prev_policy = before.policy
       /\ prev_affinity_valid => prev_affinity = before.affinity
       /\ affinity_pinned /\ ~prev_affinity_valid => spoiled
       /\ ~affinity_pinned => os.affinity = before.affinity

LibraryOK ==
  /\ refcount \in Nat
  /\ memory_locked \in BOOLEAN /\ scheduler_elevated \in BOOLEAN
  /\ prev_policy \in Policies \cup {"fifo", "error"}
  /\ affinity_pinned \in BOOLEAN /\ prev_affinity_valid \in BOOLEAN
  /\ prev_affinity \in Masks \cup {"pinned", "none"}
  /\ os \in [mapped : BOOLEAN, policy : Policies \cup {"fifo"},
             affinity : Masks \cup {"pinned"}]
  /\ before \in [policy : Policies \cup {"fifo"}, affinity : Masks \cup {"pinned"}]
  /\ spoiled \in BOOLEAN
  /\ SavedOK

HoldersOK ==
  /\ holder \in [G!Holders -> {"absent", "active", "inactive"}]
  /\ refcount = Cardinality(G!Active)

LibraryInv == LibraryOK /\ HoldersOK

(* the two together *)
ProcessOK ==
  /\ process \in {"nandworks", "application", "ended"} /\ starting \in BOOLEAN
  /\ starting => ~started
  /\ process # "nandworks" => proc = "down" /\ ~starting
  /\ process # "application" =>
       /\ \A h \in G!Holders : holder[h] # "inactive"
       /\ refcount = IF starting \/ started THEN 1 ELSE 0
  /\ process = "ended" => refcount = 0

HostInv == SessionInv /\ LibraryInv /\ ProcessOK
-----------------------------------------------------------------------------
(* What a start, a close and a frame do to the invariant of the session *)

LEMMA RequireKeeps ==
  ASSUME DriverOK, chip' = chip, NEW type \in Types, NEW reads \in Types \cup {"none"},
         NEW caller \in {"with_session", "call"}, Require(type, reads, caller)
  PROVE  /\ DriverOK' /\ started' = TRUE
         /\ opened_by' = IF started THEN opened_by ELSE caller
<1> USE DEF Require, DriverOK, Types
<1>1. CASE reads # "none"
  BY <1>1 DEF GeometryAsAsked, TypeAfter
<1>2. CASE reads = "none"
  <2>1. CASE ~started
    BY <1>2, <2>1 DEF GeometryAsAsked, TypeAfter, PageRequired, PageAtStart
  <2>2. CASE started /\ type # start_type
    BY <1>2, <2>2 DEF GeometryAsAsked, TypeAfter, PageRequired
  <2>3. CASE started /\ type = start_type
    BY <1>2, <2>3 DEF GeometryAsAsked, TypeAfter, PageRequired
  <2> QED  BY <2>1, <2>2, <2>3
<1> QED  BY <1>1, <1>2

LEMMA ThrowKeeps ==
  ASSUME DriverOK, RequireThrows
  PROVE  DriverOK' /\ ~started /\ ~started'
BY DEF DriverOK, RequireThrows, GeometryAsAsked

LEMMA ShutDownKeeps ==
  ASSUME DriverOK, ShutDown
  PROVE  DriverOK' /\ ~started'
BY DEF DriverOK, ShutDown, GeometryAsAsked

LEMMA StillKeeps ==
  ASSUME DriverOK, chip' = chip, UNCHANGED driver
  PROVE  DriverOK' /\ started' = started /\ opened_by' = opened_by
BY DEF DriverOK, driver, GeometryAsAsked

(* A command leaves the session as it was or open: no command closes it. *)
LEMMA CommandKeeps ==
  ASSUME DriverOK, chip' = chip, CommandSucceeds \/ CommandFails
  PROVE  /\ DriverOK'
         /\ started => started' /\ opened_by' = opened_by
         /\ started' => started \/ opened_by' = "call"
<1>1. CASE \E type \in Types, refresh \in BOOLEAN : Probe(type, refresh)
  <2>1. PICK type \in Types, refresh \in BOOLEAN : Probe(type, refresh)
    BY <1>1
  <2> QED  BY <2>1, RequireKeeps DEF Probe
<1>2. CASE \E type \in Types : ReadParameters(type)
  BY <1>2, RequireKeeps DEF ReadParameters, Types
<1>3. CASE DeviceCommand \/ Require("ONFI", "none", "call")
  BY <1>3, RequireKeeps DEF DeviceCommand, Types
<1>4. CASE RequireThrows
  BY <1>4, ThrowKeeps
<1>5. CASE UNCHANGED driver
  BY <1>5, StillKeeps
<1> QED  BY <1>1, <1>2, <1>3, <1>4, <1>5 DEF CommandSucceeds, CommandFails

LEMMA FramesSame ==
  ASSUME FramesOK, UNCHANGED frames, started => started'
  PROVE  FramesOK'
BY DEF FramesOK

LEMMA FramesPushed ==
  ASSUME FramesOK, frames \in Seq(Frame), frames # <<>>,
         NEW kind \in {"script", "session", "pcall"}, NEW here \in BOOLEAN,
         frames' = Append(frames, NewFrame(kind, here)),
         here => kind = "session" /\ ~started,
         kind = "session" => started', started => started'
  PROVE  /\ FramesOK' /\ frames' \in Seq(Frame) /\ frames' # <<>>
         /\ Len(frames') = Len(frames) + 1
         /\ \A i \in DOMAIN frames : i \in DOMAIN frames' /\ frames'[i] = frames[i]
         /\ frames'[Len(frames')].started_here = here
<1> DEFINE f == NewFrame(kind, here)  n == Len(frames) + 1
<1>1. f \in Frame /\ f.kind = kind /\ f.started_here = here /\ ~f.closed
  BY DEF NewFrame, Frame
<1>2. /\ DOMAIN frames = 1 .. Len(frames) /\ Len(frames) \in Nat \ {0}
      /\ DOMAIN frames' = 1 .. n /\ Len(frames') = n /\ frames' \in Seq(Frame)
      /\ frames'[n] = f
      /\ \A i \in 1 .. Len(frames) : frames'[i] = frames[i]
  BY <1>1
<1> HIDE DEF f
<1>3. ASSUME NEW i \in DOMAIN frames'
      PROVE  /\ frames'[i] \in Frame
             /\ frames'[i].started_here => frames'[i].kind = "session"
             /\ frames'[i].kind = "session" /\ ~frames'[i].closed => started'
             /\ \A j \in DOMAIN frames' :
                  i < j /\ frames'[j].started_here /\ frames'[i].kind = "session"
                    => frames'[i].closed
  <2>1. CASE i = n
    BY <2>1, <1>1, <1>2
  <2>2. CASE i # n
    <3>1. i \in DOMAIN frames /\ frames'[i] = frames[i]
      BY <2>2, <1>2
    <3>2. ASSUME NEW j \in DOMAIN frames', i < j, frames'[j].started_here,
                 frames'[i].kind = "session"
          PROVE  frames'[i].closed
      <4>1. CASE j = n
        <5>1. ~started  BY <4>1, <3>2, <1>1, <1>2
        <5> QED  BY <5>1, <3>1, <3>2 DEF FramesOK
      <4>2. CASE j # n
        BY <4>2, <3>1, <3>2, <1>2 DEF FramesOK
      <4> QED  BY <4>1, <4>2
    <3> QED  BY <3>1, <3>2 DEF FramesOK
  <2> QED  BY <2>1, <2>2
<1>4. frames'[1].kind = "script"
  BY <1>2 DEF FramesOK
<1> QED  BY <1>1, <1>2, <1>3, <1>4 DEF FramesOK

LEMMA FramesPopped ==
  ASSUME FramesOK, frames \in Seq(Frame), frames # <<>>, frames' = Front(frames),
         started => started' \/ Innermost.started_here
  PROVE  /\ FramesOK' /\ frames' \in Seq(Frame) /\ Len(frames') = Len(frames) - 1
         /\ Innermost = frames[Len(frames)] /\ Len(frames) \in DOMAIN frames
         /\ DOMAIN frames' = DOMAIN frames \ {Len(frames)}
         /\ \A i \in DOMAIN frames' : frames'[i] = frames[i]
         /\ (frames' = <<>>) = (Len(frames) = 1)
<1>1. /\ Len(frames) \in Nat \ {0} /\ DOMAIN frames = 1 .. Len(frames)
      /\ Innermost = frames[Len(frames)]
  BY DEF Innermost, Last
<1>2. /\ frames' \in Seq(Frame) /\ Len(frames') = Len(frames) - 1
      /\ DOMAIN frames' = 1 .. Len(frames) - 1
      /\ \A i \in 1 .. Len(frames) - 1 : frames'[i] = frames[i]
  BY <1>1 DEF Front
<1>3. ASSUME NEW i \in DOMAIN frames', frames'[i].kind = "session", ~frames'[i].closed
      PROVE  started'
  <2>1. i \in DOMAIN frames /\ frames[i] = frames'[i] /\ i < Len(frames)
    BY <1>1, <1>2
  <2>2. started /\ ~Innermost.started_here
    BY <2>1, <1>1, <1>3 DEF FramesOK
  <2> QED  BY <2>2
<1>4. (frames' = <<>>) = (Len(frames) = 1)
  BY <1>1, <1>2
<1>5. FramesOK'
  BY <1>1, <1>2, <1>3, <1>4 DEF FramesOK
<1> QED  BY <1>1, <1>2, <1>4, <1>5
-----------------------------------------------------------------------------
(* Every step of the session keeps its invariant: main, then the calls of a
   script, then the ways out of a frame. *)

LEMMA SessionTypes ==
  ASSUME SessionInv PROVE TypeOK
BY DEF SessionInv, DriverOK, ProcOK, TypeOK

LEMMA SessionStarts ==
  ASSUME Init PROVE SessionInv
<1>1. frames \in Seq(Frame) /\ DOMAIN frames = {} /\ Len(frames) = 0
  BY DEF Init
<1>2. Len(frames) <= MaxFrames
  BY <1>1, SessionAssumption
<1> QED
  BY <1>1, <1>2 DEF Init, SessionInv, DriverOK, FramesOK, ProcOK, Types,
                    NoSessionLeftBehind, GeometryAsAsked

(* main; a command runs where no script does *)
LEMMA MainSteps ==
  ASSUME SessionInv, MainCommand \/ MainScript \/ MainReturns
  PROVE  SessionInv'
<1> USE DEF SessionInv, ProcOK
<1>1. CASE MainCommand
  <2>1. DriverOK' /\ (started => started') /\ (started' => opened_by' = "call")
    BY <1>1, CommandKeeps DEF MainCommand
  <2>2. FramesOK' /\ NoSessionLeftBehind'
    BY <1>1, <2>1, FramesSame DEF MainCommand, NoSessionLeftBehind
  <2> QED  BY <1>1, <2>1, <2>2 DEF MainCommand
<1>2. CASE MainScript
  <2>1. DriverOK' /\ ~started'
    BY <1>2, StillKeeps DEF MainScript
  <2>2. frames = <<>> /\ frames' = <<NewFrame("script", FALSE)>>
    BY <1>2 DEF MainScript
  <2>3. NewFrame("script", FALSE) \in Frame
    BY DEF NewFrame, Frame
  <2>4. /\ frames' \in Seq(Frame) /\ frames' # <<>> /\ Len(frames') = 1
        /\ DOMAIN frames' = {1} /\ frames'[1] = NewFrame("script", FALSE)
    <3> DEFINE f == NewFrame("script", FALSE)
    <3>1. f \in Frame /\ frames' = <<f>>
      BY <2>2, <2>3
    <3> HIDE DEF f
    <3>2. <<f>> \in Seq(Frame) /\ <<f>> # <<>> /\ Len(<<f>>) = 1 /\ <<f>>[1] = f
      BY <3>1
    <3>3. DOMAIN <<f>> = {1}
      BY <3>2
    <3> QED  BY <3>1, <3>2, <3>3 DEF f
  <2>5. MaxFrames >= 1
    BY SessionAssumption
  <2>6. FramesOK'
    BY <2>3, <2>4 DEF FramesOK, NewFrame
  <2> QED  BY <1>2, <2>1, <2>4, <2>5, <2>6 DEF MainScript, NoSessionLeftBehind
<1>3. CASE MainReturns
  <2>1. DriverOK' /\ ~started'
    BY <1>3, ShutDownKeeps DEF MainReturns
  <2>2. frames = <<>> /\ frames' = <<>>
    BY <1>3 DEF MainReturns
  <2>3. FramesOK'
    BY <2>2 DEF FramesOK
  <2> QED  BY <1>3, <2>1, <2>2, <2>3 DEF MainReturns, NoSessionLeftBehind
<1> QED  BY <1>1, <1>2, <1>3

(* a step that opens no frame and leaves none, and closes no session *)
LEMMA CallKeeps ==
  ASSUME SessionInv, InScript, UNCHANGED <<chip, proc, frames>>, raising' \in BOOLEAN,
         DriverOK', started => started' /\ opened_by' = opened_by,
         started' => started \/ opened_by' = "call"
  PROVE  SessionInv'
<1> USE DEF SessionInv, ProcOK, InScript
<1>1. FramesOK'
  BY FramesSame
<1>2. NoSessionLeftBehind'
  BY DEF NoSessionLeftBehind, DriverOK
<1> QED  BY <1>1, <1>2

LEMMA ScriptSteps ==
  ASSUME SessionInv,
         \/ StartSession \/ TimedOrGeometry \/ RunCommand \/ ScriptError
         \/ WithSessionRefused
  PROVE  SessionInv'
<1> USE DEF Raise, Stays
<1>0. DriverOK /\ raising \in BOOLEAN
  BY DEF SessionInv, ProcOK
<1>1. CASE StartSession
  <2> USE DEF StartSession
  <2>1. CASE \E type \in Types : Require(type, "none", "call") /\ UNCHANGED raising
    BY <1>0, <1>1, <2>1, RequireKeeps, CallKeeps
  <2>2. CASE RequireThrows /\ Raise
    BY <1>0, <1>1, <2>2, ThrowKeeps, CallKeeps
  <2> QED  BY <1>1, <2>1, <2>2
<1>2. CASE TimedOrGeometry
  <2> USE DEF TimedOrGeometry
  <2>1. CASE Require("ONFI", "none", "call") /\ raising' \in BOOLEAN
    BY <1>0, <1>2, <2>1, RequireKeeps, CallKeeps DEF Types
  <2>2. CASE RequireThrows /\ Raise
    BY <1>0, <1>2, <2>2, ThrowKeeps, CallKeeps
  <2> QED  BY <1>2, <2>1, <2>2
<1>3. CASE RunCommand
  BY <1>0, <1>3, CommandKeeps, CallKeeps DEF RunCommand
<1>4. CASE ScriptError
  BY <1>0, <1>4, StillKeeps, CallKeeps DEF ScriptError
<1>5. CASE WithSessionRefused
  <2> USE DEF WithSessionRefused
  <2>1. CASE RequireThrows
    BY <1>0, <1>5, <2>1, ThrowKeeps, CallKeeps
  <2>2. CASE /\ ~started /\ onfi' = "none" /\ start_type' \in Types
             /\ UNCHANGED <<started, page, opened_by, behind>>
    <3>1. DriverOK'
      BY <1>0, <1>5, <2>2 DEF DriverOK, GeometryAsAsked
    <3> QED  BY <1>5, <2>2, <3>1, CallKeeps
  <2>3. CASE started /\ \E type \in Types : Require(type, "none", "with_session")
    BY <1>0, <1>5, <2>3, RequireKeeps, CallKeeps
  <2> QED  BY <1>5, <2>1, <2>2, <2>3
<1> QED  BY <1>1, <1>2, <1>3, <1>4, <1>5

(* driver.shutdown closes the session under every frame *)
LEMMA ShutdownStep ==
  ASSUME SessionInv, DriverShutdown
  PROVE  SessionInv'
<1> USE DEF SessionInv, ProcOK, DriverShutdown, InScript
<1>1. DriverOK' /\ ~started'
  BY ShutDownKeeps
<1>2. /\ frames \in Seq(Frame) /\ frames # <<>> /\ Len(frames) \in Nat \ {0}
      /\ DOMAIN frames = 1 .. Len(frames)
  OBVIOUS
<1>3. ASSUME NEW i \in DOMAIN frames
      PROVE  /\ [frames[i] EXCEPT !.closed = TRUE] \in Frame
             /\ [frames[i] EXCEPT !.closed = TRUE].closed
             /\ [frames[i] EXCEPT !.closed = TRUE].kind = frames[i].kind
             /\ [frames[i] EXCEPT !.closed = TRUE].started_here = frames[i].started_here
  <2>1. frames[i] \in Frame
    BY <1>2
  <2> QED  BY <2>1 DEF Frame
<1>4. /\ DOMAIN frames' = 1 .. Len(frames)
      /\ \A i \in 1 .. Len(frames) : /\ frames'[i] \in Frame /\ frames'[i].closed
                                     /\ frames'[i].kind = frames[i].kind
                                     /\ frames'[i].started_here = frames[i].started_here
  BY <1>2, <1>3
<1>5. frames' \in Seq(Frame) /\ Len(frames') = Len(frames) /\ frames' # <<>>
  <2>1. frames' = [i \in 1 .. Len(frames) |-> [frames[i] EXCEPT !.closed = TRUE]]
    BY <1>2
  <2>2. \A i \in 1 .. Len(frames) : [frames[i] EXCEPT !.closed = TRUE] \in Frame
    BY <1>2, <1>3
  <2> QED  BY <1>2, <2>1, <2>2, IsASeq
<1>6. FramesOK'
  BY <1>2, <1>4, <1>5 DEF FramesOK
<1> QED  BY <1>1, <1>5, <1>6 DEF NoSessionLeftBehind

LEMMA PushSteps ==
  ASSUME SessionInv, NestedScript \/ ScriptPcall \/ WithSessionEnters
  PROVE  SessionInv'
<1> USE DEF SessionInv, ProcOK, InScript, HasRoom
<1>1. /\ frames \in Seq(Frame) /\ frames # <<>> /\ proc = "running"
      /\ Len(frames) \in Nat /\ Len(frames) < MaxFrames /\ MaxFrames \in Nat
      /\ chip' = chip /\ proc' = proc /\ raising' = raising
  <2>1. /\ InScript /\ HasRoom
        /\ chip' = chip /\ proc' = proc /\ raising' = raising
    BY DEF NestedScript, ScriptPcall, WithSessionEnters
  <2> QED  BY <2>1, SessionAssumption
<1>2. CASE NestedScript \/ ScriptPcall
  <2>1. PICK kind \in {"script", "pcall"} : frames' = Append(frames, NewFrame(kind, FALSE))
    BY <1>2 DEF NestedScript, ScriptPcall
  <2>2. DriverOK' /\ started' = started /\ opened_by' = opened_by
    BY <1>2, <1>1, StillKeeps DEF NestedScript, ScriptPcall
  <2>3. /\ FramesOK' /\ frames' \in Seq(Frame) /\ frames' # <<>>
        /\ Len(frames') = Len(frames) + 1
        /\ \A i \in DOMAIN frames : i \in DOMAIN frames' /\ frames'[i] = frames[i]
    BY <1>1, <2>1, <2>2, FramesPushed
  <2>4. NoSessionLeftBehind'
    BY <2>2, <2>3 DEF NoSessionLeftBehind
  <2> QED  BY <1>1, <2>2, <2>3, <2>4
<1>3. CASE WithSessionEnters
  <2>1. /\ DriverOK' /\ started'
        /\ opened_by' = IF started THEN opened_by ELSE "with_session"
    BY <1>3, <1>1, RequireKeeps DEF WithSessionEnters
  <2>2. started \in BOOLEAN
    BY DEF DriverOK
  <2>3. frames' = Append(frames, NewFrame("session", ~started))
    BY <1>3 DEF WithSessionEnters, StartedHere
  <2>4. /\ FramesOK' /\ frames' \in Seq(Frame) /\ frames' # <<>>
        /\ Len(frames') = Len(frames) + 1
        /\ \A i \in DOMAIN frames : i \in DOMAIN frames' /\ frames'[i] = frames[i]
        /\ frames'[Len(frames')].started_here = ~started
    BY <1>1, <2>1, <2>2, <2>3, FramesPushed
  <2>5. NoSessionLeftBehind'
    <3>1. CASE started
      BY <3>1, <2>1, <2>4 DEF NoSessionLeftBehind
    <3>2. CASE ~started
      <4>1. Len(frames') \in DOMAIN frames'
        BY <2>4, <1>1
      <4> QED  BY <4>1, <3>2, <2>4 DEF NoSessionLeftBehind
    <3> QED  BY <3>1, <3>2
  <2> QED  BY <1>1, <2>1, <2>4, <2>5
<1> QED  BY <1>2, <1>3

(* Every way out of a frame: the session goes with the frame that opened it, and
   no other frame takes it along. *)
LEMMA PopSteps ==
  ASSUME SessionInv, FrameReturns \/ ErrorUnwinds
  PROVE  SessionInv'
<1> USE DEF SessionInv, ProcOK
<1>1. /\ proc = "running" /\ frames \in Seq(Frame) /\ frames # <<>>
      /\ Len(frames) \in Nat \ {0} /\ Len(frames) \in DOMAIN frames
      /\ Innermost = frames[Len(frames)]
      /\ chip' = chip /\ Pop /\ frames' = Front(frames)
  BY DEF FrameReturns, ErrorUnwinds, InScript, Innermost, Last, Pop
<1>2. DriverOK' /\ CloseIfStartedHere
  <2>1. CASE CloseIfStartedHere
    BY <1>1, <2>1, ShutDownKeeps, StillKeeps DEF CloseIfStartedHere
  <2>2. CASE Innermost.kind # "session" /\ UNCHANGED driver
    <3>1. ~Innermost.started_here
      BY <1>1, <2>2 DEF FramesOK
    <3> QED  BY <1>1, <2>2, <3>1, StillKeeps DEF CloseIfStartedHere
  <2> QED
    BY <2>1, <2>2 DEF FrameReturns, ErrorUnwinds, SessionRethrows, PcallCatches, ScriptFails
<1>3. IF Innermost.started_here THEN ~started'
                                ELSE started' = started /\ opened_by' = opened_by
  BY <1>2, ShutDownKeeps DEF CloseIfStartedHere, driver
<1>4. /\ FramesOK' /\ frames' \in Seq(Frame) /\ Len(frames') = Len(frames) - 1
      /\ DOMAIN frames' = DOMAIN frames \ {Len(frames)}
      /\ \A i \in DOMAIN frames' : frames'[i] = frames[i]
      /\ (frames' = <<>>) = (Len(frames) = 1)
  BY <1>1, <1>3, FramesPopped
<1>5. NoSessionLeftBehind'
  BY <1>1, <1>3, <1>4 DEF NoSessionLeftBehind
<1>6. /\ proc' = IF Len(frames) = 1 THEN "leaving" ELSE "running"
      /\ raising' \in BOOLEAN
      /\ proc' # "running" => ~raising'
  <2>1. CASE FrameReturns
    BY <1>1, <2>1 DEF FrameReturns, InScript, Pop
  <2>2. CASE ErrorUnwinds /\ SessionRethrows
    <3>1. frames[1].kind = "script"
      BY <1>1 DEF FramesOK
    <3>2. Len(frames) # 1
      BY <1>1, <2>2, <3>1 DEF SessionRethrows
    <3> QED  BY <1>1, <2>2, <3>2 DEF SessionRethrows, Pop
  <2>3. CASE ErrorUnwinds /\ (PcallCatches \/ ScriptFails)
    BY <1>1, <2>3 DEF PcallCatches, ScriptFails, Pop
  <2> QED  BY <2>1, <2>2, <2>3 DEF ErrorUnwinds
<1>7. Len(frames') <= MaxFrames
  BY <1>1, <1>4, SessionAssumption
<1> QED  BY <1>1, <1>2, <1>4, <1>5, <1>6, <1>7

LEMMA SessionStep ==
  ASSUME SessionInv, [Next]_vars
  PROVE  SessionInv'
<1>1. CASE UNCHANGED vars
  BY <1>1 DEF vars, driver, SessionInv, DriverOK, FramesOK, ProcOK, NoSessionLeftBehind,
              GeometryAsAsked
<1> QED
  BY <1>1, MainSteps, ScriptSteps, ShutdownStep, PushSteps, PopSteps DEF Next

-----------------------------------------------------------------------------
(* gpio_init and gpio_shutdown: what they do to the count, and that the state to
   go back to is kept. *)

LEMMA HostConstants ==
  /\ IsFiniteSet(Sessions) /\ IsFiniteSet(Interfaces)
  /\ Sessions \cap Interfaces = {}
  /\ "fifo" \notin Policies /\ "error" \notin Policies /\ DefaultPolicy \in Policies
  /\ "pinned" \notin Masks /\ "none" \notin Masks
<1>1. \A S : G!IsFiniteSet(S) <=> IsFiniteSet(S)
  BY DEF G!IsFiniteSet, IsFiniteSet
<1> QED  BY <1>1, HostAssumption DEF HostAssumption, G!GpioAssumption

LEMMA SameCardinality == \A S : G!Cardinality(S) = Cardinality(S)
BY DEF G!Cardinality, Cardinality

LEMMA LibraryTypes ==
  ASSUME LibraryInv PROVE G!TypeOK /\ Balanced
BY SameCardinality DEF LibraryInv, LibraryOK, HoldersOK, G!TypeOK, Balanced, G!Balanced

LEMMA LibraryStill ==
  ASSUME LibraryOK, UNCHANGED <<refcount, G!flags, os, before, spoiled>>
  PROVE  LibraryOK' /\ refcount' = refcount
BY DEF LibraryOK, SavedOK, G!flags

LEMMA InitCounts ==
  ASSUME LibraryOK, G!GpioInitSucceeds
  PROVE  LibraryOK' /\ refcount' = refcount + 1
<1>1. CASE G!AddReference
  BY <1>1 DEF G!AddReference, G!flags, LibraryOK, SavedOK
<1>2. CASE G!TakePins
  <2> USE <1>2 DEF G!TakePins
  <2>1. refcount = 0 /\ refcount' = 1
    OBVIOUS
  <2>2. PICK asked \in BOOLEAN, pinned \in BOOLEAN : G!PinCpu(asked, pinned)
    OBVIOUS
  <2>3. ~affinity_pinned /\ ~prev_affinity_valid
    BY <2>1 DEF LibraryOK, SavedOK
  <2>4. /\ prev_affinity' = IF asked THEN os.affinity ELSE "none"
        /\ prev_affinity_valid' = asked /\ affinity_pinned' = pinned
        /\ os' = [mapped |-> TRUE, policy |-> "fifo",
                  affinity |-> IF pinned THEN "pinned" ELSE os.affinity]
        /\ spoiled' = (spoiled \/ (pinned /\ ~asked))
    BY <2>2, <2>3 DEF G!PinCpu, LibraryOK
  <2>5. /\ memory_locked' \in BOOLEAN /\ scheduler_elevated' = TRUE
        /\ prev_policy' = os.policy
        /\ before' = [policy |-> os.policy, affinity |-> os.affinity]
    BY DEF G!LocksMemory, G!SavePolicy, LibraryOK
  <2>6. os.policy \in Policies \cup {"fifo"} /\ os.affinity \in Masks \cup {"pinned"}
    BY DEF LibraryOK
  <2>7. SavedOK'
    BY <2>1, <2>4, <2>5 DEF SavedOK
  <2> QED  BY <2>1, <2>4, <2>5, <2>6, <2>7 DEF LibraryOK
<1> QED  BY <1>1, <1>2 DEF G!GpioInitSucceeds

LEMMA FailedInitKeeps ==
  ASSUME LibraryOK, G!GpioInitFails
  PROVE  LibraryOK' /\ refcount' = refcount
<1>1. CASE G!MappingFails
  BY <1>1, LibraryStill DEF G!MappingFails
<1>2. CASE G!ElevationFails
  <2>1. prev_policy' \in Policies \cup {"fifo", "error"}
    BY <1>2 DEF G!ElevationFails, LibraryOK
  <2> QED  BY ZenonT(30), <1>2, <2>1 DEF G!ElevationFails, G!LocksMemory, LibraryOK, SavedOK
<1> QED  BY <1>1, <1>2 DEF G!GpioInitFails

(* The last release brings the policy and the CPUs back, unless a call failed. *)
LEMMA ShutdownCounts ==
  ASSUME LibraryOK, G!GpioShutdown
  PROVE  LibraryOK' /\ refcount' = IF refcount = 0 THEN 0 ELSE refcount - 1
<1>1. CASE G!NothingToRelease
  BY <1>1, LibraryStill DEF G!NothingToRelease
<1>2. CASE G!DropReference
  BY <1>2 DEF G!DropReference, G!flags, LibraryOK, SavedOK
<1>3. CASE G!ReleasePins
  <2>1. refcount = 1 /\ refcount' = 0
    BY <1>3 DEF G!ReleasePins
  <2> DEFINE restores_mask == affinity_pinned /\ prev_affinity_valid
  <2>2. scheduler_elevated /\ prev_policy = before.policy /\ prev_policy # "error"
    BY <2>1, HostConstants DEF LibraryOK, SavedOK
  <2>3. PICK policy_ok \in BOOLEAN, mask_ok \in BOOLEAN :
          /\ os' = [mapped |-> FALSE,
                    policy |-> IF policy_ok THEN prev_policy ELSE os.policy,
                    affinity |-> IF restores_mask /\ mask_ok THEN prev_affinity
                                                            ELSE os.affinity]
          /\ spoiled' = (spoiled \/ ~policy_ok \/ (restores_mask /\ ~mask_ok))
    BY <1>3, <2>2 DEF G!ReleasePins
  <2>4. os.policy \in Policies \cup {"fifo"} /\ os.affinity \in Masks \cup {"pinned"}
    BY DEF LibraryOK
  <2>5. before.policy \in Policies \cup {"fifo"} /\ before.affinity \in Masks \cup {"pinned"}
    BY DEF LibraryOK
  <2>6. restores_mask => prev_affinity = before.affinity
    BY <2>1 DEF LibraryOK, SavedOK
  <2>7. ~spoiled /\ ~restores_mask => os.affinity = before.affinity
    BY <2>1 DEF LibraryOK, SavedOK
  <2>8. ~spoiled' => os'.policy = before.policy /\ os'.affinity = before.affinity
    <3>1. SUFFICES ASSUME ~spoiled' PROVE os'.policy = before.policy /\ os'.affinity = before.affinity
      OBVIOUS
    <3>2. ~spoiled /\ policy_ok /\ (restores_mask => mask_ok)
      BY <2>3, <3>1
    <3> QED  BY <2>2, <2>3, <2>6, <2>7, <3>2
  <2>9. /\ os' \in [mapped : BOOLEAN, policy : Policies \cup {"fifo"},
                    affinity : Masks \cup {"pinned"}]
        /\ spoiled' \in BOOLEAN /\ ~os'.mapped
    BY <2>2, <2>3, <2>4, <2>5, <2>6 DEF LibraryOK
  <2>10. /\ memory_locked' = memory_locked /\ prev_affinity' = prev_affinity
         /\ before' = before /\ prev_policy' = DefaultPolicy
         /\ scheduler_elevated' = FALSE /\ affinity_pinned' = FALSE
         /\ prev_affinity_valid' = FALSE
    BY <1>3 DEF G!ReleasePins
  <2>11. SavedOK'
    BY <2>1, <2>8, <2>9, <2>10 DEF SavedOK
  <2>12. DefaultPolicy \in Policies
    BY HostConstants
  <2>13. /\ memory_locked' \in BOOLEAN /\ prev_affinity' \in Masks \cup {"pinned", "none"}
         /\ before' \in [policy : Policies \cup {"fifo"}, affinity : Masks \cup {"pinned"}]
    BY <2>10 DEF LibraryOK
  <2>14. /\ prev_policy' \in Policies \cup {"fifo", "error"}
         /\ scheduler_elevated' \in BOOLEAN /\ affinity_pinned' \in BOOLEAN
         /\ prev_affinity_valid' \in BOOLEAN /\ refcount' \in Nat
    BY <2>1, <2>10, <2>12
  <2>15. LibraryOK'
    BY <2>9, <2>11, <2>13, <2>14, Zenon DEF LibraryOK
  <2> QED  BY <2>1, <2>15
<1> QED  BY <1>1, <1>2, <1>3 DEF G!GpioShutdown

-----------------------------------------------------------------------------
(* The objects: what one construction, move or end does to the number of active
   ones. *)

LEMMA ActiveFinite ==
  /\ IsFiniteSet(G!Holders) /\ IsFiniteSet(G!Active) /\ IsFiniteSet(G!Active')
  /\ Cardinality(G!Active) \in Nat
  /\ Cardinality(G!Active) = 0 <=> G!Active = {}
<1>1. IsFiniteSet(G!Holders)
  BY HostConstants, FS_Union DEF G!Holders
<1>2. G!Active \in SUBSET G!Holders /\ G!Active' \in SUBSET G!Holders
  BY DEF G!Active, G!Holders
<1>3. IsFiniteSet(G!Active) /\ IsFiniteSet(G!Active')
  BY <1>1, <1>2, FS_Subset
<1> QED  BY <1>1, <1>3, FS_EmptySet, FS_CardinalityType

LEMMA OneHolder ==
  ASSUME HoldersOK, NEW h \in G!Holders, NEW v \in {"absent", "active", "inactive"},
         holder' = [holder EXCEPT ![h] = v]
  PROVE  /\ holder' \in [G!Holders -> {"absent", "active", "inactive"}]
         /\ G!Active' = IF v = "active" THEN G!Active \cup {h} ELSE G!Active \ {h}
         /\ Cardinality(G!Active') =
              IF v = "active"
                THEN IF holder[h] = "active" THEN Cardinality(G!Active)
                                             ELSE Cardinality(G!Active) + 1
                ELSE IF holder[h] = "active" THEN Cardinality(G!Active) - 1
                                             ELSE Cardinality(G!Active)
<1>1. holder' \in [G!Holders -> {"absent", "active", "inactive"}]
  BY DEF HoldersOK
<1>2. G!Active' = {g \in G!Holders : holder'[g] = "active"}
  BY DEF G!Active, G!Holders
<1>3. \A g \in G!Holders : holder'[g] = IF g = h THEN v ELSE holder[g]
  BY DEF HoldersOK
<1>4. G!Active' = IF v = "active" THEN G!Active \cup {h} ELSE G!Active \ {h}
  BY <1>2, <1>3 DEF G!Active
<1>5. (h \in G!Active) = (holder[h] = "active")
  BY DEF G!Active
<1>6. CASE v = "active"
  BY <1>1, <1>4, <1>5, <1>6, ActiveFinite, FS_AddElement
<1>7. CASE v # "active"
  BY <1>1, <1>4, <1>5, <1>7, ActiveFinite, FS_RemoveElement
<1> QED  BY <1>6, <1>7

(* two different sessions, one moved into the other *)
LEMMA MovedHolder ==
  ASSUME HoldersOK, NEW s \in Sessions, NEW t \in Sessions, s # t, holder' = G!Moved(s, t)
  PROVE  /\ holder' \in [G!Holders -> {"absent", "active", "inactive"}]
         /\ Cardinality(G!Active') = IF holder[t] = "active" THEN Cardinality(G!Active) - 1
                                                             ELSE Cardinality(G!Active)
<1>1. /\ s \in G!Holders /\ t \in G!Holders
      /\ holder[s] \in {"absent", "active", "inactive"}
      /\ holder[t] \in {"absent", "active", "inactive"}
  BY DEF HoldersOK, G!Holders
<1>2. /\ holder' \in [G!Holders -> {"absent", "active", "inactive"}]
      /\ \A g \in G!Holders : holder'[g] = CASE g = s -> "inactive" [] g = t -> holder[s]
                                             [] OTHER -> holder[g]
  BY <1>1 DEF G!Moved, HoldersOK
<1>3. G!Active' = {g \in G!Holders : holder'[g] = "active"}
  BY DEF G!Active, G!Holders
<1>4. (s \in G!Active) = (holder[s] = "active") /\ (t \in G!Active) = (holder[t] = "active")
  BY <1>1 DEF G!Active
<1>5. CASE holder[s] = "active"
  <2>1. G!Active' = (G!Active \ {s}) \cup {t}
    BY <1>1, <1>2, <1>3, <1>5 DEF G!Active
  <2>2. IsFiniteSet(G!Active \ {s}) /\ Cardinality(G!Active \ {s}) = Cardinality(G!Active) - 1
    BY <1>4, <1>5, ActiveFinite, FS_RemoveElement
  <2>3. Cardinality(G!Active') = IF t \in G!Active \ {s} THEN Cardinality(G!Active) - 1
                                                         ELSE Cardinality(G!Active) - 1 + 1
    BY <2>1, <2>2, FS_AddElement
  <2>4. (t \in G!Active \ {s}) = (holder[t] = "active")
    BY <1>4
  <2> QED  BY <1>2, <2>3, <2>4, ActiveFinite
<1>6. CASE holder[s] # "active"
  <2>1. G!Active' = G!Active \ {t}
    BY <1>1, <1>2, <1>3, <1>4, <1>6 DEF G!Active
  <2> QED  BY <1>2, <1>4, <2>1, ActiveFinite, FS_RemoveElement
<1> QED  BY <1>5, <1>6

LEMMA ConstructKeeps ==
  ASSUME LibraryInv, NEW h \in G!Holders, G!Construct(h)
  PROVE  LibraryInv' /\ refcount' = refcount + 1
<1>1. LibraryOK' /\ refcount' = refcount + 1
  BY InitCounts DEF G!Construct, LibraryInv
<1>2. /\ holder' \in [G!Holders -> {"absent", "active", "inactive"}]
      /\ Cardinality(G!Active') = Cardinality(G!Active) + 1
  BY OneHolder DEF G!Construct, LibraryInv
<1> QED  BY <1>1, <1>2 DEF LibraryInv, HoldersOK

LEMMA HoldersSame ==
  ASSUME HoldersOK, UNCHANGED <<refcount, holder>>
  PROVE  HoldersOK'
BY DEF HoldersOK, G!Active, G!Holders

LEMMA ThrowsKeeps ==
  ASSUME LibraryInv, NEW h \in G!Holders, G!ConstructThrows(h)
  PROVE  LibraryInv' /\ refcount' = refcount
BY FailedInitKeeps, HoldersSame DEF G!ConstructThrows, LibraryInv

LEMMA DestroyKeeps ==
  ASSUME LibraryInv, NEW h \in G!Holders, G!Destroy(h)
  PROVE  LibraryInv' /\ refcount' = IF holder[h] = "active" THEN refcount - 1 ELSE refcount
<1>1. /\ holder' \in [G!Holders -> {"absent", "active", "inactive"}]
      /\ Cardinality(G!Active') = IF holder[h] = "active" THEN Cardinality(G!Active) - 1
                                                          ELSE Cardinality(G!Active)
  BY OneHolder DEF G!Destroy, LibraryInv
<1>2. CASE holder[h] = "active"
  <2>1. h \in G!Active
    BY <1>2 DEF G!Active
  <2>2. refcount # 0
    BY <2>1, ActiveFinite DEF LibraryInv, HoldersOK
  <2>3. LibraryOK' /\ refcount' = refcount - 1
    BY <1>2, <2>2, ShutdownCounts DEF G!Destroy, LibraryInv
  <2> QED  BY <1>1, <1>2, <2>3 DEF LibraryInv, HoldersOK
<1>3. CASE holder[h] # "active"
  <2>1. LibraryOK' /\ refcount' = refcount
    BY <1>3, LibraryStill DEF G!Destroy, LibraryInv
  <2> QED  BY <1>1, <1>3, <2>1 DEF LibraryInv, HoldersOK
<1> QED  BY <1>2, <1>3

(* every step of the objects of an application *)
LEMMA ObjectStepKeeps ==
  ASSUME LibraryInv, G!ObjectStep
  PROVE  LibraryInv'
<1> USE DEF LibraryInv
<1>1. CASE \E h \in G!Holders : G!Construct(h) \/ G!ConstructThrows(h) \/ G!Destroy(h)
  BY <1>1, ConstructKeeps, ThrowsKeeps, DestroyKeeps
<1>2. CASE \E s \in Sessions : G!ConstructInactive(s)
  <2>1. PICK s \in Sessions : G!ConstructInactive(s)
    BY <1>2
  <2>2. LibraryOK' /\ refcount' = refcount
    BY <2>1, FailedInitKeeps DEF G!ConstructInactive
  <2>3. /\ holder' \in [G!Holders -> {"absent", "active", "inactive"}]
        /\ Cardinality(G!Active') = Cardinality(G!Active)
    BY <2>1, OneHolder DEF G!ConstructInactive, G!Holders
  <2> QED  BY <2>2, <2>3 DEF HoldersOK
<1>3. CASE \E s, t \in Sessions : G!MoveConstruct(s, t)
  <2>1. PICK s \in Sessions, t \in Sessions : G!MoveConstruct(s, t)
    BY <1>3
  <2>2. LibraryOK' /\ refcount' = refcount
    BY <2>1, LibraryStill DEF G!MoveConstruct
  <2>3. /\ holder' \in [G!Holders -> {"absent", "active", "inactive"}]
        /\ Cardinality(G!Active') = Cardinality(G!Active)
    BY <2>1, MovedHolder DEF G!MoveConstruct
  <2> QED  BY <2>2, <2>3 DEF HoldersOK
<1>4. CASE \E s, t \in Sessions : G!MoveAssign(s, t)
  <2>1. PICK s \in Sessions, t \in Sessions : G!MoveAssign(s, t)
    BY <1>4
  <2>2. /\ holder' \in [G!Holders -> {"absent", "active", "inactive"}]
        /\ Cardinality(G!Active') = IF holder[t] = "active" THEN Cardinality(G!Active) - 1
                                                            ELSE Cardinality(G!Active)
    BY <2>1, MovedHolder DEF G!MoveAssign
  <2>3. CASE holder[t] = "active"
    <3>1. t \in G!Active
      BY <2>3 DEF G!Active, G!Holders
    <3>2. refcount # 0
      BY <3>1, ActiveFinite DEF HoldersOK
    <3>3. LibraryOK' /\ refcount' = refcount - 1
      BY <2>1, <2>3, <3>2, ShutdownCounts DEF G!MoveAssign
    <3> QED  BY <2>2, <2>3, <3>3 DEF HoldersOK
  <2>4. CASE holder[t] # "active"
    <3>1. LibraryOK' /\ refcount' = refcount
      BY <2>1, <2>4, LibraryStill DEF G!MoveAssign
    <3> QED  BY <2>2, <2>4, <3>1 DEF HoldersOK
  <2> QED  BY <2>3, <2>4
<1>5. CASE G!BenchmarkGpioInit
  <2>1. refcount = 0
    BY <1>5, ActiveFinite DEF G!BenchmarkGpioInit, HoldersOK
  <2>2. LibraryOK' /\ refcount' = refcount
    BY <1>5, <2>1, ShutdownCounts DEF G!BenchmarkGpioInit
  <2> QED  BY <1>5, <2>2, HoldersSame DEF G!BenchmarkGpioInit
<1> QED  BY <1>1, <1>2, <1>3, <1>4, <1>5 DEF G!ObjectStep

LEMMA OutsideKeeps ==
  ASSUME LibraryInv, G!OutsideChange
  PROVE  LibraryInv' /\ refcount' = refcount
<1>1. /\ refcount = 0 /\ refcount' = 0 /\ holder' = holder /\ UNCHANGED G!flags
      /\ before' = [policy |-> os'.policy, affinity |-> os'.affinity] /\ spoiled' = FALSE
  BY DEF G!OutsideChange
<1>2. PICK p \in Policies, m \in Masks : os' = [os EXCEPT !.policy = p, !.affinity = m]
  BY DEF G!OutsideChange
<1>3. /\ os' = [mapped |-> FALSE, policy |-> p, affinity |-> m]
      /\ before' = [policy |-> p, affinity |-> m] /\ spoiled' = FALSE
  BY <1>1, <1>2 DEF LibraryInv, LibraryOK, SavedOK
<1>4. LibraryOK'
  <2>1. /\ os' \in [mapped : BOOLEAN, policy : Policies \cup {"fifo"},
                    affinity : Masks \cup {"pinned"}]
        /\ before' \in [policy : Policies \cup {"fifo"}, affinity : Masks \cup {"pinned"}]
        /\ os'.policy = before'.policy /\ os'.affinity = before'.affinity
        /\ ~os'.mapped /\ spoiled' \in BOOLEAN
    BY <1>3
  <2>2. /\ memory_locked' = memory_locked /\ scheduler_elevated' = scheduler_elevated
        /\ prev_policy' = prev_policy /\ affinity_pinned' = affinity_pinned
        /\ prev_affinity_valid' = prev_affinity_valid /\ prev_affinity' = prev_affinity
    BY <1>1 DEF G!flags
  <2>3. SavedOK'
    BY <1>1, <2>1, <2>2 DEF LibraryInv, LibraryOK, SavedOK
  <2> QED  BY <1>1, <2>1, <2>2, <2>3 DEF LibraryInv, LibraryOK
<1> QED  BY <1>1, <1>4, HoldersSame DEF LibraryInv

LEMMA NoHolderYet ==
  ASSUME holder' = [h \in G!Holders |-> "absent"], refcount' = 0
  PROVE  HoldersOK'
<1>1. G!Active' = {}
  BY DEF G!Active, G!Holders
<1>2. Cardinality(G!Active') = 0
  BY <1>1, FS_EmptySet
<1>3. holder' \in [G!Holders -> {"absent", "active", "inactive"}]
  OBVIOUS
<1> QED  BY <1>2, <1>3 DEF HoldersOK

LEMMA NewProcessStarts ==
  ASSUME G!NewProcess PROVE LibraryInv'
<1>1. PICK p \in Policies, m \in Masks :
        os' = [mapped |-> FALSE, policy |-> p, affinity |-> m]
  BY DEF G!NewProcess
<1>2. before' = [policy |-> p, affinity |-> m] /\ spoiled' = FALSE /\ refcount' = 0
  BY <1>1 DEF G!NewProcess
<1>3. SavedOK'
  BY <1>1, <1>2 DEF G!NewProcess, SavedOK
<1>4. /\ os' \in [mapped : BOOLEAN, policy : Policies \cup {"fifo"},
                  affinity : Masks \cup {"pinned"}]
      /\ before' \in [policy : Policies \cup {"fifo"}, affinity : Masks \cup {"pinned"}]
  BY <1>1, <1>2
<1>5. /\ memory_locked' \in BOOLEAN /\ scheduler_elevated' \in BOOLEAN
      /\ prev_policy' \in Policies \cup {"fifo", "error"}
      /\ affinity_pinned' \in BOOLEAN /\ prev_affinity_valid' \in BOOLEAN
      /\ prev_affinity' \in Masks \cup {"pinned", "none"}
  BY HostConstants DEF G!NewProcess
<1>6. LibraryOK'
  BY <1>2, <1>3, <1>4, <1>5 DEF LibraryOK
<1> QED  BY <1>2, <1>6, NoHolderYet DEF LibraryInv, G!NewProcess

-----------------------------------------------------------------------------
(* The processes *)

LEMMA HostStarts ==
  ASSUME HostInit PROVE HostInv
<1>1. SessionInv
  BY SessionStarts DEF HostInit
<1>2. LibraryInv
  <2> USE DEF HostInit, G!Init
  <2>1. PICK p \in Policies, m \in Masks :
          os = [mapped |-> FALSE, policy |-> p, affinity |-> m]
    OBVIOUS
  <2>2. before = [policy |-> p, affinity |-> m] /\ spoiled = FALSE /\ refcount = 0
    BY <2>1
  <2>3. SavedOK
    BY <2>1, <2>2 DEF SavedOK
  <2>4. /\ os \in [mapped : BOOLEAN, policy : Policies \cup {"fifo"},
                   affinity : Masks \cup {"pinned"}]
        /\ before \in [policy : Policies \cup {"fifo"}, affinity : Masks \cup {"pinned"}]
    BY <2>1, <2>2
  <2>5. /\ memory_locked \in BOOLEAN /\ scheduler_elevated \in BOOLEAN
        /\ prev_policy \in Policies \cup {"fifo", "error"}
        /\ affinity_pinned \in BOOLEAN /\ prev_affinity_valid \in BOOLEAN
        /\ prev_affinity \in Masks \cup {"pinned", "none"}
    BY HostConstants
  <2>6. LibraryOK
    <3> HIDE DEF HostInit, G!Init
    <3> QED  BY <2>2, <2>3, <2>4, <2>5 DEF LibraryOK
  <2>7. G!Active = {} /\ Cardinality(G!Active) = 0
    BY FS_EmptySet DEF G!Active, G!Holders
  <2>8. holder \in [G!Holders -> {"absent", "active", "inactive"}]
    BY DEF G!Holders
  <2> QED  BY <2>2, <2>6, <2>7, <2>8 DEF LibraryInv, HoldersOK
<1>3. ProcessOK
  BY DEF HostInit, Init, G!Init, ProcessOK, G!Holders
<1> QED  BY <1>1, <1>2, <1>3 DEF HostInv

(* what the driver may do to the package, as the session sees it, is a step of it *)
LEMMA HostSteps ==
  ASSUME [HostNext]_hostVars PROVE [Next]_vars
<1>1. MayStart => Next
  BY DEF MayStart, Next
<1>2. Nandworks => Next \/ UNCHANGED vars
  BY <1>1 DEF Nandworks, HalConstructed, HalThrows, GetStartedReturns, GetStartedThrows,
              DriverStep
<1> QED
  BY <1>2 DEF HostNext, Launch, Application, ApplicationEnds, Operator, hostVars

LEMMA StartOutcome ==
  ASSUME SessionInv, MayStart, SessionInv'
  PROVE  started' = (onfi' = "constructed")
BY DEF SessionInv, DriverOK

(* In a process of the tool the one active object is the HAL of the driver. *)
LEMMA OneHal ==
  ASSUME LibraryInv, ProcessOK, process # "application", NEW h \in G!Holders,
         G!Destroy(h)
  PROVE  /\ LibraryInv' /\ refcount' = 0 /\ refcount = 1
         /\ \A g \in G!Holders : holder'[g] # "inactive"
<1>1. holder[h] = "active" /\ \A g \in G!Holders : holder[g] # "inactive"
  BY DEF LibraryInv, HoldersOK, ProcessOK, G!Destroy
<1>2. h \in G!Active
  BY <1>1 DEF G!Active
<1>3. refcount # 0
  BY <1>2, ActiveFinite DEF LibraryInv, HoldersOK
<1>4. refcount = 1
  BY <1>3 DEF ProcessOK
<1>5. LibraryInv' /\ refcount' = 0
  BY <1>1, <1>4, DestroyKeeps
<1>6. \A g \in G!Holders : holder'[g] # "inactive"
  BY <1>1 DEF G!Destroy, LibraryInv, HoldersOK
<1> QED  BY <1>4, <1>5, <1>6

LEMMA HalIsHolder == Interfaces \subseteq G!Holders
BY DEF G!Holders

LEMMA LibrarySame ==
  ASSUME LibraryInv, UNCHANGED library
  PROVE  LibraryInv' /\ refcount' = refcount /\ holder' = holder
BY LibraryStill, HoldersSame DEF LibraryInv, library, G!flags

(* The driver: the pins come with the HAL and go with it. *)
LEMMA DriverSteps ==
  ASSUME HostInv, SessionInv', Nandworks
  PROVE  LibraryInv' /\ ProcessOK'
<1> USE DEF HostInv
<1>0. process = "nandworks" /\ (onfi = "constructed") = started
      /\ started \in BOOLEAN /\ started' \in BOOLEAN
      /\ (onfi' = "constructed") = started' /\ starting \in BOOLEAN
      /\ (proc' = "down" => ~started')
      /\ onfi \in {"none", "constructed"} /\ onfi' \in {"none", "constructed"}
      /\ starting' \in BOOLEAN
  BY DEF Nandworks, SessionInv, DriverOK, ProcessOK, ProcOK, HalConstructed, HalThrows,
         GetStartedReturns, GetStartedThrows, DriverStep
<1>1. CASE HalConstructed
  <2>1. PICK hal \in Interfaces : G!Construct(hal)
    BY <1>1 DEF HalConstructed
  <2>2. LibraryInv' /\ refcount' = refcount + 1
    BY <2>1, HalIsHolder, ConstructKeeps
  <2>3. refcount = 0 /\ starting' = TRUE /\ started' = started /\ ~started
        /\ process' = process /\ proc' = proc
    BY <1>0, <1>1 DEF HalConstructed, ProcessOK, vars, driver
  <2>4. \A g \in G!Holders : holder'[g] # "inactive"
    BY <1>0, <2>1, HalIsHolder DEF G!Construct, LibraryInv, HoldersOK, ProcessOK
  <2> QED  BY <1>0, <2>2, <2>3, <2>4 DEF ProcessOK
<1>2. CASE HalThrows
  <2>1. PICK hal \in Interfaces : G!ConstructThrows(hal)
    BY <1>2 DEF HalThrows
  <2>2. LibraryInv' /\ refcount' = refcount /\ holder' = holder
    BY <2>1, HalIsHolder, ThrowsKeeps DEF G!ConstructThrows
  <2>3. ~starting /\ ~starting' /\ ~started /\ ~started' /\ process' = process
    BY <1>0, <1>2 DEF HalThrows
  <2> QED  BY <1>0, <2>2, <2>3 DEF ProcessOK
<1>3. CASE GetStartedReturns
  <2>1. LibraryInv' /\ refcount' = refcount /\ holder' = holder
    BY <1>3, LibrarySame DEF GetStartedReturns
  <2>2. starting /\ ~starting' /\ ~started /\ started' /\ process' = process
    BY <1>0, <1>3 DEF GetStartedReturns, ProcessOK
  <2> QED  BY <1>0, <2>1, <2>2 DEF ProcessOK
<1>4. CASE GetStartedThrows
  <2>1. LibraryInv' /\ refcount' = 0 /\ \A g \in G!Holders : holder'[g] # "inactive"
    BY <1>0, <1>4, HalIsHolder, OneHal DEF GetStartedThrows, HalDestroyed
  <2>2. ~starting' /\ ~started' /\ process' = process
    BY <1>0, <1>4 DEF GetStartedThrows
  <2> QED  BY <1>0, <2>1, <2>2 DEF ProcessOK
<1>5. CASE DriverStep
  <2>1. ~starting /\ ~starting'
    BY <1>5 DEF DriverStep
  <2>2. process' \in {"nandworks", "ended"} /\ (process' = "ended" => proc' = "down")
    <3>1. CASE proc = "leaving"
      <4>1. MainReturns
        BY <1>5, <3>1 DEF DriverStep, Next, MainCommand, MainScript, StartSession,
           TimedOrGeometry, DriverShutdown, RunCommand, NestedScript, ScriptPcall,
           ScriptError, WithSessionEnters, WithSessionRefused, FrameReturns,
           ErrorUnwinds, InScript
      <4> QED  BY <1>5, <3>1, <4>1 DEF DriverStep, MainReturns
    <3>2. CASE proc # "leaving"
      BY <1>0, <1>5, <3>2 DEF DriverStep
    <3> QED  BY <3>1, <3>2
  <2>3. CASE onfi = "constructed" /\ onfi' = "none"
    <3>1. LibraryInv' /\ refcount' = 0 /\ \A g \in G!Holders : holder'[g] # "inactive"
      BY <1>0, <1>5, <2>3, HalIsHolder, OneHal DEF DriverStep, HalDestroyed
    <3> QED  BY <1>0, <2>1, <2>2, <2>3, <3>1 DEF ProcessOK
  <2>4. CASE ~(onfi = "constructed" /\ onfi' = "none")
    <3>1. LibraryInv' /\ refcount' = refcount /\ holder' = holder
      BY <1>5, <2>4, LibrarySame DEF DriverStep
    <3>2. started' = started
      BY <1>0, <1>5, <2>4 DEF DriverStep
    <3> QED  BY <1>0, <2>1, <2>2, <3>1, <3>2 DEF ProcessOK
  <2> QED  BY <2>3, <2>4
<1> QED  BY <1>1, <1>2, <1>3, <1>4, <1>5 DEF Nandworks

LEMMA HostKeeps ==
  ASSUME HostInv, [HostNext]_hostVars
  PROVE  HostInv'
<1> USE DEF HostInv
<1>1. SessionInv'
  BY HostSteps, SessionStep
<1>2. CASE Launch
  <2>1. LibraryInv' /\ refcount' = 0 /\ \A g \in G!Holders : holder'[g] # "inactive"
    BY <1>2, NewProcessStarts DEF Launch, G!NewProcess
  <2>2. /\ starting' = FALSE /\ ~started' /\ proc' = "down"
        /\ process' \in {"nandworks", "application"}
    BY <1>2 DEF Launch, ProcessOK, SessionInv, ProcOK, vars, driver
  <2> QED  BY <1>1, <2>1, <2>2 DEF ProcessOK
<1>3. CASE Nandworks
  BY <1>1, <1>3, DriverSteps
<1>4. CASE Application
  <2>1. LibraryInv'
    BY <1>4, ObjectStepKeeps DEF Application
  <2> QED  BY <1>1, <1>4, <2>1 DEF Application, ProcessOK, vars, driver
<1>5. CASE ApplicationEnds
  <2>1. LibraryInv' /\ refcount' = refcount /\ holder' = holder
    BY <1>5, LibrarySame DEF ApplicationEnds
  <2>2. G!Active = {}
    BY <1>5 DEF ApplicationEnds, G!Active
  <2>3. refcount = 0
    BY <2>2, ActiveFinite DEF LibraryInv, HoldersOK
  <2>4. /\ process' = "ended" /\ starting' = FALSE /\ ~started' /\ proc' = "down"
        /\ \A h \in G!Holders : holder[h] = "absent"
    BY <1>5 DEF ApplicationEnds, ProcessOK, SessionInv, ProcOK, vars, driver
  <2> QED  BY <1>1, <2>1, <2>3, <2>4 DEF ProcessOK
<1>6. CASE Operator
  <2>1. LibraryInv' /\ refcount' = refcount /\ holder' = holder
    BY <1>6, OutsideKeeps DEF Operator, G!OutsideChange
  <2> QED  BY <1>1, <1>6, <2>1 DEF Operator, ProcessOK, vars, driver
<1>7. CASE UNCHANGED hostVars
  <2>1. LibraryInv' /\ refcount' = refcount /\ holder' = holder
    BY <1>7, LibrarySame DEF hostVars
  <2> QED  BY <1>1, <1>7, <2>1 DEF hostVars, ProcessOK, vars, driver
<1> QED  BY <1>2, <1>3, <1>4, <1>5, <1>6, <1>7 DEF HostNext

LEMMA HostInvHolds == HostSpec => []HostInv
<1>1. HostInit => HostInv
  BY HostStarts
<1>2. HostInv /\ [HostNext]_hostVars => HostInv'
  BY HostKeeps
<1> QED  BY <1>1, <1>2, PTL DEF HostSpec

(* what the invariant says of the pins *)
LEMMA PinsHeld ==
  ASSUME HostInv, refcount > 0
  PROVE  os.mapped /\ os.policy = "fifo" /\ scheduler_elevated
BY DEF HostInv, LibraryInv, LibraryOK, SavedOK

-----------------------------------------------------------------------------
(* The theorems *)

(* Each process of the tool runs a session as DriverSession describes it: taking
   the pins, a start in two steps and a HAL that throws add no behaviour to it. *)
THEOREM HostRunsSessions == HostSpec => Spec
<1>1. HostInit => Init
  BY DEF HostInit
<1>2. [HostNext]_hostVars => [Next]_vars
  BY HostSteps
<1> QED  BY <1>1, <1>2, PTL DEF HostSpec, Spec

(* HostTypeOK: the session and the library keep to their types, and the tool holds
   the pins exactly while its driver has a HAL or is making one (require_onfi,
   require_onfi_started, shutdown). *)
THEOREM HostKeepsTypes == HostSpec => []HostTypeOK
<1>1. ASSUME HostInv PROVE HostTypeOK
  <2>1. TypeOK /\ G!TypeOK
    BY <1>1, SessionTypes, LibraryTypes DEF HostInv
  <2>2. ProcessOK /\ (onfi = "constructed") = started /\ started \in BOOLEAN
        /\ onfi \in {"none", "constructed"} /\ (proc = "down" => ~started)
    BY <1>1 DEF HostInv, SessionInv, DriverOK, ProcOK
  <2>3. process # "application" =>
          refcount = IF starting \/ onfi = "constructed" THEN 1 ELSE 0
    BY <2>2 DEF ProcessOK
  <2>4. process = "ended" => refcount = 0 /\ onfi = "none" /\ ~started
    BY <2>2 DEF ProcessOK
  <2> QED  BY <2>1, <2>2, <2>3, <2>4 DEF HostTypeOK, ProcessOK
<1> QED  BY <1>1, HostInvHolds, PTL

(* Balanced: the reference count of gpio.cpp is the number of objects that believe
   they hold the pins, whatever was moved, assigned or failed to construct. *)
THEOREM CountIsBalanced == HostSpec => []Balanced
<1>1. HostInv => Balanced
  BY LibraryTypes DEF HostInv
<1> QED  BY <1>1, HostInvHolds, PTL

(* HoldersHavePins: while any object holds the pins they are mapped and the process
   is real-time; no other object's end, and no failed attempt, takes that away. *)
THEOREM PinsStayWithHolders == HostSpec => []HoldersHavePins
<1>1. ASSUME HostInv, G!Active # {} PROVE refcount > 0
  BY <1>1, ActiveFinite DEF HostInv, LibraryInv, HoldersOK
<1>2. HostInv => HoldersHavePins
  BY <1>1, PinsHeld DEF HoldersHavePins, G!HoldersHavePins
<1> QED  BY <1>2, HostInvHolds, PTL

(* LastOneRestores: once nobody holds the pins they are unmapped, and the policy and
   the CPUs are those of before unless a system call refused (gpio_shutdown). *)
THEOREM LastReleaseRestores == HostSpec => []LastOneRestores
<1>1. ASSUME HostInv, G!Active = {} PROVE refcount = 0
  BY <1>1, ActiveFinite DEF HostInv, LibraryInv, HoldersOK
<1>2. HostInv => LastOneRestores
  BY <1>1 DEF HostInv, LibraryInv, LibraryOK, SavedOK, LastOneRestores, G!LastOneRestores
<1> QED  BY <1>2, HostInvHolds, PTL

(* SessionInsideCallback: inside the callback of with_session the package is started
   and the pins are held, however deep the calls nest, unless code inside shut the
   driver down itself. *)
THEOREM CallbackHasSession == HostSpec => []SessionInsideCallback
<1>1. ASSUME HostInv, NEW i \in DOMAIN frames, frames[i].kind = "session", ~frames[i].closed
      PROVE  started /\ os.mapped /\ os.policy = "fifo"
  <2>1. started
    BY <1>1 DEF HostInv, SessionInv, FramesOK
  <2>2. refcount = 1
    <3>1. proc = "running"
      BY <1>1 DEF HostInv, SessionInv, ProcOK
    <3>2. process # "application"
      BY <1>1, <3>1 DEF HostInv, ProcessOK
    <3> QED  BY <1>1, <2>1, <3>2 DEF HostInv, ProcessOK
  <2> QED  BY <1>1, <2>1, <2>2, PinsHeld
<1>2. HostInv => SessionInsideCallback
  BY <1>1 DEF SessionInsideCallback
<1> QED  BY <1>2, HostInvHolds, PTL

(* NoSessionLeftBehind: a session that with_session opened does not outlive the call
   that opened it, on any way out of its callback. *)
THEOREM SessionsAreClosed == HostSpec => []NoSessionLeftBehind
<1>1. HostInv => NoSessionLeftBehind
  BY DEF HostInv, SessionInv
<1> QED  BY <1>1, HostInvHolds, PTL

(* GeometryAsAsked: the geometry of a session is that of the page it was started or
   re-read for, except where a command reads behind its back and on a toggle part. *)
THEOREM GeometryFollowsPage == HostSpec => []GeometryAsAsked
<1>1. HostInv => GeometryAsAsked
  BY DEF HostInv, SessionInv, DriverOK
<1> QED  BY <1>1, HostInvHolds, PTL

=============================================================================
