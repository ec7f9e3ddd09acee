---------------------- MODULE OnfiArrayOpsStore_proofs ----------------------
(***************************************************************************)
(* OnfiArrayOps implements FlashStore, for every set of blocks, pages and  *)
(* payloads: the initial states are initial states of the store, and every *)
(* step of a reachable state is a step of the store or leaves it alone.    *)
(***************************************************************************)
EXTENDS OnfiArrayOpsStore, OnfiArrayOps_proofs

LEMMA ConfirmOnce ==
  ASSUME NEW c \in Calls
  PROVE  /\ \A i, j \in 1 .. Len(Phases(c)) :
              Phases(c)[i] = "confirm" /\ Phases(c)[j] = "confirm" => i = j
         /\ JobOf(c) \in Writes => \E i \in 1 .. Len(Phases(c)) : Phases(c)[i] = "confirm"
<1> DEFINE Once(s) ==
             /\ \A i, j \in 1 .. Len(s) : s[i] = "confirm" /\ s[j] = "confirm" => i = j
             /\ \E i \in 1 .. Len(s) : s[i] = "confirm"
<1>1. CASE c.api = "legacy"
  <2>1. c.kind \in {"erase", "program", "read", "partial_erase", "partial_program"}
    BY <1>1, CallTypes DEF Kinds
  <2>2. \A k \in {"erase", "program", "read", "partial_erase", "partial_program"} :
          Once(LegacyPhases(k))
    <3> USE DEF LegacyPhases, LegacyEraseBlock, LegacyProgramPage, LegacyReadPage,
           LegacyPartialErase, LegacyPartialProgram
    <3>1. Once(LegacyPhases("erase"))            OBVIOUS
    <3>2. Once(LegacyPhases("program"))          OBVIOUS
    <3>3. Once(LegacyPhases("read"))             OBVIOUS
    <3>4. Once(LegacyPhases("partial_erase"))    OBVIOUS
    <3>5. Once(LegacyPhases("partial_program"))  OBVIOUS
    <3> HIDE DEF LegacyPhases, Once
    <3> QED BY <3>1, <3>2, <3>3, <3>4, <3>5
  <2> QED BY <1>1, <2>1, <2>2 DEF Phases
<1>2. CASE c.api = "device"
  <2>1. c.kind \in {"erase", "program", "read", "partial_erase"}
    BY <1>2, CallTypes DEF Kinds
  <2>2. \A k \in {"erase", "program", "read", "partial_erase"} : Once(DevicePhases(k))
    <3> USE DEF DevicePhases, DeviceEraseBlock, DeviceProgramPage, DeviceReadPage,
           DevicePartialErase
    <3>1. Once(DevicePhases("erase"))          OBVIOUS
    <3>2. Once(DevicePhases("program"))        OBVIOUS
    <3>3. Once(DevicePhases("read"))           OBVIOUS
    <3>4. Once(DevicePhases("partial_erase"))  OBVIOUS
    <3> HIDE DEF DevicePhases, Once
    <3> QED BY <3>1, <3>2, <3>3, <3>4
  <2> QED BY <1>2, <2>1, <2>2 DEF Phases
<1>3. CASE c.api = "timed"
  <2>1. c.kind \in {"erase", "program", "read"}
    BY <1>3, CallTypes DEF Kinds
  <2>2. \A k \in {"erase", "program", "read"} : Once(TimedPhases(k))
    <3> USE DEF TimedPhases, TimedEraseBlock, TimedProgramPage, TimedReadPage
    <3>1. Once(TimedPhases("erase"))    OBVIOUS
    <3>2. Once(TimedPhases("program"))  OBVIOUS
    <3>3. Once(TimedPhases("read"))     OBVIOUS
    <3> HIDE DEF TimedPhases, Once
    <3> QED BY <3>1, <3>2, <3>3
  <2> QED BY <1>3, <2>1, <2>2 DEF Phases
<1>4. CASE c.api \in {"start", "driver", "raw"}
  <2>1. NoAddress(Phases(c)) /\ JobOf(c) \notin Writes
    <3>1. c.kind \in {"start", "device_init", "reset", "set_feature", "status"}
      BY <1>4, CallTypes DEF Kinds
    <3>2. JobOf(c) \notin Writes \cup {"read"}
      BY <3>1 DEF JobOf, Writes
    <3> QED BY <3>2, PhaseShape DEF Shape
  <2> QED BY <2>1 DEF NoAddress
<1> QED BY <1>1, <1>2, <1>3, <1>4, CallTypes

-----------------------------------------------------------------------------
(* The write a call still has to confirm. *)

LEMMA BeforeConfirmMoves ==
  ASSUME TypeOK
  PROVE  /\ at' = 0 => ~BeforeConfirm'
         /\ at = 0 \/ at > Len(Phases(call)) => ~BeforeConfirm
         /\ InPhase("confirm") => BeforeConfirm
         /\ InPhase("confirm") /\ at' = at + 1 /\ call' = call => ~BeforeConfirm'
         /\ /\ at \in 1 .. Len(Phases(call)) /\ call' = call
            /\ Phases(call)[at] # "confirm"
            /\ \/ at' = at + 1
               \/ at' = at + 2 /\ Phases(call)[at + 1] # "confirm"
            => (BeforeConfirm' <=> BeforeConfirm)
<1> DEFINE s == Phases(call)
<1>0. at \in Nat /\ Len(s) \in Nat /\ \A i, j \in 1 .. Len(s) :
                                        s[i] = "confirm" /\ s[j] = "confirm" => i = j
  BY ConfirmOnce, PhaseShape DEF TypeOK, Shape, Ordered
<1>1. at' = 0 => ~BeforeConfirm'
  BY DEF BeforeConfirm
<1>2. at = 0 \/ at > Len(s) => ~BeforeConfirm
  BY <1>0 DEF BeforeConfirm
<1>3. InPhase("confirm") => BeforeConfirm
  BY <1>0 DEF BeforeConfirm, InPhase
<1>4. InPhase("confirm") /\ at' = at + 1 /\ call' = call => ~BeforeConfirm'
  BY <1>0 DEF BeforeConfirm, InPhase
<1>5. ASSUME at \in 1 .. Len(s), call' = call, s[at] # "confirm",
             at' = at + 1 \/ (at' = at + 2 /\ s[at + 1] # "confirm")
      PROVE  BeforeConfirm' <=> BeforeConfirm
  <2>1. BeforeConfirm <=> \E i \in at .. Len(s) : s[i] = "confirm"
    BY <1>0, <1>5 DEF BeforeConfirm
  <2>2. BeforeConfirm' <=> \E i \in at' .. Len(s) : s[i] = "confirm"
    BY <1>0, <1>5 DEF BeforeConfirm
  <2>3. CASE at' = at + 1
    BY <1>0, <1>5, <2>1, <2>2, <2>3
  <2>4. CASE at' = at + 2 /\ s[at + 1] # "confirm"
    BY <1>0, <1>5, <2>1, <2>2, <2>4
  <2> QED BY <1>5, <2>3, <2>4
<1> QED BY <1>1, <1>2, <1>3, <1>4, <1>5

(* Nothing but a confirm, a reset and the target itself disturbs a write.  *)
LEMMA WriteUndisturbed ==
  ASSUME TypeOK, HostStep, at \in 1 .. Len(Phases(call)),
         Phases(call)[at] \notin {"confirm", "reset"}
  PROVE  /\ UNCHANGED <<array, applied>>
         /\ activity' \in Writes => activity \in Writes
         /\ activity \in Writes => UNCHANGED <<activity, addr, reg>>
<1> USE DEF Writes
<1>1. CASE \/ MarkEnabled \/ PinsInactive \/ EnableErase \/ DisableErase \/ Sample \/ Fetch
           \/ BusySeen \/ BusyMissed \/ ReadyTimesOut \/ GuardThrows \/ Return
  BY <1>1 DEF MarkEnabled, PinsInactive, EnableErase, DisableErase, Sample, Fetch, BusySeen,
     BusyMissed, ReadyTimesOut, GuardThrows, Return, Proceed, targetVars
<1>2. CASE AwaitReady \/ GuardPasses \/ ReadySeen
  BY <1>2 DEF AwaitReady, GuardPasses, ReadySeen, Drives, Proceed, targetVars
<1>3. CASE SendSetup
  BY <1>3 DEF SendSetup, Drives, Proceed, CmdSetup, targetVars, Idle
<1>4. CASE Load
  BY <1>4 DEF Load, Drives, Proceed, LatchRow, LatchRowAndData, targetVars, Idle
<1>5. CASE SendStatus
  BY <1>5 DEF SendStatus, Drives, Proceed, CmdStatus
<1>6. CASE SendIdentify \/ SendFeature
  BY <1>6 DEF SendIdentify, SendFeature, Drives, Proceed, CmdQuery, Begin, targetVars, Idle
<1> QED
  BY <1>1, <1>2, <1>3, <1>4, <1>5, <1>6 DEF HostStep, InPhase, SendConfirm, SendReset

LEMMA AskedKept ==
  ASSUME call' = call
  PROVE  Asked' = Asked
  BY DEF Asked, JobOf, Write

-----------------------------------------------------------------------------
(* The steps that hand a write over, abort it and end it. *)

(* A confirm meets an idle target that was told all about the call.        *)
ReadyToConfirm == InPhase("confirm") =>
  /\ Idle /\ setup = JobOf(call) /\ addr = call.row
  /\ JobOf(call) = "program" => reg = call.data
  /\ JobOf(call) \in Writes => wp = 1

(* What the argument needs of a reachable state. *)
StoreInv ==
  /\ TypeOK /\ OneWriteAtATime /\ ReadyToConfirm
  /\ activity \in Writes /\ at = 0 => session = "off"

LEMMA ConfirmHandsOver ==
  ASSUME StoreInv, SendConfirm
  PROVE  /\ UNCHANGED <<array, call, applied, verdict>> /\ activity \notin Writes
         /\ BeforeConfirm /\ ~BeforeConfirm'
         /\ JobOf(call) \in Writes =>
              activity' \in Writes /\ Asked = {Write(activity', addr', reg')}
         /\ JobOf(call) \notin Writes => activity' \notin Writes
<1>1. InPhase("confirm") /\ CmdConfirm(JobOf(call), wp) /\ Proceed
  BY DEF SendConfirm, Drives
<1>2. Idle /\ activity \notin Writes
  BY <1>1 DEF StoreInv, ReadyToConfirm, Idle, Writes
<1>3. /\ setup = JobOf(call) /\ addr = call.row
      /\ JobOf(call) = "program" => reg = call.data
  BY <1>1 DEF StoreInv, ReadyToConfirm
<1>4. BeforeConfirm /\ ~BeforeConfirm'
  BY <1>1, BeforeConfirmMoves DEF StoreInv, Proceed
<1>5. UNCHANGED <<array, addr, reg, call, applied, verdict>>
  BY <1>1, <1>2, <1>3 DEF CmdConfirm, Proceed
<1>6. CASE JobOf(call) \in Writes
  <2>1. wp = 1
    BY <1>1, <1>6 DEF StoreInv, ReadyToConfirm
  <2>2. activity' = JobOf(call)
    BY <1>1, <1>2, <1>3, <2>1 DEF CmdConfirm, Begin
  <2>3. Write(activity', addr', reg') = Write(JobOf(call), call.row, call.data)
    BY <1>3, <1>5, <1>6, <2>2 DEF Write, Writes
  <2> QED BY <1>2, <1>4, <1>5, <1>6, <2>2, <2>3 DEF Asked
<1>7. CASE JobOf(call) \notin Writes
  BY <1>1, <1>2, <1>3, <1>4, <1>5, <1>7 DEF CmdConfirm, Begin, Writes
<1> QED BY <1>6, <1>7

LEMMA ResetAborts ==
  ASSUME StoreInv, SendReset
  PROVE  /\ array' = Damaged /\ activity' = "reset"
         /\ UNCHANGED <<call, applied, verdict>>
         /\ BeforeConfirm' <=> BeforeConfirm
<1>1. InPhase("reset") /\ CmdReset /\ Proceed
  BY DEF SendReset, Drives
<1>2. BeforeConfirm' <=> BeforeConfirm
  BY <1>1, BeforeConfirmMoves DEF StoreInv, Proceed, InPhase
<1> QED BY <1>1, <1>2 DEF CmdReset, Begin, Proceed

(* Every other phase moves on without touching a write. *)
LEMMA OtherPhases ==
  ASSUME StoreInv, HostStep, ~Return, ~GuardThrows, ~SendConfirm, ~SendReset
  PROVE  /\ UNCHANGED <<array, call, applied, verdict>>
         /\ activity' \in Writes => activity \in Writes
         /\ activity \in Writes => UNCHANGED <<activity, addr, reg>>
         /\ BeforeConfirm' <=> BeforeConfirm
<1> DEFINE s == Phases(call)
<1>0. TypeOK
  BY DEF StoreInv
<1>1. s[at] # "reset" /\ s[at] # "confirm" /\ at \in 1 .. Len(s)
  <2>1. at \in 1 .. Len(s)
    BY <1>0, HostMoves, PhaseAt DEF BusyMissed
  <2>2. ~InPhase("confirm")
    BY <1>0, ActionAt
  <2>3. ~InPhase("reset")
    BY <1>0 DEF HostStep, InPhase, MarkEnabled, PinsInactive, EnableErase, DisableErase,
       SendSetup, Load, SendStatus, SendIdentify, SendFeature, Sample, Fetch, AwaitReady,
       GuardPasses, BusySeen, BusyMissed, ReadySeen, ReadyTimesOut
  <2> QED BY <2>1, <2>2, <2>3 DEF InPhase
<1>2. /\ UNCHANGED <<call, verdict>>
      /\ at' = at + 1 \/ (at' = at + 2 /\ s[at + 1] = "release")
  <2>1. CASE BusyMissed
    BY <1>0, <2>1, PhaseAt, PhaseShape DEF BusyMissed, TypeOK, Shape, Ordered
  <2>2. CASE ~BusyMissed
    BY <1>0, <2>2, HostMoves DEF Proceed
  <2> QED BY <2>1, <2>2
<1>3. BeforeConfirm' <=> BeforeConfirm
  BY <1>0, <1>1, <1>2, BeforeConfirmMoves
<1> QED BY <1>0, <1>1, <1>2, <1>3, WriteUndisturbed

LEMMA CompletionLands ==
  ASSUME StoreInv, NEW pass \in BOOLEAN, TargetCompletes(pass)
  PROVE  /\ activity' = "none" /\ UNCHANGED <<call, verdict>>
         /\ BeforeConfirm' <=> BeforeConfirm
         /\ array' = IF pass THEN Written ELSE Damaged
         /\ activity \notin Writes => pass
         /\ applied' = IF pass /\ activity \in Writes
                       THEN applied \cup {Write(activity, addr, reg)} ELSE applied
  BY DEF TargetCompletes, Completes, BeforeConfirm

LEMMA NextOneWrite == StoreInv /\ [Next]_vars => OneWriteAtATime'
<1> SUFFICES ASSUME StoreInv, [Next]_vars, activity' \in Writes
             PROVE  Asked' = {} \/ (~BeforeConfirm' /\ Asked' = {Write(activity', addr', reg')})
  BY DEF OneWriteAtATime
<1> TypeOK /\ OneWriteAtATime
  BY DEF StoreInv
<1>1. CASE Invoke
  <2>1. activity \in Writes /\ at = 0
    BY <1>1 DEF Invoke, targetVars
  <2>2. call' \in Calls /\ call'.api = "start"
    BY <1>1, <2>1 DEF Invoke, StoreInv
  <2>3. JobOf(call') \notin Writes
    BY <2>2, WriteCallers
  <2> QED BY <2>3 DEF Asked, JobOf
<1>2. CASE ProcessEnds \/ GuardThrows \/ Return
  <2>1. ~BeforeConfirm' /\ call' = call /\ UNCHANGED <<activity, addr, reg>>
    BY <1>2, BeforeConfirmMoves DEF ProcessEnds, GuardThrows, Return, targetVars
  <2> QED BY <2>1, AskedKept DEF OneWriteAtATime, Write
<1>3. CASE SendConfirm
  BY <1>3, ConfirmHandsOver, AskedKept
<1>4. CASE SendReset
  BY <1>4, ResetAborts DEF Writes
<1>5. CASE HostStep /\ ~Return /\ ~GuardThrows /\ ~SendConfirm /\ ~SendReset
  BY <1>5, OtherPhases, AskedKept DEF OneWriteAtATime, Write
<1>6. CASE TargetStep
  <2>1. CASE TargetFalls
    BY <2>1, AskedKept DEF TargetFalls, RbFalls, hostVars, OneWriteAtATime, BeforeConfirm, Write
  <2>2. CASE ~TargetFalls
    BY <1>6, <2>2, CompletionLands DEF TargetStep, Writes
  <2> QED BY <2>1, <2>2
<1>7. CASE UNCHANGED vars
  BY <1>7, AskedKept DEF vars, targetVars, hostVars, OneWriteAtATime, BeforeConfirm, Write
<1> QED BY <1>1, <1>2, <1>3, <1>4, <1>5, <1>6, <1>7 DEF Next

-----------------------------------------------------------------------------
(* Refinement. *)

LEMMA InitRefines == Init => Store!Init
<1> SUFFICES ASSUME Init PROVE Store!Init
  OBVIOUS
<1>1. call \in Calls /\ call.api = "start"
  BY DEF Init
<1>2. Asked = {}
  BY <1>1, WriteCallers DEF Asked
<1> QED BY <1>2 DEF Init, TargetInit, Store!Init, Store!Row, Row, Pending, BeforeConfirm, Writes

(* The pending write reaches the cells as the store says. *)
LEMMA LandsAsPending ==
  ASSUME StoreInv, activity \in Writes
  PROVE  LET w == Write(activity, addr, reg) IN
         /\ Pending = {w}
         /\ Written = Store!Done(w) /\ Damaged = Store!Spoilt(w)
<1> DEFINE w == Write(activity, addr, reg)
<1>1. Pending = {w}
  BY DEF Pending
<1>2. addr \in Row
  BY DEF StoreInv, TypeOK, TargetTypeOK
<1>3. Touched = Store!Cells(w)
  BY <1>2 DEF Touched, Store!Cells, Store!Row, Row, Write, Writes
<1>4. Damaged = Store!Spoilt(w)
  BY <1>3 DEF Damaged, Store!Spoilt, Store!Row, Row
<1>5. Written = Store!Done(w)
  BY <1>3 DEF Written, Store!Done, Store!Row, Row, Write, Writes
<1> QED BY <1>1, <1>4, <1>5

LEMMA UntouchedIsSame ==
  ASSUME StoreInv, activity \notin Writes
  PROVE  Written = array /\ Damaged = array
<1>1. Touched = {} /\ array \in [Row -> Content]
  BY DEF Touched, Writes, StoreInv, Inv, TypeOK, TargetTypeOK
<1> QED BY <1>1 DEF Written, Damaged

LEMMA InvokeAsks ==
  ASSUME StoreInv, TypeOK', Invoke
  PROVE  Store!Ask
<1> DEFINE Took == Asked # {} /\ Asked \subseteq applied
<1>1. /\ at = 0 /\ at' = 1 /\ call' \in Calls /\ verdict' = "pending" /\ applied' = {}
      /\ UNCHANGED <<array, activity, addr, reg>>
      /\ call'.api = "start" <=> session = "off"
  BY DEF Invoke, targetVars
<1>2. Took' = FALSE
  BY <1>1
<1>3. CASE activity \in Writes
  <2>1. call'.api = "start"
    BY <1>1, <1>3 DEF StoreInv
  <2>2. Asked' = {}
    BY <1>1, <2>1, WriteCallers DEF Asked, JobOf
  <2>3. Pending' = Pending
    BY <1>1, <1>3 DEF Pending, Write
  <2> QED BY <1>1, <1>2, <2>2, <2>3 DEF Store!Ask
<1>4. CASE activity \notin Writes
  <2>1. Pending = {}
    BY <1>1, <1>4 DEF Pending, BeforeConfirm
  <2>2. CASE JobOf(call') \notin Writes
    <3>1. Asked' = {} /\ Pending' = {}
      BY <1>1, <1>4, <2>2 DEF Asked, Pending, JobOf
    <3> QED BY <1>1, <1>2, <2>1, <3>1 DEF Store!Ask
  <2>3. CASE JobOf(call') \in Writes
    <3> DEFINE w == Write(JobOf(call'), call'.row, call'.data)
    <3>1. Asked' = {w}
      BY <2>3 DEF Asked, JobOf, Write
    <3>2. BeforeConfirm'
      BY <1>1, <2>3, ConfirmOnce DEF BeforeConfirm
    <3>3. Pending' = {w}
      BY <1>1, <1>4, <3>1, <3>2 DEF Pending
    <3>4. w \in Store!Request
      BY <1>1, <2>3, CallTypes DEF Write, Writes, Store!Request, Store!Row, Row
    <3> QED BY <1>1, <1>2, <2>1, <3>1, <3>3, <3>4 DEF Store!Ask
  <2> QED BY <2>2, <2>3
<1> QED BY <1>3, <1>4

LEMMA EndAnswers ==
  ASSUME StoreInv, SuccessIsReal', Return \/ ProcessEnds \/ GuardThrows
  PROVE  Store!Answer
<1>1. /\ at' = 0 /\ UNCHANGED <<array, activity, addr, reg, call, applied>>
      /\ verdict' \in {"success", "failure", "none", "thrown"}
  BY DEF Return, ProcessEnds, GuardThrows, targetVars, Report
<1>0. TypeOK
  BY DEF StoreInv
<1>2. Asked' = Asked
  BY <1>1, AskedKept
<1>3. Pending' = Pending \/ Pending' = {}
  <2>1. ~BeforeConfirm'
    BY <1>0, <1>1, BeforeConfirmMoves
  <2> QED BY <1>1, <2>1 DEF Pending, Write
<1>4. ASSUME verdict' = "success"
      PROVE  Asked = {} \/ (Asked # {} /\ Asked \subseteq applied)
  <2>1. Return /\ verdict' = Report
    BY <1>4 DEF Return, ProcessEnds, GuardThrows
  <2>2. CASE JobOf(call) \notin Writes
    BY <2>2 DEF Asked
  <2>3. CASE JobOf(call) \in Writes
    <3>1. call.kind \in Writes
      BY <1>4, <2>1, <2>3, WriteCallers, CallTypes DEF Report, StoreInv, TypeOK, Kinds,
         Writes
    <3>2. JobOf(call) = call.kind
      BY <3>1 DEF JobOf, Writes
    <3>3. Write(call.kind, call.row, call.data) \in applied
      BY <1>1, <1>4, <3>1 DEF SuccessIsReal, Write
    <3> QED BY <2>3, <3>2, <3>3 DEF Asked
  <2> QED BY <2>2, <2>3
<1> QED BY <1>1, <1>2, <1>3, <1>4 DEF Store!Answer

(* A step that leaves the array, the call and the write alone.             *)
LEMMA Stutters ==
  ASSUME UNCHANGED <<array, call, applied, verdict>>,
         BeforeConfirm' <=> BeforeConfirm,
         activity \in Writes => UNCHANGED <<activity, addr, reg>>,
         activity' \in Writes => activity \in Writes
  PROVE  UNCHANGED Store!storeVars
<1>1. Asked' = Asked
  BY AskedKept
<1>2. Pending' = Pending
  BY <1>1 DEF Pending, Write
<1> QED BY <1>1, <1>2 DEF Store!storeVars

(* The confirm hands the write from the call to the target.                *)
LEMMA ConfirmStutters ==
  ASSUME StoreInv, SendConfirm
  PROVE  UNCHANGED Store!storeVars
<1>1. Asked' = Asked
  BY ConfirmHandsOver, AskedKept
<1>2. CASE JobOf(call) \in Writes
  <2>1. Pending = Asked /\ Pending' = Asked
    BY <1>2, ConfirmHandsOver DEF Pending, Write
  <2> QED BY <1>1, <2>1, ConfirmHandsOver DEF Store!storeVars
<1>3. CASE JobOf(call) \notin Writes
  <2>1. Pending = {} /\ Pending' = {}
    BY <1>1, <1>3, ConfirmHandsOver DEF Pending, Asked
  <2> QED BY <1>1, <2>1, ConfirmHandsOver DEF Store!storeVars
<1> QED BY <1>2, <1>3

(* A write under way ends, in full or in pieces.                           *)
LEMMA EndApplies ==
  ASSUME StoreInv, activity \in Writes, activity' \notin Writes,
         UNCHANGED <<call, verdict>>, BeforeConfirm' <=> BeforeConfirm,
         \/ array' = Written /\ applied' = applied \cup {Write(activity, addr, reg)}
         \/ array' = Damaged /\ applied' = applied
  PROVE  Store!Apply
<1> DEFINE w    == Write(activity, addr, reg)
           Took == Asked # {} /\ Asked \subseteq applied
<1>1. Asked' = Asked /\ Pending = {w} /\ Written = Store!Done(w) /\ Damaged = Store!Spoilt(w)
  BY AskedKept, LandsAsPending
<1>2. Asked = {} \/ (~BeforeConfirm /\ Asked = {w})
  BY DEF StoreInv, OneWriteAtATime
<1>3. Pending' = {}
  BY <1>1, <1>2 DEF Pending
<1>4. CASE array' = Written /\ applied' = applied \cup {w}
  <2>1. Took' = (Asked = {w})
    BY <1>1, <1>2, <1>4
  <2> QED BY <1>1, <1>3, <1>4, <2>1 DEF Store!Apply
<1>5. CASE array' = Damaged /\ applied' = applied
  <2>1. Took' = Took
    BY <1>1, <1>5
  <2> QED BY <1>1, <1>3, <1>5, <2>1 DEF Store!Apply
<1> QED BY <1>4, <1>5

LEMMA StepRefines ==
  StoreInv /\ SuccessIsReal' /\ [Next]_vars => [Store!Next]_(Store!storeVars)
<1> SUFFICES ASSUME StoreInv, SuccessIsReal', [Next]_vars
             PROVE  Store!Next \/ UNCHANGED Store!storeVars
  OBVIOUS
<1>1. CASE Invoke
  BY <1>1, InvokeAsks, NextTypeOK DEF Store!Next, StoreInv
<1>2. CASE Return \/ ProcessEnds \/ GuardThrows
  BY <1>2, EndAnswers DEF Store!Next
<1>3. CASE SendConfirm
  BY <1>3, ConfirmStutters
<1>4. CASE SendReset
  <2>1. CASE activity \in Writes
    BY <1>4, <2>1, ResetAborts, EndApplies DEF Store!Next, Writes
  <2>2. CASE activity \notin Writes
    <3>1. array' = array
      BY <1>4, <2>2, ResetAborts, UntouchedIsSame
    <3> QED BY <1>4, <2>2, <3>1, ResetAborts, Stutters DEF Writes
  <2> QED BY <2>1, <2>2
<1>5. CASE HostStep /\ ~Return /\ ~GuardThrows /\ ~SendConfirm /\ ~SendReset
  BY <1>5, OtherPhases, Stutters
<1>6. CASE TargetFalls
  BY <1>6, Stutters DEF TargetFalls, RbFalls, hostVars, BeforeConfirm
<1>7. ASSUME NEW pass \in BOOLEAN, TargetCompletes(pass)
      PROVE  Store!Next \/ UNCHANGED Store!storeVars
  <2>1. CASE activity \in Writes
    <3>1. Store!Apply
      BY <1>7, <2>1, CompletionLands, EndApplies DEF Writes
    <3> QED BY <3>1 DEF Store!Next
  <2>2. CASE activity \notin Writes
    <3>1. array' = array /\ applied' = applied /\ activity' \notin Writes
      BY <1>7, <2>2, CompletionLands, UntouchedIsSame DEF Writes
    <3> QED BY <1>7, <2>2, <3>1, CompletionLands, Stutters
  <2> QED BY <2>1, <2>2
<1>8. CASE UNCHANGED vars
  BY <1>8, Stutters DEF vars, targetVars, hostVars, BeforeConfirm
<1> QED BY <1>1, <1>2, <1>3, <1>4, <1>5, <1>6, <1>7, <1>8 DEF Next, TargetStep

-----------------------------------------------------------------------------
(* Both invariants give what the argument needs. *)

LEMMA InvSuffices ==
  ASSUME PlainBus, Unmixed, Inv, OneWriteAtATime
  PROVE  StoreInv
<1>1. ReadyToConfirm
  <2>1. SUFFICES ASSUME InPhase("confirm") PROVE ReadyToConfirm
    BY DEF ReadyToConfirm
  <2>2. Idle
    BY <2>1, IdleAt DEF Inv, MayFindBusy
  <2>3. /\ setup = JobOf(call) /\ addr = call.row
        /\ JobOf(call) = "program" => reg = call.data
    BY <2>1 DEF Inv, Announced
  <2>4. JobOf(call) \in Writes => wp = 1
    BY <2>1, ReleasedAtConfirm DEF Inv
  <2> QED BY <2>2, <2>3, <2>4 DEF ReadyToConfirm
<1>2. activity \in Writes /\ at = 0 => session = "off"
  BY DEF Inv, BusyOnlyWhereExpected, Idle, Writes
<1> QED BY <1>1, <1>2 DEF StoreInv, Inv

LEMMA LateInvSuffices ==
  ASSUME LateBus, LateInv, OneWriteAtATime
  PROVE  StoreInv
<1>1. ReadyToConfirm
  <2> SUFFICES ASSUME InPhase("confirm") PROVE ReadyToConfirm
    BY DEF ReadyToConfirm
  <2>1. LateShape(call) /\ call \in Calls
    BY LatePhases DEF LateInv, TypeOK
  <2>2. TimedWrite(call) \/ TimedRead(call)
    BY <2>1 DEF LateShape, InPhase, Plain
  <2>3. CASE TimedWrite(call)
    <3>1. at = 5
      BY <2>1, <2>3, ConfirmFifth DEF InPhase
    <3>2. JobOf(call) = call.kind
      BY <2>3 DEF TimedWrite, JobOf, Writes
    <3>3. /\ Idle /\ setup = call.kind /\ addr = call.row /\ wp = 1
          /\ call.kind = "program" => reg = call.data
      BY <2>3, <3>1 DEF LateInv, TimedWriteRuns, TimedWrite
    <3> QED BY <3>2, <3>3 DEF ReadyToConfirm
  <2>4. CASE TimedRead(call)
    <3>1. at = 4
      BY <2>1, <2>4, ConfirmFourth DEF InPhase
    <3>2. JobOf(call) = "read"
      BY <2>4 DEF TimedRead, JobOf
    <3>3. Idle /\ setup = "read" /\ addr = call.row
      BY <2>4, <3>1 DEF LateInv, TimedReadRuns, TimedRead
    <3> QED BY <3>2, <3>3 DEF ReadyToConfirm, Writes
  <2> QED BY <2>2, <2>3, <2>4
<1>2. activity \in Writes /\ at = 0 => session = "off"
  BY DEF LateInv, WritesInPlace
<1> QED BY <1>1, <1>2 DEF StoreInv, LateInv

LEMMA InitOneWrite == Init => OneWriteAtATime
  BY DEF Init, TargetInit, OneWriteAtATime, Writes

(* In sessions over a plain bus that do not mix the two styles of write,   *)
(* the driver keeps the store's promise: no write is doubled, torn from    *)
(* its address or invented, whatever interrupts it, and success is only    *)
(* reported for a write that took place.                                   *)
THEOREM KeepsPromise ==
  ASSUME PlainBus, Unmixed
  PROVE  Spec => KeepsStorePromise
<1>1. Inv /\ OneWriteAtATime /\ [Next]_vars => OneWriteAtATime'
  BY InvSuffices, NextOneWrite
<1>2. Inv /\ OneWriteAtATime /\ SuccessIsReal' /\ [Next]_vars
        => [Store!Next]_(Store!storeVars)
  BY InvSuffices, StepRefines
<1> QED BY <1>1, <1>2, InvHolds, SuccessfulWritesTookPlace, InitOneWrite, InitRefines, PTL
        DEF Spec, KeepsStorePromise, Store!Spec

(* The timed functions keep it as well where R/B# falls late, on either    *)
(* interface and beside raw resets: also a write whose window was not      *)
(* measured, which is reported as a failure, takes place at most once and  *)
(* is over before the next write is asked for.                             *)
THEOREM LateKeepsPromise ==
  ASSUME LateBus
  PROVE  Spec => KeepsStorePromise
<1>1. LateInv /\ OneWriteAtATime /\ [Next]_vars => OneWriteAtATime'
  BY LateInvSuffices, NextOneWrite
<1>2. LateInv /\ OneWriteAtATime /\ SuccessIsReal' /\ [Next]_vars
        => [Store!Next]_(Store!storeVars)
  BY LateInvSuffices, StepRefines
<1> QED BY <1>1, <1>2, LateInvHolds, LateSuccessIsReal, InitOneWrite, InitRefines, PTL
        DEF Spec, KeepsStorePromise, Store!Spec
=============================================================================
