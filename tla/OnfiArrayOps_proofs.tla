------------------------ MODULE OnfiArrayOps_proofs -------------------------
(***************************************************************************)
(* Proofs about OnfiArrayOps, for every set of blocks, pages and payloads. *)
(*                                                                         *)
(* First the order of the phases (Shape), a fact about the tuples that     *)
(* stand for the source; then type correctness; then the invariant Inv of  *)
(* OnfiArrayOpsInv, one lemma per conjunct, and its theorems.  The last    *)
(* part does the same for LateInv and a late R/B#.                         *)
(***************************************************************************)
EXTENDS OnfiArrayOpsInv, TLAPS

-----------------------------------------------------------------------------
(* The order of the phases. *)

Ordered(s) ==
  /\ Len(s) \in Nat \ {0}
  /\ \A i \in 1 .. Len(s) :
       /\ s[i] = "assert" => i + 2 <= Len(s) /\ s[i + 1] = "release"
       /\ s[i] = "load" => i > 1 /\ s[i - 1] = "setup"
       /\ s[i] = "confirm" => i > 1 /\ s[i - 1] = "load"
       /\ s[i] = "sample" => i > 1 /\ s[i - 1] = "status"

LeavesBusyWell(c) ==
  LET s == Phases(c) IN
  \A i \in 1 .. Len(s) :
    s[i] \in MayLeaveBusy(c) => i + 1 <= Len(s) /\ s[i + 1] \in MayFindBusy(c)

Guarded(s) ==
  /\ s[1] = "enable" /\ s[Len(s)] = "disable"
  /\ \A i \in 1 .. Len(s) : /\ s[i] = "disable" => i = Len(s)
                            /\ s[i] # "pins"

Unguarded(s) == \A i \in 1 .. Len(s) : s[i] \notin {"enable", "disable"}

Confirmed(s) ==
  /\ \E i \in 1 .. Len(s) : s[i] = "confirm"
  /\ \A i, j \in 1 .. Len(s) : s[i] = "confirm" /\ i < j => s[j] \in Harmless

Sampled(s) ==
  /\ \A i, j \in 1 .. Len(s) : s[i] = "sample" /\ i < j => s[j] = "disable"
  /\ \E i \in 1 .. Len(s) : s[i] = "sample"

Fetched(s) ==
  /\ \E i \in 1 .. Len(s) : s[i] = "fetch"
  /\ \A i \in 1 .. Len(s) : s[i] \notin {"reset", "identify", "feature"}
  /\ \A i, j \in 1 .. Len(s) :
       /\ s[i] = "fetch" /\ i < j => s[j] \in {"status", "sample"}
       /\ s[i] = "status" /\ i < j => s[j] # "fetch"
       /\ s[i] \in {"setup", "confirm"} /\ s[j] = "fetch" => i < j

NoAddress(s) == \A i \in 1 .. Len(s) : s[i] \notin {"setup", "load", "confirm"}

Shape(c) ==
  /\ Ordered(Phases(c))
  /\ c.api # "raw" => LeavesBusyWell(c)
  /\ IsGuarded(c) => Guarded(Phases(c))
  /\ c.api \notin {"legacy", "timed"} => Unguarded(Phases(c))
  /\ IsWrite(c) => Confirmed(Phases(c)) /\ Sampled(Phases(c))
  /\ IsRead(c) => Confirmed(Phases(c)) /\ Fetched(Phases(c))
  /\ JobOf(c) \in Writes \cup {"read"} \/ NoAddress(Phases(c))
  /\ c.api = "start" =>
       /\ Phases(c)[1] = "mark_enabled"
       /\ \E i \in 1 .. Len(Phases(c)) : Phases(c)[i] = "pins"

LEMMA CallTypes ==
  ASSUME NEW c \in Calls
  PROVE  /\ c.api \in Apis \cup {"start"}
         /\ c.api \in {"start", "legacy", "device", "timed", "driver", "raw"}
         /\ c.kind \in Kinds(c.api)
         /\ c.row \in Row /\ c.data \in Data
  BY HostAssumption DEF Calls

LEMMA ReadShape ==
  ASSUME NEW c \in Calls, c.kind = "read"
  PROVE  Shape(c)
<1>1. c.api \in {"legacy", "device", "timed"}
  BY CallTypes DEF Kinds
<1> USE <1>1 DEF Phases, LegacyPhases, DevicePhases, TimedPhases,
            LegacyReadPage, DeviceReadPage, TimedReadPage
<1>2. Fetched(Phases(c))
  <2>1. CASE c.api = "legacy"  BY <2>1, SMTT(30) DEF Fetched
  <2>2. CASE c.api = "device"  BY <2>2, SMTT(30) DEF Fetched
  <2>3. CASE c.api = "timed"   BY <2>3, SMTT(30) DEF Fetched
  <2> HIDE DEF Phases
  <2> QED BY <2>1, <2>2, <2>3
<1>3. Confirmed(Phases(c))       BY DEF Confirmed, Harmless
<1>4. Ordered(Phases(c))         BY SMTT(30) DEF Ordered
<1>5. LeavesBusyWell(c)  BY DEF LeavesBusyWell, MayLeaveBusy, MayFindBusy
<1>6. c.api = "device" => Unguarded(Phases(c))  BY DEF Unguarded
<1>9. JobOf(c) \in Writes \cup {"read"}  BY DEF JobOf, Writes
<1> HIDE DEF Phases
<1> QED BY <1>9, <1>2, <1>3, <1>4, <1>5, <1>6 DEF Shape, IsRead, IsWrite, IsGuarded, Writes

LEMMA LegacyShape ==
  ASSUME NEW c \in Calls, c.api = "legacy", c.kind # "read"
  PROVE  Shape(c)
<1>1. c.kind \in {"erase", "program", "partial_erase", "partial_program"}
  BY CallTypes DEF Kinds
<1> USE <1>1 DEF Phases, LegacyPhases, LegacyEraseBlock, LegacyProgramPage,
            LegacyPartialErase, LegacyPartialProgram
<1>2. Ordered(Phases(c))
  <2>1. CASE c.kind = "erase"            BY <2>1 DEF Ordered
  <2>2. CASE c.kind = "program"          BY <2>2 DEF Ordered
  <2>3. CASE c.kind = "partial_erase"    BY <2>3, SMTT(30) DEF Ordered
  <2>4. CASE c.kind = "partial_program"  BY <2>4, SMTT(30) DEF Ordered
  <2> HIDE DEF Phases
  <2> QED BY <1>1, <2>1, <2>2, <2>3, <2>4
<1>3. LeavesBusyWell(c)  BY SMTT(30) DEF LeavesBusyWell, MayLeaveBusy, MayFindBusy
<1>4. Guarded(Phases(c))          BY DEF Guarded
<1>5. IsWrite(c) => Confirmed(Phases(c))  BY DEF IsWrite, Writes, Confirmed, Harmless
<1>6. IsWrite(c) => Sampled(Phases(c))
  <2>1. CASE c.kind = "erase"    BY <2>1 DEF Sampled
  <2>2. CASE c.kind = "program"  BY <2>2 DEF Sampled
  <2> HIDE DEF Phases
  <2> QED BY <2>1, <2>2 DEF IsWrite, Writes
<1>9. JobOf(c) \in Writes \cup {"read"}  BY DEF JobOf, Writes
<1> HIDE DEF Phases
<1> QED BY <1>9, <1>2, <1>3, <1>4, <1>5, <1>6 DEF Shape, IsRead, IsWrite, IsGuarded

LEMMA DeviceShape ==
  ASSUME NEW c \in Calls, c.api = "device", c.kind # "read"
  PROVE  Shape(c)
<1>1. c.kind \in {"erase", "program", "partial_erase"}
  BY CallTypes DEF Kinds
<1> USE <1>1 DEF Phases, DevicePhases, DeviceEraseBlock, DeviceProgramPage,
            DevicePartialErase, Writes
<1>2. Ordered(Phases(c))         BY DEF Ordered
<1>3. LeavesBusyWell(c)  BY DEF LeavesBusyWell, MayLeaveBusy, MayFindBusy
<1>4. Unguarded(Phases(c))        BY DEF Unguarded
<1>5. IsWrite(c) => Confirmed(Phases(c))  BY DEF IsWrite, Writes, Confirmed, Harmless
<1>6. IsWrite(c) => Sampled(Phases(c))    BY DEF IsWrite, Writes, Sampled
<1>9. JobOf(c) \in Writes \cup {"read"}  BY DEF JobOf, Writes
<1> HIDE DEF Phases
<1> QED BY <1>9, <1>2, <1>3, <1>4, <1>5, <1>6 DEF Shape, IsRead, IsWrite, IsGuarded

LEMMA TimedShape ==
  ASSUME NEW c \in Calls, c.api = "timed", c.kind # "read"
  PROVE  Shape(c)
<1>1. c.kind \in {"erase", "program"}
  BY CallTypes DEF Kinds
<1> USE <1>1 DEF Phases, TimedPhases, TimedEraseBlock, TimedProgramPage, Writes
<1>2. Ordered(Phases(c))         BY DEF Ordered
<1>3. LeavesBusyWell(c)  BY DEF LeavesBusyWell, MayLeaveBusy, MayFindBusy
<1>4. Guarded(Phases(c))          BY DEF Guarded
<1>5. IsWrite(c) => Confirmed(Phases(c))  BY DEF IsWrite, Writes, Confirmed, Harmless
<1>6. IsWrite(c) => Sampled(Phases(c))    BY DEF IsWrite, Writes, Sampled
<1>9. JobOf(c) \in Writes \cup {"read"}  BY DEF JobOf, Writes
<1> HIDE DEF Phases
<1> QED BY <1>9, <1>2, <1>3, <1>4, <1>5, <1>6 DEF Shape, IsRead, IsWrite, IsGuarded

LEMMA DriverShape ==
  ASSUME NEW c \in Calls, c.api = "driver", c.kind # "read"
  PROVE  Shape(c)
<1>1. c.kind \in {"device_init", "reset", "set_feature", "status"}
  BY CallTypes DEF Kinds
<1> USE <1>1 DEF Phases, DriverPhases, DeviceInitialization, ResetDevice, SetFeatures, GetStatus
<1>2. Ordered(Phases(c))         BY DEF Ordered
<1>3. LeavesBusyWell(c)  BY DEF LeavesBusyWell, MayLeaveBusy, MayFindBusy
<1>4. Unguarded(Phases(c))        BY DEF Unguarded
<1>9. NoAddress(Phases(c))        BY DEF NoAddress
<1> HIDE DEF Phases
<1> QED BY <1>9, <1>2, <1>3, <1>4 DEF Shape, IsRead, IsWrite, IsGuarded

LEMMA StartShape ==
  ASSUME NEW c \in Calls, c.api = "start", c.kind # "read"
  PROVE  Shape(c)
<1>1. c.kind \in {"start"}
  BY CallTypes DEF Kinds
<1> USE <1>1 DEF Phases, DriverPhases, GetStarted
<1>2. Ordered(Phases(c))         BY SMTT(30) DEF Ordered
<1>3. LeavesBusyWell(c)  BY DEF LeavesBusyWell, MayLeaveBusy, MayFindBusy
<1>4. Unguarded(Phases(c))        BY DEF Unguarded
<1>5. /\ Phases(c)[1] = "mark_enabled"
      /\ \E i \in 1 .. Len(Phases(c)) : Phases(c)[i] = "pins"
  <2> Phases(c)[1] = "mark_enabled" /\ Len(Phases(c)) = 11 /\ Phases(c)[2] = "pins"
    OBVIOUS
  <2> HIDE DEF Phases
  <2> QED OBVIOUS
<1>9. NoAddress(Phases(c))        BY DEF NoAddress
<1> HIDE DEF Phases
<1> QED BY <1>9, <1>2, <1>3, <1>4, <1>5 DEF Shape, IsRead, IsWrite, IsGuarded

LEMMA RawShape ==
  ASSUME NEW c \in Calls, c.api = "raw", c.kind # "read"
  PROVE  Shape(c)
  BY DEF Shape, Phases, RawReset, Ordered, Unguarded, NoAddress, IsRead, IsWrite, IsGuarded

LEMMA PhaseShape ==
  ASSUME NEW c \in Calls
  PROVE  Shape(c)
  BY CallTypes, ReadShape, LegacyShape, DeviceShape, TimedShape,
     DriverShape, StartShape, RawShape

LEMMA BeforeNext ==
  ASSUME NEW c, NEW i \in Nat \ {0}, NEW p
  PROVE  /\ Before(c, i + 1, p) <=> Before(c, i, p) \/ Phases(c)[i] = p
         /\ ~Before(c, 0, p) /\ ~Before(c, 1, p)
  BY DEF Before

-----------------------------------------------------------------------------
(* Type correctness. *)

LEMMA RowTypes ==
  ASSUME TypeOK
  PROVE  /\ call.row \in Row /\ call.data \in Content
         /\ Touched \subseteq Row
         /\ Damaged \in [Row -> Content] /\ Written \in [Row -> Content]
<1>1. call.row \in Row /\ call.data \in Content
  BY CallTypes DEF TypeOK, Content
<1>2. Touched \subseteq Row
  BY DEF TypeOK, TargetTypeOK, Touched, Writes, Jobs
<1>3. Damaged \in [Row -> Content]
  BY DEF TypeOK, TargetTypeOK, Damaged, Content
<1>4. Written \in [Row -> Content]
  BY DEF TypeOK, TargetTypeOK, Written, Content
<1> QED BY <1>1, <1>2, <1>3, <1>4

LEMMA InitTypeOK == Init => TypeOK
<1> SUFFICES ASSUME Init PROVE TypeOK
  OBVIOUS
<1>1. TargetTypeOK
  BY DEF Init, TargetInit, TargetTypeOK, Content
<1>2. at \in 0 .. Len(Phases(call)) + 1
  BY PhaseShape DEF Init, Shape, Ordered
<1>3. seen \in [busy : BOOLEAN, late : BOOLEAN, ready : BOOLEAN, pass : BOOLEAN,
               data : Content \cup {"none", "garbage"}]
  BY DEF Init, Blank
<1> QED BY <1>1, <1>2, <1>3 DEF Init, TypeOK

(* A phase is at a position of the call, and so is the next one or the end. *)
LEMMA PhaseAt ==
  ASSUME TypeOK, NEW p, InPhase(p)
  PROVE  /\ at \in 1 .. Len(Phases(call)) /\ at \in Nat \ {0}
         /\ Phases(call)[at] = p
         /\ Len(Phases(call)) \in Nat
         /\ at + 1 \in 0 .. Len(Phases(call)) + 1
         /\ p = "assert" => at + 2 \in 0 .. Len(Phases(call))
  BY PhaseShape DEF TypeOK, InPhase, Shape, Ordered

(* The effect of a bus transaction on the host is the same for all. *)
LEMMA TargetTypes ==
  ASSUME TypeOK
  PROVE  /\ \A job : job \in Writes \cup {"read"} /\ CmdSetup(job) => TargetTypeOK'
         /\ LatchRow(call.row) => TargetTypeOK'
         /\ LatchRowAndData(call.row, call.data) => TargetTypeOK'
         /\ \A job : job \in Jobs /\ CmdConfirm(job, wp) => TargetTypeOK'
         /\ CmdStatus => TargetTypeOK'
         /\ CmdReset => TargetTypeOK'
         /\ \A job : job \in {"identify", "feature"} /\ CmdQuery(job) => TargetTypeOK'
         /\ RbFalls => TargetTypeOK'
         /\ \A pass \in BOOLEAN : Completes(pass) => TargetTypeOK'
         /\ UNCHANGED targetVars => TargetTypeOK'
<1> TargetTypeOK
  BY DEF TypeOK
<1> USE DEF TargetTypeOK, targetVars
<1>0. UNCHANGED targetVars => TargetTypeOK'
  OBVIOUS
<1>1. ASSUME NEW job \in Writes \cup {"read"}, CmdSetup(job) PROVE TargetTypeOK'
  BY <1>1 DEF CmdSetup
<1>2. LatchRow(call.row) => TargetTypeOK'
  BY RowTypes DEF LatchRow
<1>3. LatchRowAndData(call.row, call.data) => TargetTypeOK'
  BY RowTypes DEF LatchRowAndData
<1>4. ASSUME NEW job \in Jobs, CmdConfirm(job, wp) PROVE TargetTypeOK'
  <2>1. CASE UNCHANGED targetVars
    BY <2>1
  <2>2. CASE ~UNCHANGED targetVars
    <3>0. Begin(job) \/ Begin("refused") \/ (activity' = "none" /\ rb' = TRUE)
      BY <1>4, <2>2, Zenon DEF CmdConfirm
    <3>1. rb' \in BOOLEAN
      <4>1. ASSUME NEW j, Begin(j) PROVE rb' \in BOOLEAN
        BY <4>1 DEF Begin
      <4>2. TRUE \in BOOLEAN
        OBVIOUS
      <4> QED BY <3>0, <4>1, <4>2, Zenon
    <3>3. activity' \in Jobs \cup {"none"}
      BY <3>0 DEF Begin, Jobs
    <3>2. srFail' \in BOOLEAN
      BY <1>4, <2>2 DEF CmdConfirm
    <3> QED BY <1>4, <2>2, <3>1, <3>2, <3>3 DEF CmdConfirm
  <2> QED BY <2>1, <2>2
<1>5. CmdStatus => TargetTypeOK'
  BY DEF CmdStatus
<1>6. CmdReset => TargetTypeOK'
  BY RowTypes DEF CmdReset, Begin, Jobs
<1>7. ASSUME NEW job \in {"identify", "feature"}, CmdQuery(job) PROVE TargetTypeOK'
  <2>1. CASE Idle
    BY <1>7, <2>1 DEF CmdQuery, Begin, Jobs
  <2>2. CASE ~Idle
    BY <1>7, <2>2 DEF CmdQuery
  <2> QED BY <2>1, <2>2
<1>8. RbFalls => TargetTypeOK'
  BY DEF RbFalls
<1>9. ASSUME NEW pass \in BOOLEAN, Completes(pass) PROVE TargetTypeOK'
  <2>1. array' \in [Row -> Content]
    BY <1>9, RowTypes DEF Completes
  <2>2. srFail' \in BOOLEAN
    BY <1>9 DEF Completes
  <2>3. reg' \in Content
    BY <1>9 DEF Completes
  <2> QED BY <1>9, <2>1, <2>2, <2>3 DEF Completes
<1> QED BY <1>0, <1>1, <1>2, <1>3, <1>4, <1>5, <1>6, <1>7, <1>8, <1>9

LEMMA JobAt ==
  ASSUME TypeOK, NEW p \in {"setup", "load", "confirm"}, InPhase(p)
  PROVE  JobOf(call) \in Writes \cup {"read"}
  BY PhaseShape, PhaseAt DEF TypeOK, Shape, NoAddress

(* What a bus transaction leaves alone on the host side. *)
LEMMA HostProceeds ==
  ASSUME TypeOK, NEW p, InPhase(p), Proceed, TargetTypeOK',
         wp' \in {0, 1}, enabled' \in BOOLEAN,
         seen' \in [busy : BOOLEAN, late : BOOLEAN, ready : BOOLEAN, pass : BOOLEAN,
                    data : Content \cup {"none", "garbage"}]
  PROVE  TypeOK'
  BY PhaseAt DEF TypeOK, Proceed

LEMMA BusTypeOK ==
  ASSUME TypeOK,
         \/ SendSetup \/ Load \/ SendConfirm \/ SendStatus \/ SendReset
         \/ SendIdentify \/ SendFeature \/ AwaitReady \/ GuardPasses \/ ReadySeen
  PROVE  TypeOK'
<1> DEFINE Same == Proceed /\ UNCHANGED <<wp, enabled, seen>>
<1>a. ASSUME NEW p, InPhase(p), Same, TargetTypeOK' PROVE TypeOK'
  BY <1>a, HostProceeds DEF TypeOK
<1>1. CASE SendSetup
  BY <1>1, <1>a, JobAt, TargetTypes DEF SendSetup, Drives
<1>2. CASE Load
  BY <1>2, <1>a, TargetTypes DEF Load, Drives
<1>3. CASE SendConfirm
  BY <1>3, <1>a, JobAt, TargetTypes DEF SendConfirm, Drives, Jobs
<1>4. CASE SendStatus
  BY <1>4, <1>a, TargetTypes DEF SendStatus, Drives
<1>5. CASE SendReset
  BY <1>5, <1>a, TargetTypes DEF SendReset, Drives
<1>6. CASE SendIdentify
  BY <1>6, <1>a, TargetTypes DEF SendIdentify, Drives
<1>7. CASE SendFeature
  BY <1>7, <1>a, TargetTypes DEF SendFeature, Drives
<1>8. CASE AwaitReady \/ GuardPasses \/ ReadySeen
  BY <1>8, <1>a, TargetTypes DEF AwaitReady, GuardPasses, ReadySeen, Drives
<1> QED BY <1>1, <1>2, <1>3, <1>4, <1>5, <1>6, <1>7, <1>8

LEMMA NextTypeOK == TypeOK /\ [Next]_vars => TypeOK'
<1> SUFFICES ASSUME TypeOK, [Next]_vars PROVE TypeOK'
  OBVIOUS
<1>u. UNCHANGED targetVars => TargetTypeOK'
  BY TargetTypes
<1>0. CASE UNCHANGED vars
  BY <1>0, <1>u DEF vars, hostVars, TypeOK
<1>1. CASE Invoke
  <2>1. call' \in Calls /\ at' = 1
    BY <1>1 DEF Invoke
  <2>2. at' \in 0 .. Len(Phases(call')) + 1
    BY <2>1, PhaseShape DEF Shape, Ordered
  <2> QED BY <1>1, <1>u, <2>1, <2>2 DEF Invoke, TypeOK, Blank
<1>2. CASE ProcessEnds
  <2>1. at' \in 0 .. Len(Phases(call')) + 1
    BY <1>2, PhaseShape DEF ProcessEnds, TypeOK, Shape, Ordered
  <2> QED BY <1>2, <1>u, <2>1 DEF ProcessEnds, TypeOK
<1>3. CASE MarkEnabled   BY <1>3, <1>u, HostProceeds DEF MarkEnabled, TypeOK
<1>4. CASE PinsInactive  BY <1>4, <1>u, HostProceeds DEF PinsInactive, TypeOK
<1>5. CASE EnableErase   BY <1>5, <1>u, HostProceeds DEF EnableErase, TypeOK
<1>6. CASE DisableErase  BY <1>6, <1>u, HostProceeds DEF DisableErase, TypeOK
<1>7. CASE \/ SendSetup \/ Load \/ SendConfirm \/ SendStatus \/ SendReset
           \/ SendIdentify \/ SendFeature \/ AwaitReady \/ GuardPasses \/ ReadySeen
  BY <1>7, BusTypeOK
<1>8. CASE Sample
  <2>1. seen' \in [busy : BOOLEAN, late : BOOLEAN, ready : BOOLEAN, pass : BOOLEAN,
                   data : Content \cup {"none", "garbage"}]
    <3>1. (~srFail) \in BOOLEAN /\ Idle \in BOOLEAN
      BY DEF Idle
    <3>2. \E ready, pass \in BOOLEAN : seen' = [seen EXCEPT !.ready = ready, !.pass = pass]
      BY <1>8, <3>1, Zenon DEF Sample
    <3> QED BY <3>2 DEF TypeOK
  <2>2. InPhase("sample") /\ Proceed /\ UNCHANGED <<targetVars, wp, enabled>>
    BY <1>8 DEF Sample
  <2> QED BY <2>1, <2>2, <1>u, HostProceeds DEF TypeOK
<1>9. CASE Fetch
  BY <1>9, <1>u, HostProceeds DEF Fetch, TypeOK, TargetTypeOK
<1>10. CASE GuardThrows
  <2>1. at' \in 0 .. Len(Phases(call')) + 1
    BY <1>10, PhaseShape DEF GuardThrows, TypeOK, Shape, Ordered
  <2> QED BY <1>10, <1>u, <2>1 DEF GuardThrows, TypeOK
<1>11. CASE BusySeen
  BY <1>11, <1>u, HostProceeds DEF BusySeen, TypeOK
<1>12. CASE BusyMissed
  <2>1. at' \in 0 .. Len(Phases(call')) + 1
    BY <1>12, PhaseAt DEF BusyMissed
  <2> QED BY <1>12, <1>u, <2>1 DEF BusyMissed, TypeOK
<1>13. CASE ReadyTimesOut
  BY <1>13, <1>u, HostProceeds DEF ReadyTimesOut, TypeOK
<1>14. CASE Return
  <2>1. at' \in 0 .. Len(Phases(call')) + 1
    BY <1>14, PhaseShape DEF Return, TypeOK, Shape, Ordered
  <2>2. Report \in {"none", "pending", "success", "failure", "thrown"}
    BY DEF Report
  <2> QED BY <1>14, <1>u, <2>1, <2>2 DEF Return, TypeOK
<1>15. CASE TargetStep
  <2>1. CASE TargetFalls
    BY <2>1, TargetTypes DEF TargetFalls, hostVars, TypeOK
  <2>2. ASSUME NEW pass \in BOOLEAN, TargetCompletes(pass) PROVE TypeOK'
    <3>1. TargetTypeOK'
      BY <2>2, TargetTypes DEF TargetCompletes
    <3>2. applied' \subseteq [job : Writes, row : Row, data : Content \cup {"none"}]
      BY <2>2 DEF TargetCompletes, TypeOK, TargetTypeOK, Write
    <3> QED BY <2>2, <3>1, <3>2 DEF TargetCompletes, TypeOK
  <2> QED BY <1>15, <2>1, <2>2 DEF TargetStep
<1> QED
  BY <1>0, <1>1, <1>2, <1>3, <1>4, <1>5, <1>6, <1>7, <1>8, <1>9, <1>10, <1>11, <1>12,
     <1>13, <1>14, <1>15 DEF Next, HostStep

(* TypeOK for every choice of blocks, pages, payloads, function families,  *)
(* interface type and late operations.                                     *)
THEOREM TypeCorrect == Spec => []TypeOK
<1>1. Init => TypeOK
  BY InitTypeOK
<1>2. TypeOK /\ [Next]_vars => TypeOK'
  BY NextTypeOK
<1> QED BY <1>1, <1>2, PTL DEF Spec

-----------------------------------------------------------------------------
(* WP# around the guarded functions. *)

(* Every host step but three moves to the next phase, and the phase alone  *)
(* says what becomes of WP#.                                               *)
LEMMA HostMoves ==
  ASSUME TypeOK, HostStep
  PROVE  \/ Return \/ GuardThrows \/ BusyMissed
         \/ /\ Proceed /\ at \in 1 .. Len(Phases(call))
            /\ wp' = IF Phases(call)[at] \in {"pins", "enable"} THEN 1
                     ELSE IF Phases(call)[at] = "disable" THEN 0 ELSE wp
<1>1. CASE MarkEnabled \/ PinsInactive \/ EnableErase \/ DisableErase
  BY <1>1 DEF MarkEnabled, PinsInactive, EnableErase, DisableErase, InPhase
<1>2. CASE \/ SendSetup \/ Load \/ SendConfirm \/ SendStatus \/ SendReset
           \/ SendIdentify \/ SendFeature \/ AwaitReady \/ GuardPasses \/ ReadySeen
  BY <1>2 DEF SendSetup, Load, SendConfirm, SendStatus, SendReset, SendIdentify,
     SendFeature, AwaitReady, GuardPasses, ReadySeen, Drives, InPhase
<1>3. CASE Sample \/ Fetch \/ BusySeen \/ ReadyTimesOut
  BY <1>3 DEF Sample, Fetch, BusySeen, ReadyTimesOut, InPhase
<1> QED BY <1>1, <1>2, <1>3 DEF HostStep

(* The same of erase_enabled_. *)
LEMMA FlagMoves ==
  ASSUME TypeOK, HostStep, ~Return, ~GuardThrows
  PROVE  enabled' = IF Phases(call)[at] \in {"mark_enabled", "enable"} THEN TRUE
                    ELSE IF Phases(call)[at] = "disable" THEN FALSE ELSE enabled
<1>1. CASE MarkEnabled \/ PinsInactive \/ EnableErase \/ DisableErase
  BY <1>1 DEF MarkEnabled, PinsInactive, EnableErase, DisableErase, InPhase
<1>2. CASE \/ SendSetup \/ Load \/ SendConfirm \/ SendStatus \/ SendReset
           \/ SendIdentify \/ SendFeature \/ AwaitReady \/ GuardPasses \/ ReadySeen
  BY <1>2 DEF SendSetup, Load, SendConfirm, SendStatus, SendReset, SendIdentify,
     SendFeature, AwaitReady, GuardPasses, ReadySeen, Drives, InPhase
<1>3. CASE Sample \/ Fetch \/ BusySeen \/ BusyMissed \/ ReadyTimesOut
  BY <1>3 DEF Sample, Fetch, BusySeen, BusyMissed, ReadyTimesOut, InPhase
<1> QED BY <1>1, <1>2, <1>3 DEF HostStep

(* The phases passed when a call moves on. *)
LEMMA PassedNext ==
  ASSUME TypeOK, at \in 1 .. Len(Phases(call)), call' = call, NEW p
  PROVE  /\ at' = at + 1 => (Passed(p)' <=> Passed(p) \/ Phases(call)[at] = p)
         /\ at' = at + 2 => (Passed(p)' <=> \/ Passed(p) \/ Phases(call)[at] = p
                                            \/ Phases(call)[at + 1] = p)
<1>1. at \in Nat \ {0} /\ at + 1 \in Nat \ {0} /\ (at + 1) + 1 = at + 2
  BY DEF TypeOK
<1>2. Passed(p)' <=> Before(call, at', p)
  BY DEF Passed, Before
<1>3. Before(call, at + 1, p) <=> Passed(p) \/ Phases(call)[at] = p
  BY <1>1, BeforeNext DEF Passed
<1>4. Before(call, at + 2, p) <=> Before(call, at + 1, p) \/ Phases(call)[at + 1] = p
  BY <1>1, BeforeNext
<1> QED BY <1>2, <1>3, <1>4

LEMMA NonePassed ==
  ASSUME NEW p
  PROVE  at' \in {0, 1} => ~Passed(p)'
<1>1. Passed(p)' <=> Before(call', at', p)
  BY DEF Passed, Before
<1>2. 1 \in Nat \ {0}
  OBVIOUS
<1>3. ~Before(call', 0, p) /\ ~Before(call', 1, p)
  BY <1>2, BeforeNext
<1> QED BY <1>1, <1>3

LEMMA InitGuard == Init => GuardHolds
  BY PhaseShape DEF Init, GuardHolds, Passed, Before, Shape, Ordered

LEMMA NextGuard == TypeOK /\ GuardHolds /\ [Next]_vars => GuardHolds'
<1> SUFFICES ASSUME TypeOK, GuardHolds, [Next]_vars PROVE GuardHolds'
  OBVIOUS
<1> TypeOK'
  BY NextTypeOK
<1>1. CASE Invoke \/ ProcessEnds \/ Return \/ GuardThrows
  <2>1. at' \in {0, 1}
    BY <1>1 DEF Invoke, ProcessEnds, Return, GuardThrows
  <2>2. ~(at' > Len(Phases(call')))
    BY <2>1, PhaseShape DEF TypeOK, Shape, Ordered
  <2> QED BY <2>1, <2>2, NonePassed DEF GuardHolds
<1>2. CASE TargetStep \/ UNCHANGED vars
  BY <1>2 DEF TargetStep, TargetFalls, TargetCompletes, vars, hostVars, GuardHolds,
     Passed, Before
<1>3. CASE HostStep /\ ~Return /\ ~GuardThrows
  <2> SUFFICES ASSUME IsGuarded(call) PROVE GuardHolds'
    BY <1>3, HostMoves DEF BusyMissed, Proceed, GuardHolds
  <2> DEFINE s == Phases(call)
  <2>0. Guarded(s) /\ Ordered(s) /\ call' = call /\ s' = s
    BY <1>3, HostMoves, PhaseShape DEF TypeOK, Shape, BusyMissed, Proceed
  <2>1. CASE BusyMissed
    <3>1. /\ at \in 1 .. Len(s) /\ at' = at + 2 /\ at + 2 <= Len(s) /\ wp' = wp
          /\ enabled' = enabled /\ s[at] = "assert" /\ s[at + 1] = "release"
      BY <2>1, <2>0, PhaseAt DEF BusyMissed, Ordered
    <3>2. /\ Passed("enable")' <=> Passed("enable")
          /\ Passed("disable")' <=> Passed("disable")
      BY <2>0, <3>1, PassedNext
    <3> QED BY <2>0, <3>1, <3>2 DEF GuardHolds, TypeOK
  <2>2. CASE ~BusyMissed
    <3>1. /\ at \in 1 .. Len(s) /\ at' = at + 1
          /\ wp' = IF s[at] \in {"pins", "enable"} THEN 1
                   ELSE IF s[at] = "disable" THEN 0 ELSE wp
      BY <1>3, <2>2, HostMoves DEF Proceed
    <3>5. enabled' = IF s[at] \in {"mark_enabled", "enable"} THEN TRUE
                     ELSE IF s[at] = "disable" THEN FALSE ELSE enabled
      BY <1>3, FlagMoves
    <3>2. /\ Passed("enable")' <=> Passed("enable") \/ s[at] = "enable"
          /\ Passed("disable")' <=> Passed("disable") \/ s[at] = "disable"
      BY <2>0, <3>1, PassedNext
    <3>3. Passed("enable")' /\ ~Passed("disable")' => wp' = 1 /\ enabled'
      BY <2>0, <3>1, <3>2, <3>5 DEF GuardHolds, Guarded
    <3>4. at' > Len(s) => wp' = 0 /\ ~enabled'
      BY <2>0, <3>1, <3>5 DEF Guarded, TypeOK
    <3> QED BY <2>0, <3>3, <3>4 DEF GuardHolds
  <2> QED BY <2>1, <2>2
<1> QED BY <1>1, <1>2, <1>3 DEF Next

-----------------------------------------------------------------------------
(* When the target may be at work. *)

LEMMA InitBusy == Init => BusyOnlyWhereExpected /\ CallsInSession
  BY DEF Init, TargetInit, BusyOnlyWhereExpected, CallsInSession, Idle

LEMMA NextCallsInSession == TypeOK /\ CallsInSession /\ [Next]_vars => CallsInSession'
<1> SUFFICES ASSUME TypeOK, CallsInSession, [Next]_vars PROVE CallsInSession'
  OBVIOUS
<1> USE DEF CallsInSession
<1>1. CASE Invoke       BY <1>1 DEF Invoke
<1>2. CASE ProcessEnds  BY <1>2 DEF ProcessEnds
<1>3. CASE Return       BY <1>3 DEF Return
<1>4. CASE GuardThrows  BY <1>4 DEF GuardThrows
<1>5. CASE HostStep /\ ~Return /\ ~GuardThrows
  <2>1. at # 0 /\ UNCHANGED <<session, call, verdict>>
    BY <1>5, HostMoves DEF BusyMissed, Proceed, InPhase
  <2>2. at' # 0
    BY <1>5, HostMoves DEF BusyMissed, Proceed, InPhase, TypeOK
  <2> QED BY <2>1, <2>2
<1>6. CASE TargetStep \/ UNCHANGED vars
  BY <1>6 DEF TargetStep, TargetFalls, TargetCompletes, vars, hostVars
<1> QED BY <1>1, <1>2, <1>3, <1>4, <1>5, <1>6 DEF Next

-----------------------------------------------------------------------------
(* What erase_enabled_ says about WP#. *)

(* FlagKnowsWP with what keeps it: a session is on under every call but    *)
(* its start, whose set_pin_direction_inactive releases WP#.               *)
FlagInv ==
  /\ FlagKnowsWP
  /\ session = "on" => (enabled => wp = 1)
  /\ at # 0 /\ call.api = "start" => session = "off" /\ (Passed("pins") => wp = 1)

(* Only the start of a session marks the flag without the pin. *)
LEMMA MarksAtStart ==
  ASSUME NEW c \in Calls, c.api # "start", NEW i \in 1 .. Len(Phases(c))
  PROVE  Phases(c)[i] # "mark_enabled"
<1>1. CASE c.api = "legacy"
  BY <1>1, CallTypes, SMTT(30) DEF Kinds, Phases, LegacyPhases, LegacyEraseBlock,
     LegacyProgramPage, LegacyReadPage, LegacyPartialErase, LegacyPartialProgram
<1>2. CASE c.api = "device"
  BY <1>2, CallTypes, SMTT(30) DEF Kinds, Phases, DevicePhases, DeviceEraseBlock,
     DeviceProgramPage, DeviceReadPage, DevicePartialErase
<1>3. CASE c.api = "timed"
  BY <1>3, CallTypes, SMTT(30) DEF Kinds, Phases, TimedPhases, TimedEraseBlock,
     TimedProgramPage, TimedReadPage
<1>4. CASE c.api = "driver"
  BY <1>4, CallTypes, SMTT(30) DEF Kinds, Phases, DriverPhases, DeviceInitialization,
     ResetDevice, SetFeatures, GetStatus
<1>5. CASE c.api = "raw"
  BY <1>5, SMTT(30) DEF Phases, RawReset
<1> QED  BY <1>1, <1>2, <1>3, <1>4, <1>5, CallTypes

LEMMA InitFlag == Init => FlagInv
  BY DEF Init, FlagInv, FlagKnowsWP

(* A guarded call throws between enable_erase and disable_erase. *)
LEMMA ThrowsInsideGuard ==
  ASSUME TypeOK, GuardHolds, GuardThrows, IsGuarded(call)
  PROVE  wp = 1 /\ enabled
<1> DEFINE s == Phases(call)
<1>1. Guarded(s) /\ Ordered(s) /\ at \in 1 .. Len(s) /\ s[at] = "guard" /\ at \in Nat
  BY PhaseShape DEF TypeOK, Shape, GuardThrows, InPhase
<1>2. 1 \in 1 .. at - 1 /\ Passed("enable")
  BY <1>1 DEF Guarded, Ordered, Passed, Before
<1>3. ~Passed("disable")
  BY <1>1 DEF Guarded, Ordered, Passed, Before
<1> QED  BY <1>2, <1>3 DEF GuardHolds

(* When the start returns, its pins phase is behind it. *)
LEMMA StartReleases ==
  ASSUME TypeOK, FlagInv, Return, call.api = "start"
  PROVE  wp = 1
<1> DEFINE s == Phases(call)
<1>1. PICK i \in 1 .. Len(s) : s[i] = "pins"
  BY PhaseShape DEF TypeOK, Shape
<1>2. at \in Nat /\ at > Len(s) /\ Len(s) \in Nat
  BY PhaseShape DEF TypeOK, Return, Shape, Ordered
<1>3. i \in 1 .. at - 1 /\ Passed("pins")
  BY <1>1, <1>2 DEF Passed, Before
<1> QED  BY <1>2, <1>3 DEF FlagInv

LEMMA NextFlag == TypeOK /\ CallsInSession /\ GuardHolds /\ FlagInv /\ [Next]_vars => FlagInv'
<1> SUFFICES ASSUME TypeOK, CallsInSession, GuardHolds, FlagInv, [Next]_vars PROVE FlagInv'
  OBVIOUS
<1>1. CASE Invoke
  <2>1. at' = 1 /\ UNCHANGED <<wp, enabled, session>> /\ ~Passed("pins")'
        /\ (call'.api = "start" <=> session = "off")
    BY <1>1, NonePassed DEF Invoke
  <2> QED  BY <2>1 DEF FlagInv, FlagKnowsWP
<1>2. CASE ProcessEnds
  BY <1>2 DEF ProcessEnds, FlagInv, FlagKnowsWP
<1>3. CASE Return
  <2>1. at # 0 /\ UNCHANGED <<wp, enabled, call>> /\ at' = 0 /\ verdict' = Report /\ session' = "on"
    BY <1>3, PhaseShape DEF Return, TypeOK, Shape, Ordered
  <2>2. enabled => wp = 1
    BY <1>3, <2>1, StartReleases DEF FlagInv, CallsInSession, TypeOK
  <2>3. Report # "thrown"
    BY DEF Report
  <2>4. IsGuarded(call) => wp = 0 /\ ~enabled
    BY <1>3 DEF Return, GuardHolds
  <2> QED  BY <2>1, <2>2, <2>3, <2>4 DEF FlagInv, FlagKnowsWP, IsGuarded
<1>4. CASE GuardThrows
  <2>1. at' = 0 /\ verdict' = "thrown" /\ UNCHANGED <<wp, enabled, session, call>>
    BY <1>4 DEF GuardThrows
  <2>2. IsGuarded(call) => wp = 1 /\ enabled
    BY <1>4, ThrowsInsideGuard
  <2> QED  BY <2>1, <2>2 DEF FlagInv, FlagKnowsWP, IsGuarded
<1>5. CASE HostStep /\ ~Return /\ ~GuardThrows
  <2> DEFINE s == Phases(call)
  <2>1. /\ at # 0 /\ at' # 0 /\ UNCHANGED <<session, call>> /\ at \in 1 .. Len(s)
        /\ BusyMissed \/ at' = at + 1
    BY <1>5, HostMoves DEF BusyMissed, Proceed, InPhase, TypeOK
  <2>2. enabled' = IF s[at] \in {"mark_enabled", "enable"} THEN TRUE
                   ELSE IF s[at] = "disable" THEN FALSE ELSE enabled
    BY <1>5, FlagMoves
  <2>3. wp' = IF s[at] \in {"pins", "enable"} THEN 1
              ELSE IF s[at] = "disable" THEN 0 ELSE wp
    BY <1>5, HostMoves DEF BusyMissed, Proceed, InPhase
  <2>4. CASE call.api = "start"
    <3>1. Unguarded(s)
      BY <2>4, PhaseShape DEF TypeOK, Shape
    <3>2. session' = "off"
      BY <2>1, <2>4 DEF FlagInv
    <3>3. Passed("pins")' => wp' = 1
      <4>1. CASE BusyMissed
        <5>1. at' = at + 2 /\ s[at] = "assert" /\ s[at + 1] = "release"
          BY <4>1, PhaseShape DEF BusyMissed, InPhase, TypeOK, Shape, Ordered
        <5> QED  BY <2>1, <2>3, <2>4, <5>1, PassedNext DEF FlagInv
      <4>2. CASE at' = at + 1
        BY <2>1, <2>3, <2>4, <3>1, <4>2, PassedNext DEF FlagInv, Unguarded
      <4> QED  BY <2>1, <4>1, <4>2
    <3> QED  BY <2>1, <3>2, <3>3 DEF FlagInv, FlagKnowsWP
  <2>5. CASE call.api # "start"
    <3>1. session = "on" => (enabled => wp = 1)
      BY DEF FlagInv
    <3>2. s[at] # "mark_enabled"
      BY <2>1, <2>5, MarksAtStart DEF TypeOK
    <3>3. session' = "on" => (enabled' => wp' = 1)
      BY <2>1, <2>2, <2>3, <3>1, <3>2
    <3> QED  BY <2>1, <2>5, <3>3 DEF FlagInv, FlagKnowsWP
  <2> QED  BY <2>4, <2>5
<1>6. CASE TargetStep \/ UNCHANGED vars
  BY <1>6 DEF TargetStep, TargetFalls, TargetCompletes, vars, hostVars, FlagInv, FlagKnowsWP,
     Passed, Before
<1> QED  BY <1>1, <1>2, <1>3, <1>4, <1>5, <1>6 DEF Next

(* FlagKnowsWP for every choice of the constants: with any mixture of      *)
(* function families, either interface type and a target that is late, or  *)
(* silent, at will.                                                        *)
THEOREM FlagIsTrusted == Spec => []FlagKnowsWP
<1>1. Init => TypeOK /\ CallsInSession /\ GuardHolds /\ FlagInv
  BY InitTypeOK, InitBusy, InitGuard, InitFlag
<1>2. TypeOK /\ CallsInSession /\ GuardHolds /\ FlagInv /\ [Next]_vars
        => (TypeOK /\ CallsInSession /\ GuardHolds /\ FlagInv)'
  BY NextTypeOK, NextCallsInSession, NextGuard, NextFlag
<1>3. FlagInv => FlagKnowsWP
  BY DEF FlagInv
<1> QED  BY <1>1, <1>2, <1>3, PTL DEF Spec

-----------------------------------------------------------------------------
(* Where a target at work is found. *)

(* A target at work stands in a phase that allows for it. *)
LEMMA IdleAt ==
  ASSUME TypeOK, BusyOnlyWhereExpected, NEW p, InPhase(p)
  PROVE  /\ p \notin MayFindBusy(call) => Idle
         /\ rb => Idle
  BY DEF BusyOnlyWhereExpected, InPhase, TypeOK

(* Data and status are read from an idle target.                           *)
LEMMA OutputWhenIdle ==
  ASSUME TypeOK, PlainBus, BusyOnlyWhereExpected, MayOutput,
         NEW p \in {"sample", "fetch"}, InPhase(p)
  PROVE  Idle
<1>1. CASE call.api = "timed"
  <2>1. ~Toggle
    BY <1>1, CallTypes DEF PlainBus, TypeOK
  <2> QED BY <2>1, IdleAt DEF MayOutput
<1>2. CASE call.api # "timed"
  BY <1>2, IdleAt DEF MayFindBusy
<1> QED BY <1>1, <1>2

LEMMA BusyAfter ==
  ASSUME TypeOK, PlainBus, BusyOnlyWhereExpected,
         HostStep, ~Return, ~GuardThrows, ~BusyMissed
  PROVE  ~Idle' => ~rb' /\ Phases(call)[at] \in MayLeaveBusy(call)
<1> USE DEF Idle, InPhase, MayLeaveBusy
<1>0. UNCHANGED targetVars /\ ~Idle => ~rb'
  BY DEF BusyOnlyWhereExpected, targetVars
<1>1. CASE MarkEnabled \/ PinsInactive \/ BusySeen \/ ReadyTimesOut
  BY <1>1, <1>0 DEF MarkEnabled, PinsInactive, BusySeen, ReadyTimesOut, targetVars
<1>2. CASE EnableErase \/ DisableErase
  BY <1>2, IdleAt DEF EnableErase, DisableErase, MayFindBusy, targetVars
<1>3. CASE AwaitReady \/ GuardPasses \/ ReadySeen
  BY <1>3, IdleAt DEF AwaitReady, GuardPasses, ReadySeen, Drives, targetVars
<1>4. CASE Sample \/ Fetch
  BY <1>4, OutputWhenIdle DEF Sample, Fetch, targetVars
<1>5. CASE SendSetup
  BY <1>5, IdleAt DEF SendSetup, Drives, CmdSetup, MayFindBusy
<1>6. CASE Load
  BY <1>6, IdleAt DEF Load, Drives, LatchRow, LatchRowAndData, MayFindBusy
<1>7. CASE SendConfirm
  <2>1. Idle
    BY <1>7, IdleAt DEF SendConfirm, MayFindBusy
  <2>2. CmdConfirm(JobOf(call), wp)
    BY <1>7 DEF SendConfirm, Drives
  <2>3. ~rb' \/ activity' = "none"
    BY <2>1, <2>2, Zenon DEF CmdConfirm, Begin, PlainBus, targetVars
  <2> QED BY <1>7, <2>3 DEF SendConfirm
<1>8. CASE SendStatus
  BY <1>8, IdleAt DEF SendStatus, Drives, CmdStatus, BusyOnlyWhereExpected, MayFindBusy
<1>9. CASE SendReset
  BY <1>9 DEF SendReset, Drives, CmdReset, Begin, PlainBus
<1>10. CASE SendIdentify \/ SendFeature
  BY <1>10, IdleAt DEF SendIdentify, SendFeature, Drives, CmdQuery, Begin, PlainBus,
     MayFindBusy
<1> QED BY <1>1, <1>2, <1>3, <1>4, <1>5, <1>6, <1>7, <1>8, <1>9, <1>10 DEF HostStep

LEMMA NextBusy ==
  ASSUME PlainBus
  PROVE  TypeOK /\ BusyOnlyWhereExpected /\ CallsInSession /\ [Next]_vars
         => BusyOnlyWhereExpected'
<1> SUFFICES ASSUME TypeOK, BusyOnlyWhereExpected, CallsInSession, [Next]_vars
             PROVE  BusyOnlyWhereExpected'
  OBVIOUS
<1>1. CASE Invoke
  <2>1. CASE Idle
    BY <1>1, <2>1 DEF Invoke, BusyOnlyWhereExpected, Idle, targetVars
  <2>2. CASE ~Idle
    <3>1. ~rb /\ session = "off"
      BY <1>1, <2>2 DEF Invoke, BusyOnlyWhereExpected
    <3>2. call' \in Calls /\ call'.api = "start" /\ at' = 1 /\ ~rb'
      BY <1>1, <3>1 DEF Invoke, targetVars
    <3>3. Phases(call')[1] = "mark_enabled" /\ 1 \in 1 .. Len(Phases(call'))
      BY <3>2, PhaseShape DEF Shape, Ordered
    <3> QED BY <3>2, <3>3 DEF BusyOnlyWhereExpected, MayFindBusy
  <2> QED BY <2>1, <2>2
<1>2. CASE ProcessEnds
  BY <1>2 DEF ProcessEnds, BusyOnlyWhereExpected, Idle, targetVars
<1>3. CASE Return \/ GuardThrows \/ BusyMissed
  <2>1. Idle
    BY <1>3, IdleAt, PhaseShape DEF Return, GuardThrows, BusyMissed, BusyOnlyWhereExpected,
       MayFindBusy, TypeOK, Shape, Ordered
  <2> QED BY <1>3, <2>1 DEF Return, GuardThrows, BusyMissed, BusyOnlyWhereExpected,
             Idle, targetVars
<1>4. CASE HostStep /\ ~Return /\ ~GuardThrows /\ ~BusyMissed
  <2>1. Proceed /\ at \in 1 .. Len(Phases(call))
    BY <1>4, HostMoves
  <2>2. LeavesBusyWell(call)
    BY PhaseShape, CallTypes DEF TypeOK, PlainBus, Shape
  <2>3. ~Idle' => ~rb' /\ Phases(call)[at] \in MayLeaveBusy(call)
    BY <1>4, BusyAfter
  <2> QED BY <2>1, <2>2, <2>3 DEF Proceed, LeavesBusyWell, BusyOnlyWhereExpected, TypeOK
<1>5. CASE TargetStep
  BY <1>5 DEF TargetStep, TargetFalls, RbFalls, TargetCompletes, Completes,
     BusyOnlyWhereExpected, Idle
<1>6. CASE UNCHANGED vars
  BY <1>6 DEF vars, hostVars, targetVars, BusyOnlyWhereExpected, Idle
<1> QED BY <1>1, <1>2, <1>3, <1>4, <1>5, <1>6 DEF Next

(* CommandsNeedIdleTarget for every mixture of the function families, any  *)
(* number of process deaths, and a target that takes its time, on a bus    *)
(* that behaves.                                                           *)
THEOREM CommandsMeetIdleTarget ==
  ASSUME PlainBus
  PROVE  Spec => []CommandsNeedIdleTarget
<1> DEFINE J == TypeOK /\ BusyOnlyWhereExpected /\ CallsInSession
<1>1. Init => J
  BY InitTypeOK, InitBusy
<1>2. J /\ [Next]_vars => J'
  BY NextTypeOK, NextBusy, NextCallsInSession
<1>3. J => CommandsNeedIdleTarget
  BY IdleAt DEF CommandsNeedIdleTarget, MayFindBusy
<1> QED BY <1>1, <1>2, <1>3, PTL DEF Spec

-----------------------------------------------------------------------------
(* WP# while the target writes. *)

LEMMA InitWP == Init => WPReleased
  BY DEF Init, TargetInit, WPReleased, Writes, Passed, Before

(* Only a confirm with WP# released lets a write begin. *)
LEMMA WriteBegins ==
  ASSUME TypeOK, HostStep, activity' \in Writes
  PROVE  activity \in Writes \/ (SendConfirm /\ JobOf(call) \in Writes /\ wp = 1 /\ wp' = wp)
<1> USE DEF Writes
<1>1. CASE Return \/ GuardThrows \/ BusyMissed
  BY <1>1 DEF Return, GuardThrows, BusyMissed, targetVars
<1>2. CASE \/ MarkEnabled \/ PinsInactive \/ EnableErase \/ DisableErase \/ Sample
           \/ Fetch \/ BusySeen \/ ReadyTimesOut
  BY <1>2 DEF MarkEnabled, PinsInactive, EnableErase, DisableErase, Sample, Fetch,
     BusySeen, ReadyTimesOut, targetVars
<1>3. CASE AwaitReady \/ GuardPasses \/ ReadySeen
  BY <1>3 DEF AwaitReady, GuardPasses, ReadySeen, Drives, targetVars
<1>4. CASE SendSetup
  BY <1>4 DEF SendSetup, Drives, CmdSetup, targetVars
<1>5. CASE Load
  BY <1>5 DEF Load, Drives, LatchRow, LatchRowAndData, targetVars
<1>6. CASE SendConfirm
  <2>1. CmdConfirm(JobOf(call), wp) /\ wp \in {0, 1} /\ wp' = wp
    BY <1>6 DEF SendConfirm, Drives, TypeOK
  <2>2. CASE UNCHANGED targetVars
    BY <2>2 DEF targetVars
  <2>3. CASE ~UNCHANGED targetVars
    <3>1. \/ activity' = "refused" \/ activity' = "none"
          \/ activity' = JobOf(call) /\ ~(JobOf(call) \in Writes /\ wp = 0)
      BY <2>1, <2>3, Zenon DEF CmdConfirm, Begin
    <3> QED BY <1>6, <2>1, <3>1
  <2> QED BY <2>2, <2>3
<1>7. CASE SendStatus \/ SendReset
  BY <1>7 DEF SendStatus, SendReset, Drives, CmdStatus, CmdReset, Begin
<1>8. CASE SendIdentify \/ SendFeature
  BY <1>8 DEF SendIdentify, SendFeature, Drives, CmdQuery, Begin, targetVars
<1> QED BY <1>1, <1>2, <1>3, <1>4, <1>5, <1>6, <1>7, <1>8 DEF HostStep

(* A write under way sees no step that lowers WP#. *)
LEMMA WPKept ==
  ASSUME PlainBus, TypeOK, BusyOnlyWhereExpected, WPReleased, [Next]_vars,
         activity \in Writes
  PROVE  wp' = wp
<1> wp = 1 /\ ~Idle
  BY DEF WPReleased, Idle, Writes
<1>1. CASE HostStep /\ ~Return /\ ~GuardThrows /\ ~BusyMissed
  BY <1>1, HostMoves DEF BusyOnlyWhereExpected, MayFindBusy
<1>2. CASE ~HostStep \/ Return \/ GuardThrows \/ BusyMissed
  BY <1>2 DEF Next, Return, GuardThrows, BusyMissed, Invoke, ProcessEnds, TargetStep,
     TargetFalls, TargetCompletes, vars, hostVars
<1> QED BY <1>1, <1>2

LEMMA NextWP ==
  ASSUME PlainBus
  PROVE  TypeOK /\ BusyOnlyWhereExpected /\ CallsInSession /\ WPReleased /\ [Next]_vars
         => WPReleased'
<1> SUFFICES ASSUME TypeOK, BusyOnlyWhereExpected, CallsInSession, WPReleased, [Next]_vars
             PROVE  WPReleased'
  OBVIOUS
<1> DEFINE Free == Apis \cap {"legacy", "timed"} = {}
           s    == Phases(call)
<1>1. activity' \in Writes => wp' = 1
  <2>1. CASE activity \in Writes
    BY <2>1, WPKept DEF WPReleased
  <2>2. CASE activity \notin Writes /\ activity' \in Writes
    <3>1. HostStep
      BY <2>2 DEF Next, Invoke, ProcessEnds, TargetStep, TargetFalls, RbFalls,
         TargetCompletes, Completes, vars, targetVars, Writes
    <3> QED BY <2>2, <3>1, WriteBegins
  <2> QED BY <2>1, <2>2
<1>2. Free => (session' = "on" => wp' = 1)
              /\ (call'.api = "start" /\ Passed("pins")' => wp' = 1)
  <2> SUFFICES ASSUME Free
               PROVE  /\ session' = "on" => wp' = 1
                      /\ call'.api = "start" /\ Passed("pins")' => wp' = 1
    OBVIOUS
  <2>0. Ordered(s) /\ Unguarded(s) /\ call.api \in Apis \cup {"start"}
    BY PhaseShape, CallTypes DEF TypeOK, Shape
  <2>1. CASE Invoke \/ ProcessEnds \/ GuardThrows
    BY <2>1, NonePassed DEF Invoke, ProcessEnds, GuardThrows, WPReleased
  <2>2. CASE Return
    <3>1. at \in Nat /\ at > Len(s) /\ Len(s) \in Nat \ {0} /\ wp' = wp /\ at' = 0
      BY <2>0, <2>2 DEF Return, TypeOK, Ordered
    <3>2. call.api = "start" => Passed("pins")
      BY <3>1, PhaseShape DEF TypeOK, Shape, Passed, Before
    <3>3. session = "on" \/ call.api = "start"
      BY <3>1 DEF CallsInSession, TypeOK
    <3> QED BY <3>1, <3>2, <3>3, NonePassed DEF WPReleased
  <2>3. CASE BusyMissed
    <3>1. /\ at \in 1 .. Len(s) /\ at' = at + 2 /\ call' = call
          /\ UNCHANGED <<wp, session>> /\ s[at] = "assert" /\ s[at + 1] = "release"
      BY <2>3, <2>0, PhaseAt DEF BusyMissed, Ordered
    <3>2. Passed("pins")' <=> Passed("pins")
      BY <3>1, PassedNext
    <3> QED BY <3>1, <3>2 DEF WPReleased
  <2>4. CASE HostStep /\ ~Return /\ ~GuardThrows /\ ~BusyMissed
    <3>1. /\ at \in 1 .. Len(s) /\ Proceed
          /\ wp' = IF s[at] = "pins" THEN 1 ELSE wp
      BY <2>4, <2>0, HostMoves DEF Unguarded
    <3>2. Passed("pins")' <=> Passed("pins") \/ s[at] = "pins"
      BY <3>1, PassedNext DEF Proceed
    <3> QED BY <3>1, <3>2 DEF WPReleased, Proceed
  <2>5. CASE TargetStep \/ UNCHANGED vars
    BY <2>5 DEF TargetStep, TargetFalls, TargetCompletes, vars, hostVars, WPReleased,
       Passed, Before
  <2> QED BY <2>1, <2>2, <2>3, <2>4, <2>5 DEF Next
<1> QED BY <1>1, <1>2 DEF WPReleased

(* WPStableDuringWrites under the same assumptions. *)
THEOREM WPIsStable ==
  ASSUME PlainBus
  PROVE  Spec => WPStableDuringWrites
<1> DEFINE J == TypeOK /\ BusyOnlyWhereExpected /\ CallsInSession /\ WPReleased
<1>1. Init => J
  BY InitTypeOK, InitBusy, InitWP
<1>2. J /\ [Next]_vars => J'
  BY NextTypeOK, NextBusy, NextCallsInSession, NextWP
<1>3. J /\ [Next]_vars => [wp' # wp => activity \notin Writes]_vars
  BY WPKept
<1> QED BY <1>1, <1>2, <1>3, PTL DEF Spec, WPStableDuringWrites

-----------------------------------------------------------------------------
(* What the actions of the phases do. *)

LEMMA ActionAt ==
  ASSUME TypeOK, HostStep
  PROVE  /\ InPhase("setup")   => SendSetup
         /\ InPhase("load")    => Load
         /\ InPhase("confirm") => SendConfirm
         /\ InPhase("status")  => SendStatus
         /\ InPhase("sample")  => Sample
         /\ InPhase("fetch")   => Fetch
<1>1. \/ InPhase("mark_enabled") \/ InPhase("pins") \/ InPhase("enable") \/ InPhase("disable")
      \/ InPhase("reset") \/ InPhase("identify") \/ InPhase("feature") \/ InPhase("await")
      \/ InPhase("guard") \/ InPhase("assert") \/ InPhase("release") \/ Return
      \/ SendSetup \/ Load \/ SendConfirm \/ SendStatus \/ Sample \/ Fetch
  BY DEF HostStep, MarkEnabled, PinsInactive, EnableErase, DisableErase, SendReset,
     SendIdentify, SendFeature, AwaitReady, GuardPasses, GuardThrows, BusySeen, BusyMissed,
     ReadySeen, ReadyTimesOut
<1>2. InPhase("setup") => SendSetup
  BY <1>1 DEF InPhase, TypeOK, Return, Load, SendConfirm, SendStatus, Sample, Fetch
<1>3. InPhase("load") => Load
  BY <1>1 DEF InPhase, TypeOK, Return, SendSetup, SendConfirm, SendStatus, Sample, Fetch
<1>4. InPhase("confirm") => SendConfirm
  BY <1>1 DEF InPhase, TypeOK, Return, SendSetup, Load, SendStatus, Sample, Fetch
<1>5. InPhase("status") => SendStatus
  BY <1>1 DEF InPhase, TypeOK, Return, SendSetup, Load, SendConfirm, Sample, Fetch
<1>6. InPhase("sample") => Sample
  BY <1>1 DEF InPhase, TypeOK, Return, SendSetup, Load, SendConfirm, SendStatus, Fetch
<1>7. InPhase("fetch") => Fetch
  BY <1>1 DEF InPhase, TypeOK, Return, SendSetup, Load, SendConfirm, SendStatus, Sample
<1> QED BY <1>2, <1>3, <1>4, <1>5, <1>6, <1>7

LEMMA HarmlessStep ==
  ASSUME TypeOK, HostStep, at \in 1 .. Len(Phases(call)), Phases(call)[at] \in Harmless
  PROVE  UNCHANGED <<array, activity, rb, srFail, addr, reg, applied, call>>
<1>1. CASE DisableErase \/ Sample \/ Fetch \/ BusySeen \/ BusyMissed \/ ReadyTimesOut
  BY <1>1 DEF DisableErase, Sample, Fetch, BusySeen, BusyMissed, ReadyTimesOut, Proceed,
     targetVars
<1>2. CASE AwaitReady \/ ReadySeen
  BY <1>2 DEF AwaitReady, ReadySeen, Drives, Proceed, targetVars
<1>3. CASE SendStatus
  BY <1>3 DEF SendStatus, Drives, Proceed, CmdStatus
<1> QED
  BY <1>1, <1>2, <1>3 DEF HostStep, InPhase, Harmless, MarkEnabled, PinsInactive, EnableErase,
     SendSetup, Load, SendConfirm, SendReset, SendIdentify, SendFeature, GuardPasses,
     GuardThrows, Return

LEMMA OutKept ==
  ASSUME TypeOK, HostStep, at \in 1 .. Len(Phases(call)),
         Phases(call)[at] \notin {"setup", "status", "reset", "identify", "feature"}
  PROVE  out' = out
<1>1. CASE \/ MarkEnabled \/ PinsInactive \/ EnableErase \/ DisableErase \/ Sample \/ Fetch
           \/ BusySeen \/ BusyMissed \/ ReadyTimesOut \/ GuardThrows \/ Return
  BY <1>1 DEF MarkEnabled, PinsInactive, EnableErase, DisableErase, Sample, Fetch, BusySeen,
     BusyMissed, ReadyTimesOut, GuardThrows, Return, targetVars
<1>2. CASE AwaitReady \/ GuardPasses \/ ReadySeen
  BY <1>2 DEF AwaitReady, GuardPasses, ReadySeen, Drives, targetVars
<1>3. CASE Load \/ SendConfirm
  BY <1>3 DEF Load, SendConfirm, Drives, LatchRow, LatchRowAndData, CmdConfirm, targetVars
<1> QED
  BY <1>1, <1>2, <1>3 DEF HostStep, InPhase, SendSetup, SendStatus, SendReset, SendIdentify,
     SendFeature

(* A step either leaves no call under way past its first phase, or moves   *)
(* the call on by one phase, or skips "release", or is not the host's.     *)
LEMMA StepKinds ==
  ASSUME TypeOK, [Next]_vars
  PROVE  \/ at' \in {0, 1} /\ (Invoke \/ ProcessEnds \/ Return \/ GuardThrows)
         \/ /\ HostStep /\ Proceed /\ at \in 1 .. Len(Phases(call)) /\ at' = at + 1
            /\ call' = call
         \/ /\ BusyMissed /\ HostStep /\ at \in 1 .. Len(Phases(call)) /\ at' = at + 2
            /\ call' = call /\ at + 2 <= Len(Phases(call))
            /\ Phases(call)[at] = "assert" /\ Phases(call)[at + 1] = "release"
         \/ TargetStep /\ UNCHANGED <<call, at, seen, verdict, session, wp>>
         \/ UNCHANGED vars
<1>1. CASE Invoke \/ ProcessEnds \/ Return \/ GuardThrows
  BY <1>1 DEF Invoke, ProcessEnds, Return, GuardThrows
<1>2. CASE HostStep /\ ~Return /\ ~GuardThrows /\ ~BusyMissed
  BY <1>2, HostMoves DEF Proceed
<1>3. CASE BusyMissed
  BY <1>3, PhaseAt, PhaseShape DEF BusyMissed, HostStep, TypeOK, Shape, Ordered
<1>4. CASE TargetStep
  BY <1>4 DEF TargetStep, TargetFalls, TargetCompletes, hostVars
<1> QED BY <1>1, <1>2, <1>3, <1>4 DEF Next

-----------------------------------------------------------------------------
(* What the target has been told. *)

LEMMA InitAnnounced == Init => Announced
  BY DEF Init, Announced, InPhase

LEMMA NextAnnounced ==
  TypeOK /\ BusyOnlyWhereExpected /\ Announced /\ [Next]_vars => Announced'
<1> SUFFICES ASSUME TypeOK, BusyOnlyWhereExpected, Announced, [Next]_vars
             PROVE  Announced'
  OBVIOUS
<1> DEFINE s == Phases(call)
<1>0. TypeOK' /\ Ordered(s) /\ Ordered(s')
  BY NextTypeOK, PhaseShape DEF TypeOK, Shape
<1>1. CASE at' \in {0, 1}
  BY <1>0, <1>1 DEF Announced, InPhase, Ordered
<1>2. CASE HostStep /\ Proceed /\ at \in 1 .. Len(s) /\ at' = at + 1 /\ call' = call
  <2>1. InPhase("load")' => setup' = JobOf(call)
    <3> SUFFICES ASSUME InPhase("load")' PROVE setup' = JobOf(call)
      OBVIOUS
    <3>1. InPhase("setup")
      BY <1>0, <1>2 DEF InPhase, Ordered, TypeOK
    <3>2. SendSetup /\ Idle
      BY <1>2, <3>1, ActionAt, IdleAt DEF MayFindBusy
    <3> QED BY <3>2 DEF SendSetup, Drives, CmdSetup
  <2>2. InPhase("confirm")' => /\ setup' = JobOf(call) /\ addr' = call.row
                               /\ JobOf(call) = "program" => reg' = call.data
    <3> SUFFICES ASSUME InPhase("confirm")'
                 PROVE  /\ setup' = JobOf(call) /\ addr' = call.row
                        /\ JobOf(call) = "program" => reg' = call.data
      OBVIOUS
    <3>1. InPhase("load")
      BY <1>0, <1>2 DEF InPhase, Ordered, TypeOK
    <3>2. Load /\ Idle /\ setup = JobOf(call)
      BY <1>2, <3>1, ActionAt, IdleAt DEF MayFindBusy, Announced
    <3> QED BY <3>2 DEF Load, Drives, LatchRow, LatchRowAndData
  <2> QED BY <1>2, <2>1, <2>2 DEF Announced, JobOf
<1>3. CASE /\ at \in 1 .. Len(s) /\ at' = at + 2 /\ call' = call
           /\ at + 2 <= Len(s) /\ s[at + 1] = "release"
  BY <1>0, <1>3 DEF Announced, InPhase, Ordered, TypeOK
<1>4. CASE TargetStep /\ UNCHANGED <<call, at>>
  <2>1. ~Idle
    BY <1>4 DEF TargetStep, TargetFalls, RbFalls, TargetCompletes, Completes
  <2>2. ~InPhase("load") /\ ~InPhase("confirm")
    BY <2>1, IdleAt DEF MayFindBusy
  <2> QED BY <1>4, <2>2 DEF Announced, InPhase
<1>5. CASE UNCHANGED vars
  BY <1>5 DEF vars, targetVars, hostVars, Announced, InPhase, JobOf
<1> QED BY <1>1, <1>2, <1>3, <1>4, <1>5, StepKinds

-----------------------------------------------------------------------------
(* Reads. *)

LEMMA InitReadLanded == Init => ReadLanded
  BY DEF Init, ReadLanded, Passed, Before

(* A call that has passed its confirm only does harmless things, and one   *)
(* that passes it now finds the target told and idle.                      *)
LEMMA ConfirmPassed ==
  ASSUME TypeOK, BusyOnlyWhereExpected, Announced, [Next]_vars,
         IsRead(call') \/ IsWrite(call'), Passed("confirm")'
  PROVE  \/ /\ Passed("confirm")
            /\ UNCHANGED <<array, activity, srFail, addr, reg, applied, call>>
         \/ Passed("confirm") /\ TargetStep /\ UNCHANGED call
         \/ /\ SendConfirm /\ Idle /\ call' = call /\ setup = JobOf(call)
            /\ InPhase("confirm") /\ addr = call.row
            /\ JobOf(call) = "program" => reg = call.data
<1> DEFINE s == Phases(call)
<1>1. CASE at' \in {0, 1}
  BY <1>1, NonePassed
<1>2. CASE UNCHANGED vars
  BY <1>2 DEF vars, targetVars, hostVars, Passed, Before
<1>3. CASE TargetStep /\ UNCHANGED <<call, at>>
  BY <1>3 DEF Passed, Before
<1>4. CASE /\ HostStep /\ at \in 1 .. Len(s) /\ call' = call
           /\ \/ at' = at + 1
              \/ at' = at + 2 /\ s[at] = "assert" /\ s[at + 1] = "release"
  <2>1. Confirmed(s)
    BY <1>4, PhaseShape DEF TypeOK, Shape
  <2>2. CASE Passed("confirm")
    <3>1. \E j \in 1 .. Len(s) : s[j] = "confirm" /\ j < at
      BY <1>4, <2>2 DEF Passed, Before, TypeOK
    <3>2. s[at] \in Harmless
      BY <1>4, <2>1, <3>1 DEF Confirmed
    <3> QED BY <1>4, <2>2, <3>2, HarmlessStep
  <2>3. CASE ~Passed("confirm")
    <3>1. InPhase("confirm")
      BY <1>4, <2>3, PassedNext DEF InPhase
    <3> QED BY <1>4, <3>1, ActionAt, IdleAt DEF Announced, MayFindBusy
  <2> QED BY <2>2, <2>3
<1> QED BY <1>1, <1>2, <1>3, <1>4, StepKinds

(* The page a read is about, from the array to the host. *)
ReadOnItsWay == IsRead(call) /\ Passed("confirm") =>
  \/ activity = "read" /\ addr = call.row
  \/ Idle /\ reg = array[call.row]

LEMMA NextReadOnItsWay ==
  TypeOK /\ BusyOnlyWhereExpected /\ Announced /\ ReadOnItsWay /\ [Next]_vars
    => ReadOnItsWay'
<1> SUFFICES ASSUME TypeOK, BusyOnlyWhereExpected, Announced, ReadOnItsWay, [Next]_vars,
                    IsRead(call'), Passed("confirm")'
             PROVE  \/ activity' = "read" /\ addr' = call'.row
                    \/ Idle' /\ reg' = array'[call'.row]
  BY DEF ReadOnItsWay, IsRead
<1>1. CASE Passed("confirm") /\ UNCHANGED <<array, activity, srFail, addr, reg, applied, call>>
  BY <1>1 DEF ReadOnItsWay, Idle, IsRead
<1>2. CASE Passed("confirm") /\ TargetStep /\ UNCHANGED call
  <2>1. ~Idle /\ ~rb
    BY <1>2 DEF TargetStep, TargetFalls, RbFalls, TargetCompletes, Completes,
       BusyOnlyWhereExpected
  <2>2. activity = "read" /\ addr = call.row /\ call.row \in Row
    BY <1>2, <2>1, RowTypes DEF ReadOnItsWay, IsRead
  <2>3. PICK pass \in BOOLEAN : Completes(pass)
    BY <1>2, <2>1 DEF TargetStep, TargetFalls, RbFalls, TargetCompletes
  <2>4. Touched = {}
    BY <2>2 DEF Touched
  <2>5. array' = Written /\ reg' = array[addr] /\ activity' = "none"
    BY <2>2, <2>3 DEF Completes, Writes
  <2>6. array'[call.row] = array[call.row]
    BY <2>2, <2>4, <2>5 DEF Written
  <2> QED BY <1>2, <2>2, <2>5, <2>6 DEF Idle
<1>3. CASE /\ SendConfirm /\ Idle /\ call' = call /\ setup = JobOf(call)
           /\ addr = call.row
  <2>1. JobOf(call) = "read"
    BY <1>3 DEF IsRead, JobOf
  <2>2. CmdConfirm("read", wp) /\ Idle /\ setup = "read"
    BY <1>3, <2>1 DEF SendConfirm, Drives
  <2>3. activity' = "read" /\ addr' = addr
    BY <2>2 DEF CmdConfirm, Begin, Writes
  <2> QED BY <1>3, <2>3
<1> QED BY <1>1, <1>2, <1>3, ConfirmPassed

LEMMA NextReadLanded ==
  ASSUME PlainBus
  PROVE  TypeOK /\ BusyOnlyWhereExpected /\ Announced /\ ReadLanded /\ [Next]_vars
           => ReadLanded'
<1> SUFFICES ASSUME TypeOK, BusyOnlyWhereExpected, Announced, ReadLanded, [Next]_vars
             PROVE  ReadLanded'
  OBVIOUS
<1> DEFINE s == Phases(call)
<1>1. ReadOnItsWay'
  BY NextReadOnItsWay DEF ReadOnItsWay, ReadLanded
<1> SUFFICES ASSUME IsRead(call')
             PROVE  /\ Passed("setup")' /\ ~Passed("status")' => out' = "page"
                    /\ Passed("fetch")' => Idle' /\ seen'.data = array'[call'.row]
  BY <1>1 DEF ReadOnItsWay, ReadLanded, IsRead
<1>2. CASE at' \in {0, 1}
  BY <1>2, NonePassed
<1>3. CASE UNCHANGED vars
  BY <1>3 DEF vars, targetVars, hostVars, Passed, Before, ReadLanded, Idle, IsRead
<1>4. CASE TargetStep /\ UNCHANGED <<call, at, seen>>
  <2>1. ~Idle /\ out' = out
    BY <1>4 DEF TargetStep, TargetFalls, RbFalls, TargetCompletes, Completes
  <2> QED BY <1>4, <2>1 DEF ReadLanded, Passed, Before, IsRead
<1>5. CASE /\ HostStep /\ at \in 1 .. Len(s) /\ call' = call
           /\ \/ Proceed /\ at' = at + 1
              \/ BusyMissed /\ at' = at + 2 /\ s[at] = "assert" /\ s[at + 1] = "release"
  <2>0. Confirmed(s) /\ Fetched(s) /\ Ordered(s) /\ IsRead(call) /\ call.row \in Row
    BY <1>5, PhaseShape, RowTypes DEF TypeOK, Shape, IsRead
  <2>1. \A p \in {"setup", "status", "fetch"} : Passed(p)' <=> Passed(p) \/ s[at] = p
    BY <1>5, PassedNext
  <2>2. Passed("setup")' /\ ~Passed("status")' => out' = "page"
    <3> SUFFICES ASSUME Passed("setup")', ~Passed("status")' PROVE out' = "page"
      OBVIOUS
    <3>1. CASE s[at] = "setup"
      <4>1. SendSetup /\ Idle
        BY <1>5, <3>1, ActionAt, IdleAt DEF InPhase, MayFindBusy
      <4>2. JobOf(call) = "read"
        BY <2>0 DEF IsRead, JobOf
      <4> QED BY <4>1, <4>2 DEF SendSetup, Drives, CmdSetup
    <3>2. CASE s[at] # "setup"
      <4>1. out = "page" /\ s[at] # "status"
        BY <2>0, <2>1, <3>2 DEF ReadLanded
      <4>2. out' = out
        BY <1>5, <2>0, <3>2, <4>1, OutKept DEF Fetched
      <4> QED BY <4>1, <4>2
    <3> QED BY <3>1, <3>2
  <2>3. Passed("fetch")' => Idle' /\ seen'.data = array'[call'.row]
    <3>1. CASE s[at] = "fetch"
      <4>1. Fetch /\ Idle
        BY <1>5, <3>1, ActionAt, OutputWhenIdle DEF InPhase, Fetch
      <4>2. PICK i \in 1 .. Len(s) : s[i] = "confirm"
        BY <2>0 DEF Confirmed
      <4>3. i - 2 \in 1 .. Len(s) /\ s[i - 2] = "setup" /\ i < at /\ i - 2 < at
        BY <1>5, <2>0, <3>1, <4>2 DEF Ordered, Fetched
      <4>4. Passed("confirm") /\ Passed("setup")
        BY <4>2, <4>3 DEF Passed, Before, TypeOK
      <4>5. ~Passed("status")
        BY <1>5, <2>0, <3>1 DEF Passed, Before, Fetched, TypeOK
      <4>6. out = "page" /\ reg = array[call.row]
        BY <2>0, <4>1, <4>4, <4>5 DEF ReadLanded, Idle
      <4>7. seen'.data = reg /\ UNCHANGED targetVars
        BY <4>1, <4>6 DEF Fetch, TypeOK
      <4> QED BY <1>5, <4>1, <4>6, <4>7 DEF targetVars, Idle
    <3>2. CASE s[at] # "fetch" /\ Passed("fetch")
      <4>1. s[at] \in {"status", "sample"}
        <5>1. \E j \in 1 .. Len(s) : s[j] = "fetch" /\ j < at
          BY <1>5, <3>2 DEF Passed, Before, TypeOK
        <5> QED BY <1>5, <2>0, <5>1 DEF Fetched
      <4>2. UNCHANGED <<array, activity>>
        BY <1>5, <4>1, HarmlessStep DEF Harmless
      <4>3. seen'.data = seen.data
        BY <1>5, <4>1, ActionAt DEF InPhase, SendStatus, Drives, Sample, TypeOK
      <4> QED BY <1>5, <2>0, <3>2, <4>2, <4>3 DEF ReadLanded, Idle
    <3> QED BY <2>1, <3>1, <3>2
  <2> QED BY <2>2, <2>3
<1> QED BY <1>2, <1>3, <1>4, <1>5, StepKinds

-----------------------------------------------------------------------------
(* Writes. *)

LEMMA InitWrites == Init => WriteLanded /\ StatusSampled /\ Verdicts
  BY DEF Init, WriteLanded, StatusSampled, Verdicts, Passed, Before, InPhase,
     SuccessIsReal, ReadReturnsThePage, FailureIsReal

(* Only the three families that address the array ask for writes. *)
LEMMA WriteCallers ==
  ASSUME NEW c \in Calls, JobOf(c) \in Writes
  PROVE  c.api \in {"legacy", "device", "timed"} /\ c.kind # "read"
<1>1. c.kind \notin {"start", "device_init", "reset", "set_feature", "status", "read"}
  BY DEF JobOf, Writes
<1> QED BY <1>1, CallTypes DEF Kinds

(* At its confirm a write finds WP# released. *)
LEMMA ReleasedAtConfirm ==
  ASSUME TypeOK, Unmixed, CallsInSession, GuardHolds, WPReleased,
         JobOf(call) \in Writes, InPhase("confirm")
  PROVE  wp = 1
<1> DEFINE s == Phases(call)
<1>1. Ordered(s) /\ at \in 1 .. Len(s) /\ s[at] = "confirm" /\ at \in Nat
  BY PhaseShape, PhaseAt DEF TypeOK, Shape
<1>0. call.api \in {"legacy", "device", "timed"} /\ call.kind # "read"
  BY WriteCallers DEF TypeOK
<1>2. CASE call.api \in {"legacy", "timed"}
  <2>1. IsGuarded(call) /\ Guarded(s)
    BY <1>0, <1>2, PhaseShape DEF IsGuarded, TypeOK, Shape
  <2>2. 1 \in 1 .. at - 1 /\ Passed("enable")
    BY <1>1, <2>1 DEF Ordered, Guarded, Passed, Before
  <2>3. ~Passed("disable")
    BY <1>1, <2>1 DEF Guarded, Passed, Before, Ordered
  <2> QED BY <2>1, <2>2, <2>3 DEF GuardHolds
<1>3. CASE call.api = "device"
  <2>1. Apis \cap {"legacy", "timed"} = {}
    BY <1>3, CallTypes DEF TypeOK, Unmixed
  <2>2. session = "on"
    BY <1>1, <1>3 DEF CallsInSession, TypeOK
  <2> QED BY <2>1, <2>2 DEF WPReleased
<1> QED BY <1>0, <1>2, <1>3

LEMMA NextWriteLanded ==
  ASSUME Unmixed
  PROVE  TypeOK /\ BusyOnlyWhereExpected /\ CallsInSession /\ Announced /\ GuardHolds
           /\ WPReleased /\ WriteLanded /\ [Next]_vars => WriteLanded'
<1> SUFFICES ASSUME TypeOK, BusyOnlyWhereExpected, CallsInSession, Announced, GuardHolds,
                    WPReleased, WriteLanded, [Next]_vars,
                    IsWrite(call'), Passed("confirm")'
             PROVE  \/ /\ activity' = call'.kind /\ addr' = call'.row
                       /\ call'.kind = "program" => reg' = call'.data
                    \/ /\ Idle'
                       /\ IF srFail' THEN array'[call'.row] = "corrupt"
                          ELSE Write(call'.kind, call'.row, call'.data) \in applied'
  BY DEF WriteLanded, IsWrite, Write
<1>1. CASE Passed("confirm") /\ UNCHANGED <<array, activity, srFail, addr, reg, applied, call>>
  BY <1>1 DEF WriteLanded, Idle, IsWrite
<1>2. CASE Passed("confirm") /\ TargetStep /\ UNCHANGED call
  <2>1. ~Idle /\ ~rb /\ IsWrite(call) /\ call.row \in Row
    BY <1>2, RowTypes DEF TargetStep, TargetFalls, RbFalls, TargetCompletes, Completes,
       BusyOnlyWhereExpected, IsWrite
  <2>2. /\ activity = call.kind /\ addr = call.row /\ activity \in Writes
        /\ call.kind = "program" => reg = call.data
    BY <1>2, <2>1 DEF WriteLanded, IsWrite
  <2>3. PICK pass \in BOOLEAN : TargetCompletes(pass)
    BY <1>2, <2>1 DEF TargetStep, TargetFalls, RbFalls
  <2>4. Completes(pass) /\ srFail' = ~pass /\ activity' = "none"
    <3>1. Completes(pass)
      BY <2>3 DEF TargetCompletes
    <3>2. activity' = "none"
      BY <3>1 DEF Completes
    <3>3. srFail' = ~pass
      BY <2>2, <3>1 DEF Completes, Writes
    <3> QED BY <3>1, <3>2, <3>3
  <2>5. CASE pass
    <3>1. applied' = applied \cup {Write(activity, addr, reg)}
      BY <2>2, <2>3, <2>5 DEF TargetCompletes
    <3>2. Write(activity, addr, reg) = Write(call.kind, call.row, call.data)
      BY <2>2 DEF Write, Writes
    <3> QED BY <1>2, <2>4, <2>5, <3>1, <3>2 DEF Idle
  <2>6. CASE ~pass
    <3>1. call.row \in Touched
      BY <2>1, <2>2 DEF Touched, Writes
    <3>2. array'[call.row] = "corrupt"
      BY <2>1, <2>4, <2>6, <3>1 DEF Completes, Damaged
    <3> QED BY <1>2, <2>4, <2>6, <3>2 DEF Idle
  <2> QED BY <2>5, <2>6
<1>3. CASE /\ SendConfirm /\ Idle /\ call' = call /\ setup = JobOf(call)
           /\ InPhase("confirm") /\ addr = call.row
           /\ JobOf(call) = "program" => reg = call.data
  <2>1. IsWrite(call) /\ JobOf(call) = call.kind
    BY <1>3 DEF IsWrite, JobOf, Writes
  <2>2. wp = 1
    BY <1>3, <2>1, ReleasedAtConfirm DEF IsWrite
  <2>3. CmdConfirm(call.kind, wp)
    BY <1>3, <2>1 DEF SendConfirm, Drives
  <2>4. activity' = call.kind /\ addr' = addr /\ reg' = reg
    BY <1>3, <2>1, <2>2, <2>3 DEF CmdConfirm, Begin
  <2> QED BY <1>3, <2>1, <2>4
<1> QED BY <1>1, <1>2, <1>3, ConfirmPassed

LEMMA NextStatusSampled ==
  ASSUME PlainBus
  PROVE  TypeOK /\ BusyOnlyWhereExpected /\ StatusSampled /\ [Next]_vars => StatusSampled'
<1> SUFFICES ASSUME TypeOK, BusyOnlyWhereExpected, StatusSampled, [Next]_vars
             PROVE  StatusSampled'
  OBVIOUS
<1> DEFINE s == Phases(call)
<1>0. TypeOK' /\ Ordered(s) /\ Ordered(s')
  BY NextTypeOK, PhaseShape DEF TypeOK, Shape
<1>1. CASE at' \in {0, 1}
  <2>1. ~InPhase("sample")'
    BY <1>0, <1>1 DEF InPhase, Ordered
  <2> QED BY <1>1, <2>1, NonePassed DEF StatusSampled
<1>2. CASE UNCHANGED vars
  BY <1>2 DEF vars, targetVars, hostVars, Passed, Before, StatusSampled, InPhase, Idle,
     IsWrite
<1>3. CASE TargetStep /\ UNCHANGED <<call, at, seen>>
  <2>1. ~Idle /\ out' = out
    BY <1>3 DEF TargetStep, TargetFalls, RbFalls, TargetCompletes, Completes
  <2> QED BY <1>3, <2>1 DEF StatusSampled, Passed, Before, IsWrite, InPhase
<1>4. CASE /\ HostStep /\ at \in 1 .. Len(s) /\ call' = call
           /\ \/ Proceed /\ at' = at + 1
              \/ BusyMissed /\ at' = at + 2 /\ s[at] = "assert" /\ s[at + 1] = "release"
  <2>1. InPhase("sample")' => out' = "status"
    <3> SUFFICES ASSUME InPhase("sample")' PROVE out' = "status"
      OBVIOUS
    <3>1. InPhase("status")
      BY <1>0, <1>4 DEF InPhase, Ordered, TypeOK
    <3> QED BY <1>4, <3>1, ActionAt DEF SendStatus, Drives, CmdStatus
  <2>2. IsWrite(call) /\ Passed("sample")' => Idle' /\ seen'.pass = ~srFail'
    <3> SUFFICES ASSUME IsWrite(call), Passed("sample")'
                 PROVE  Idle' /\ seen'.pass = ~srFail'
      OBVIOUS
    <3>1. Passed("sample")' <=> Passed("sample") \/ s[at] = "sample"
      BY <1>4, PassedNext
    <3>2. CASE s[at] = "sample"
      <4>1. InPhase("sample") /\ Sample /\ Idle /\ out = "status"
        BY <1>4, <3>2, ActionAt, OutputWhenIdle DEF InPhase, Sample, StatusSampled
      <4>2. seen' = [seen EXCEPT !.ready = Idle, !.pass = ~srFail] /\ UNCHANGED targetVars
        BY <4>1 DEF Sample
      <4> QED BY <4>1, <4>2 DEF TypeOK, targetVars, Idle
    <3>3. CASE Passed("sample") /\ s[at] # "sample"
      <4>1. \E j \in 1 .. Len(s) : s[j] = "sample" /\ j < at
        BY <1>4, <3>3 DEF Passed, Before, TypeOK
      <4>2. s[at] = "disable"
        BY <1>4, <4>1, PhaseShape DEF TypeOK, Shape, Sampled
      <4>3. UNCHANGED <<activity, srFail>>
        BY <1>4, <4>2, HarmlessStep DEF Harmless
      <4>4. DisableErase
        BY <1>4, <4>2 DEF HostStep, InPhase, MarkEnabled, PinsInactive, EnableErase, SendSetup,
           Load, SendConfirm, SendStatus, SendReset, SendIdentify, SendFeature, Sample, Fetch,
           AwaitReady, GuardPasses, GuardThrows, BusySeen, BusyMissed, ReadySeen,
           ReadyTimesOut, Return
      <4>5. seen' = seen
        BY <4>4 DEF DisableErase
      <4> QED BY <3>3, <4>3, <4>5 DEF StatusSampled, Idle
    <3> QED BY <3>1, <3>2, <3>3
  <2> QED BY <1>4, <2>1, <2>2 DEF StatusSampled, IsWrite
<1> QED BY <1>1, <1>2, <1>3, <1>4, StepKinds

-----------------------------------------------------------------------------
(* What calls report. *)

(* A call that has come to its end has passed all its phases.              *)
LEMMA EndPassed ==
  ASSUME TypeOK, at > Len(Phases(call)), NEW p,
         \E i \in 1 .. Len(Phases(call)) : Phases(call)[i] = p
  PROVE  Passed(p)
<1>1. at \in Nat /\ Len(Phases(call)) \in Nat
  BY PhaseShape DEF TypeOK, Shape, Ordered
<1> QED BY <1>1 DEF Passed, Before

LEMMA ReturnReports ==
  ASSUME TypeOK, ReadLanded, WriteLanded, StatusSampled, Return
  PROVE  (SuccessIsReal /\ ReadReturnsThePage /\ FailureIsReal)'
<1> UNCHANGED <<array, activity, call, seen, applied>> /\ verdict' = Report
  BY DEF Return, targetVars
<1> at > Len(Phases(call)) /\ Shape(call) /\ call \in Calls
  BY PhaseShape DEF Return, TypeOK
<1>1. IsWrite(call) =>
        IF seen.pass THEN Write(call.kind, call.row, call.data) \in applied
                     ELSE array[call.row] = "corrupt"
  <2> SUFFICES ASSUME IsWrite(call)
               PROVE  IF seen.pass THEN Write(call.kind, call.row, call.data) \in applied
                                   ELSE array[call.row] = "corrupt"
    OBVIOUS
  <2>1. Passed("sample") /\ Passed("confirm")
    BY EndPassed DEF Shape, Confirmed, Sampled
  <2>2. Idle /\ seen.pass = ~srFail
    BY <2>1 DEF StatusSampled
  <2>3. activity # call.kind
    BY <2>2 DEF Idle, IsWrite, Writes
  <2> QED BY <2>1, <2>2, <2>3 DEF WriteLanded
<1>2. IsRead(call) => seen.data = array[call.row]
  BY EndPassed DEF Shape, Fetched, ReadLanded
<1>3. verdict' = "success" /\ call.kind \in Writes => IsWrite(call) /\ seen.pass
  BY DEF Report, TimedSucceeded, IsWrite, Writes
<1>4. verdict' = "failure" /\ call.api = "device" => IsWrite(call) /\ ~seen.pass
  BY DEF Report, TimedSucceeded, IsWrite, Writes
<1>5. SuccessIsReal'
  BY <1>1, <1>3 DEF SuccessIsReal, Write
<1>6. ReadReturnsThePage'
  BY <1>2 DEF ReadReturnsThePage, IsRead
<1>7. FailureIsReal'
  BY <1>1, <1>4 DEF FailureIsReal
<1> QED BY <1>5, <1>6, <1>7

LEMMA NextVerdicts ==
  TypeOK /\ BusyOnlyWhereExpected /\ CallsInSession /\ ReadLanded /\ WriteLanded
    /\ StatusSampled /\ Verdicts /\ [Next]_vars => Verdicts'
<1> SUFFICES ASSUME TypeOK, BusyOnlyWhereExpected, CallsInSession, ReadLanded, WriteLanded,
                    StatusSampled, Verdicts, [Next]_vars, at' = 0
             PROVE  (SuccessIsReal /\ ReadReturnsThePage /\ FailureIsReal)'
  BY DEF Verdicts
<1> USE DEF SuccessIsReal, ReadReturnsThePage, FailureIsReal
<1>1. CASE Return
  BY <1>1, ReturnReports
<1>2. CASE ProcessEnds \/ GuardThrows
  BY <1>2 DEF ProcessEnds, GuardThrows
<1>3. CASE TargetStep
  <2>1. at = 0 /\ ~Idle /\ verdict' = verdict
    BY <1>3 DEF TargetStep, TargetFalls, RbFalls, TargetCompletes, Completes, hostVars
  <2>2. verdict \in {"none", "thrown"}
    BY <2>1 DEF BusyOnlyWhereExpected, CallsInSession
  <2> QED BY <2>1, <2>2
<1>4. CASE UNCHANGED vars
  BY <1>4 DEF vars, targetVars, hostVars, Verdicts, Write
<1> QED BY <1>1, <1>2, <1>3, <1>4, StepKinds DEF TypeOK, Invoke

-----------------------------------------------------------------------------
(* The invariant, and what it gives. *)

(* On a plain bus the phase a call has reached determines the package: it is at
   work only where the functions of onfi_interface, NandDevice and onfi::timed
   wait or look, R/B# shows it, WP# is high under every write, and after a
   confirm command the status and the cells are those of this operation. *)
THEOREM InvHolds ==
  ASSUME PlainBus
  PROVE  Spec => []Inv
<1>1. Init => Inv
  BY InitTypeOK, InitBusy, InitGuard, InitAnnounced, InitWP, InitReadLanded, InitWrites
     DEF Inv, ReadLanded
<1>2. Inv /\ [Next]_vars => Inv'
  <2> SUFFICES ASSUME Inv, [Next]_vars PROVE Inv'
    OBVIOUS
  <2>1. TypeOK' /\ BusyOnlyWhereExpected' /\ CallsInSession' /\ GuardHolds' /\ Announced'
        /\ WPReleased' /\ ReadLanded'
    BY NextTypeOK, NextBusy, NextCallsInSession, NextGuard, NextAnnounced, NextWP,
       NextReadLanded DEF Inv
  <2>2. Unmixed => WriteLanded' /\ StatusSampled' /\ Verdicts'
    BY NextWriteLanded, NextStatusSampled, NextVerdicts DEF Inv
  <2> QED BY <2>1, <2>2 DEF Inv, Unmixed
<1> QED BY <1>1, <1>2, PTL DEF Spec

LEMMA InvGives ==
  ASSUME Unmixed, Inv
  PROVE  SuccessIsReal /\ ReadReturnsThePage /\ FailureIsReal
  BY DEF Inv, Verdicts, CallsInSession, SuccessIsReal, ReadReturnsThePage, FailureIsReal

(* SuccessIsReal: as long as erase-block and program-page keep away from   *)
(* sessions that use the guarded functions, every success of erase-block,  *)
(* program-page, the measure-* commands and the Lua functions stands for   *)
(* the write it names.                                                     *)
THEOREM SuccessfulWritesTookPlace ==
  ASSUME PlainBus, Unmixed
  PROVE  Spec => []SuccessIsReal
<1>1. Inv => SuccessIsReal
  BY InvGives
<1> QED BY <1>1, InvHolds, PTL

(* ReadReturnsThePage in the same sessions. *)
THEOREM ReadsReturnThePage ==
  ASSUME PlainBus, Unmixed
  PROVE  Spec => []ReadReturnsThePage
<1>1. Inv => ReadReturnsThePage
  BY InvGives
<1> QED BY <1>1, InvHolds, PTL

(* FailureIsReal in the same sessions. *)
THEOREM FailuresTookPlace ==
  ASSUME PlainBus, Unmixed
  PROVE  Spec => []FailureIsReal
<1>1. Inv => FailureIsReal
  BY InvGives
<1> QED BY <1>1, InvHolds, PTL

-----------------------------------------------------------------------------
(* A line that falls late.  The phases of the sessions of LateBus. *)

TimedWrite(c) == c.api = "timed" /\ c.kind \in Writes
TimedRead(c)  == c.api = "timed" /\ c.kind = "read"

Plain == {"mark_enabled", "pins", "await", "reset", "identify", "feature", "status", "sample"}

LateShape(c) ==
  LET s == Phases(c) IN
  /\ c.api # "timed" => \A i \in 1 .. Len(s) : s[i] \in Plain
  /\ c.api = "timed" => TimedWrite(c) \/ TimedRead(c)
  /\ TimedWrite(c) =>
       /\ Len(s) = 10 /\ s[1] = "enable" /\ s[2] = "guard" /\ s[3] = "setup" /\ s[4] = "load"
       /\ s[5] = "confirm" /\ s[6] = "assert" /\ s[7] = "release" /\ s[8] = "status"
       /\ s[9] = "sample" /\ s[10] = "disable"
  /\ TimedRead(c) =>
       /\ Len(s) = 9 /\ s[1] = "guard" /\ s[2] = "setup" /\ s[3] = "load" /\ s[4] = "confirm"
       /\ s[5] = "assert" /\ s[6] = "release" /\ s[7] = "fetch" /\ s[8] = "status"
       /\ s[9] = "sample"

LEMMA LatePhases ==
  ASSUME LateBus, NEW c \in Calls
  PROVE  LateShape(c)
<1>1. c.api \in {"start", "driver", "timed", "raw"}
  BY CallTypes DEF LateBus
<1>2. CASE c.api = "timed"
  <2>1. c.kind \in {"erase", "program", "read"}
    BY <1>2, CallTypes DEF Kinds
  <2>2. Phases(c) = TimedPhases(c.kind)
    BY <1>2 DEF Phases
  <2>3. CASE c.kind = "erase"
    BY <1>2, <2>2, <2>3 DEF TimedPhases, TimedEraseBlock, LateShape, TimedWrite, TimedRead, Writes
  <2>4. CASE c.kind = "program"
    BY <1>2, <2>2, <2>4 DEF TimedPhases, TimedProgramPage, LateShape, TimedWrite, TimedRead, Writes
  <2>5. CASE c.kind = "read"
    BY <1>2, <2>2, <2>5 DEF TimedPhases, TimedReadPage, LateShape, TimedWrite, TimedRead, Writes
  <2> QED  BY <2>1, <2>3, <2>4, <2>5
<1>3. CASE c.api = "start"
  <2>1. Phases(c) = GetStarted
    BY <1>3, CallTypes DEF Kinds, Phases, DriverPhases
  <2> QED  BY <1>3, <2>1 DEF GetStarted, LateShape, TimedWrite, TimedRead, Plain
<1>4. CASE c.api = "raw"
  BY <1>4 DEF Phases, RawReset, LateShape, TimedWrite, TimedRead, Plain
<1>5. CASE c.api = "driver"
  <2>1. c.kind \in {"device_init", "reset", "set_feature", "status"}
    BY <1>5, CallTypes DEF Kinds
  <2>2. Phases(c) = DriverPhases(c.kind)
    BY <1>5 DEF Phases
  <2>3. \A i \in 1 .. Len(Phases(c)) : Phases(c)[i] \in Plain
    BY <2>1, <2>2 DEF DriverPhases, DeviceInitialization, ResetDevice, SetFeatures, GetStatus, Plain
  <2> QED  BY <1>5, <2>3 DEF LateShape, TimedWrite, TimedRead
<1> QED  BY <1>1, <1>2, <1>3, <1>4, <1>5

(* Only one action fits a phase. *)
LEMMA OneAction ==
  ASSUME TypeOK, HostStep, NEW p, InPhase(p)
  PROVE  /\ p = "enable" => EnableErase
         /\ p = "disable" => DisableErase
         /\ p = "guard" => GuardPasses \/ GuardThrows
         /\ p = "setup" => SendSetup
         /\ p = "load" => Load
         /\ p = "confirm" => SendConfirm
         /\ p = "assert" => BusySeen \/ BusyMissed
         /\ p = "release" => ReadySeen \/ ReadyTimesOut
         /\ p = "status" => SendStatus
         /\ p = "sample" => Sample
         /\ p = "fetch" => Fetch
         /\ p = "reset" => SendReset
         /\ p \in {"identify", "feature"} => SendIdentify \/ SendFeature
         /\ ~Return
<1>1. \A q : InPhase(q) => q = p
  BY DEF InPhase
<1>2. ~Return
  BY DEF InPhase, Return, TypeOK
<1>3. /\ MarkEnabled => InPhase("mark_enabled")
      /\ PinsInactive => InPhase("pins")
      /\ EnableErase => InPhase("enable")
      /\ DisableErase => InPhase("disable")
      /\ SendSetup => InPhase("setup")
      /\ Load => InPhase("load")
      /\ SendConfirm => InPhase("confirm")
      /\ SendStatus => InPhase("status")
      /\ SendReset => InPhase("reset")
      /\ SendIdentify => InPhase("identify")
      /\ SendFeature => InPhase("feature")
  BY DEF MarkEnabled, PinsInactive, EnableErase, DisableErase, SendSetup, Load, SendConfirm,
     SendStatus, SendReset, SendIdentify, SendFeature
<1>4. /\ Sample => InPhase("sample")
      /\ Fetch => InPhase("fetch")
      /\ AwaitReady => InPhase("await")
      /\ GuardPasses \/ GuardThrows => InPhase("guard")
      /\ BusySeen \/ BusyMissed => InPhase("assert")
      /\ ReadySeen \/ ReadyTimesOut => InPhase("release")
  BY DEF Sample, Fetch, AwaitReady, GuardPasses, GuardThrows, BusySeen, BusyMissed, ReadySeen,
     ReadyTimesOut
<1> QED  BY <1>1, <1>2, <1>3, <1>4 DEF HostStep

(* The step of a timed function, by its place. *)
LEMMA WriteSteps ==
  ASSUME LateBus, TypeOK, HostStep, TimedWrite(call)
  PROVE  \/ at = 1 /\ EnableErase
         \/ at = 2 /\ (GuardPasses \/ GuardThrows)
         \/ at = 3 /\ SendSetup
         \/ at = 4 /\ Load
         \/ at = 5 /\ SendConfirm
         \/ at = 6 /\ (BusySeen \/ BusyMissed)
         \/ at = 7 /\ (ReadySeen \/ ReadyTimesOut)
         \/ at = 8 /\ SendStatus
         \/ at = 9 /\ Sample
         \/ at = 10 /\ DisableErase
         \/ Return
<1>1. LateShape(call) /\ call \in Calls
  BY LatePhases DEF TypeOK
<1>2. Return \/ at \in 1 .. Len(Phases(call))
  BY HostMoves, PhaseAt DEF GuardThrows, BusyMissed, InPhase
<1>3. CASE at \in 1 .. Len(Phases(call))
  <2>1. InPhase(Phases(call)[at])
    BY <1>3 DEF InPhase
  <2>2. /\ at \in 1 .. 10
        /\ at = 1 => Phases(call)[at] = "enable"
        /\ at = 2 => Phases(call)[at] = "guard" 
        /\ at = 3 => Phases(call)[at] = "setup"
        /\ at = 4 => Phases(call)[at] = "load"
        /\ at = 5 => Phases(call)[at] = "confirm"
        /\ at = 6 => Phases(call)[at] = "assert"
        /\ at = 7 => Phases(call)[at] = "release"
        /\ at = 8 => Phases(call)[at] = "status"
        /\ at = 9 => Phases(call)[at] = "sample"
        /\ at = 10 => Phases(call)[at] = "disable"
    BY <1>1, <1>3 DEF LateShape
  <2> QED  BY <2>1, <2>2, OneAction
<1> QED  BY <1>2, <1>3

LEMMA ReadSteps ==
  ASSUME LateBus, TypeOK, HostStep, TimedRead(call)
  PROVE  \/ at = 1 /\ (GuardPasses \/ GuardThrows)
         \/ at = 2 /\ SendSetup
         \/ at = 3 /\ Load
         \/ at = 4 /\ SendConfirm
         \/ at = 5 /\ (BusySeen \/ BusyMissed)
         \/ at = 6 /\ (ReadySeen \/ ReadyTimesOut)
         \/ at = 7 /\ Fetch
         \/ at = 8 /\ SendStatus
         \/ at = 9 /\ Sample
         \/ Return
<1>1. LateShape(call) /\ call \in Calls
  BY LatePhases DEF TypeOK
<1>2. Return \/ at \in 1 .. Len(Phases(call))
  BY HostMoves, PhaseAt DEF GuardThrows, BusyMissed, InPhase
<1>3. CASE at \in 1 .. Len(Phases(call))
  <2>1. InPhase(Phases(call)[at])
    BY <1>3 DEF InPhase
  <2>2. /\ at \in 1 .. 9
        /\ at = 1 => Phases(call)[at] = "guard"
        /\ at = 2 => Phases(call)[at] = "setup"
        /\ at = 3 => Phases(call)[at] = "load"
        /\ at = 4 => Phases(call)[at] = "confirm"
        /\ at = 5 => Phases(call)[at] = "assert"
        /\ at = 6 => Phases(call)[at] = "release"
        /\ at = 7 => Phases(call)[at] = "fetch"
        /\ at = 8 => Phases(call)[at] = "status"
        /\ at = 9 => Phases(call)[at] = "sample"
    BY <1>1, <1>3 DEF LateShape
  <2> QED  BY <2>1, <2>2, OneAction
<1> QED  BY <1>2, <1>3

-----------------------------------------------------------------------------
(* Where work may hide behind a high R/B#. *)

LEMMA ConfirmFifth ==
  ASSUME NEW c, LateShape(c), TimedWrite(c), NEW i \in 1 .. Len(Phases(c)),
         Phases(c)[i] = "confirm"
  PROVE  i = 5
<1>1. i \in 1 .. 10
  BY DEF LateShape
<1>2. i = 1 \/ i = 2 \/ i = 3 \/ i = 4 \/ i = 5 \/ i = 6 \/ i = 7 \/ i = 8 \/ i = 9 \/ i = 10
  BY <1>1
<1> QED  BY <1>2 DEF LateShape

LEMMA ConfirmFourth ==
  ASSUME NEW c, LateShape(c), TimedRead(c), NEW i \in 1 .. Len(Phases(c)),
         Phases(c)[i] = "confirm"
  PROVE  i = 4
<1>1. i \in 1 .. 9
  BY DEF LateShape
<1>2. i = 1 \/ i = 2 \/ i = 3 \/ i = 4 \/ i = 5 \/ i = 6 \/ i = 7 \/ i = 8 \/ i = 9
  BY <1>1
<1> QED  BY <1>2 DEF LateShape

LEMMA ConfirmThenAssert ==
  ASSUME NEW c, LateShape(c), NEW i \in 1 .. Len(Phases(c)), Phases(c)[i] = "confirm"
  PROVE  i + 1 \in 1 .. Len(Phases(c)) /\ Phases(c)[i + 1] = "assert"
<1>1. TimedWrite(c) \/ TimedRead(c)
  BY DEF LateShape, Plain
<1>2. CASE TimedWrite(c)
  <2>3. i = 5
    BY <1>2, ConfirmFifth
  <2>4. i + 1 = 6
    BY <2>3
  <2>5. Len(Phases(c)) = 10 /\ Phases(c)[6] = "assert"
    BY <1>2 DEF LateShape
  <2> QED  BY <2>4, <2>5
<1>3. CASE TimedRead(c)
  <2>3. i = 4
    BY <1>3, ConfirmFourth
  <2>4. i + 1 = 5
    BY <2>3
  <2>5. Len(Phases(c)) = 9 /\ Phases(c)[5] = "assert"
    BY <1>3 DEF LateShape
  <2> QED  BY <2>4, <2>5
<1> QED  BY <1>1, <1>2, <1>3

LEMMA StartResets ==
  ASSUME TypeOK, call.api = "start", at > Len(Phases(call))
  PROVE  Passed("reset")
<1>1. Phases(call) = GetStarted
  BY CallTypes DEF Kinds, Phases, DriverPhases, TypeOK
<1>2. Len(Phases(call)) = 11 /\ Phases(call)[4] = "reset"
  BY <1>1 DEF GetStarted
<1>3. at \in Nat
  BY <1>2 DEF TypeOK
<1>4. 4 \in 1 .. at - 1
  BY <1>2, <1>3
<1> QED  BY <1>2, <1>4 DEF Passed, Before

LEMMA NextHidden ==
  ASSUME LateBus, TypeOK, WorkIsHidden, CallsInSession, [Next]_vars
  PROVE  WorkIsHidden'
<1>1. CASE Invoke
  <2>1. Idle' = Idle /\ rb' = rb /\ at = 0 /\ at' = 1 /\ ~Passed("reset")'
    BY <1>1, NonePassed DEF Invoke, targetVars, Idle
  <2>2. session = "off" => call'.api = "start"
    BY <1>1 DEF Invoke
  <2>3. session # "off" => ~(~Idle /\ rb)
    BY <2>1 DEF WorkIsHidden, InPhase
  <2> QED  BY <2>1, <2>2, <2>3 DEF WorkIsHidden
<1>2. CASE ProcessEnds
  BY <1>2 DEF ProcessEnds, WorkIsHidden
<1>3. CASE GuardThrows
  BY <1>3 DEF GuardThrows, WorkIsHidden, targetVars
<1>4. CASE BusyMissed
  BY <1>4 DEF BusyMissed, WorkIsHidden, targetVars, Idle
<1>5. CASE Return
  <2>1. ~InPhase("assert") /\ at # 0 /\ at \in Nat
    BY <1>5, PhaseShape DEF InPhase, Return, TypeOK, Shape, Ordered
  <2>2. call.api = "start" => Passed("reset")
    BY <1>5, StartResets DEF Return
  <2>3. Idle \/ ~rb
    BY <2>1, <2>2 DEF WorkIsHidden
  <2> QED  BY <1>5, <2>3 DEF WorkIsHidden, Return, targetVars, Idle
<1>6. CASE HostStep /\ ~Return /\ ~GuardThrows /\ ~BusyMissed
  <2> DEFINE p == Phases(call)[at]
  <2>1. Proceed /\ at \in 1 .. Len(Phases(call)) /\ InPhase(p) /\ at' = at + 1 /\ call' = call
    BY <1>6, HostMoves DEF InPhase, Proceed
  <2>2. Passed("reset")' <=> Passed("reset") \/ p = "reset"
    BY <2>1, PassedNext
  <2>3. LateShape(call)
    BY LatePhases DEF TypeOK
  <2> HIDE DEF p
  <2>4. CASE p = "confirm"
    <3>1. InPhase("assert")'
      <4>1. /\ Phases(call)[at + 1] = "assert"
            /\ at + 1 \in 1 .. Len(Phases(call))
        BY <2>1, <2>3, <2>4, ConfirmThenAssert DEF p
      <4> QED  BY <2>1, <4>1 DEF InPhase
    <3> QED  BY <3>1 DEF WorkIsHidden
  <2>5. CASE p = "reset"
    <3>1. ~rb'
      <4>1. CmdReset
        BY <1>6, <2>1, <2>5, OneAction DEF SendReset, Drives
      <4>2. "reset" \notin LateBusy
        BY DEF LateBus, Writes
      <4> QED  BY <4>1, <4>2, Zenon DEF CmdReset, Begin
    <3> QED  BY <3>1 DEF WorkIsHidden
  <2>6. CASE p \in {"identify", "feature"}
    <3>1. SendIdentify \/ SendFeature
      BY <1>6, <2>1, <2>6, OneAction
    <3>2. ~rb' \/ UNCHANGED <<activity, rb>>
      <4>1. PICK job \in {"identify", "feature"} : CmdQuery(job)
        BY <3>1 DEF SendIdentify, SendFeature, Drives
      <4>2. job \notin LateBusy
        BY DEF LateBus, Writes
      <4>3. Begin(job) \/ UNCHANGED targetVars
        BY <4>1, Zenon DEF CmdQuery
      <4>4. Begin(job) => ~rb'
        BY <4>2, Zenon DEF Begin
      <4> QED  BY <4>3, <4>4 DEF targetVars
    <3>3. CASE UNCHANGED <<activity, rb>>
      BY <2>1, <2>2, <2>6, <3>3 DEF WorkIsHidden, Idle, InPhase, p, TypeOK
    <3> QED  BY <3>2, <3>3 DEF WorkIsHidden
  <2>7. CASE p \notin {"confirm", "reset", "identify", "feature"}
    <3>1. UNCHANGED <<activity, rb>>
      <4>1. ~SendConfirm /\ ~SendReset /\ ~SendIdentify /\ ~SendFeature
        BY <2>7 DEF SendConfirm, SendReset, SendIdentify, SendFeature, InPhase, p
      <4>2. CASE \/ MarkEnabled \/ PinsInactive \/ EnableErase \/ DisableErase \/ Sample
                 \/ Fetch \/ BusySeen \/ ReadyTimesOut
        BY <4>2 DEF MarkEnabled, PinsInactive, EnableErase, DisableErase, Sample, Fetch,
           BusySeen, ReadyTimesOut, targetVars
      <4>3. CASE AwaitReady \/ GuardPasses \/ ReadySeen
        BY <4>3 DEF AwaitReady, GuardPasses, ReadySeen, Drives, targetVars
      <4>4. CASE SendSetup \/ Load \/ SendStatus
        BY <4>4 DEF SendSetup, Load, SendStatus, Drives, CmdSetup, LatchRow, LatchRowAndData,
           CmdStatus, targetVars
      <4> QED  BY <1>6, <4>1, <4>2, <4>3, <4>4 DEF HostStep
    <3>2. InPhase("assert") => ~rb
      BY <1>6, OneAction DEF BusySeen
    <3> QED  BY <2>1, <2>2, <2>7, <3>1, <3>2 DEF WorkIsHidden, Idle, TypeOK
  <2> QED  BY <2>4, <2>5, <2>6, <2>7
<1>7. CASE TargetStep
  BY <1>7 DEF TargetStep, TargetFalls, TargetCompletes, RbFalls, Completes, WorkIsHidden, Idle
<1>8. CASE UNCHANGED vars
  BY <1>8 DEF vars, targetVars, hostVars, WorkIsHidden, Idle, InPhase, Passed, Before
<1> QED  BY <1>1, <1>2, <1>3, <1>4, <1>5, <1>6, <1>7, <1>8 DEF Next

LEMMA ShownWork ==
  ASSUME TypeOK, WorkIsHidden, call.api = "timed", at # 0, ~InPhase("assert"), rb
  PROVE  Idle
  BY DEF WorkIsHidden

(* A write under way sees no step that lowers WP#, wherever its line is. *)
LEMMA LateWPKept ==
  ASSUME LateBus, TypeOK, WorkIsHidden, TimedWriteRuns, activity \in Writes => wp = 1,
         [Next]_vars, activity \in Writes
  PROVE  wp' = wp
<1>1. ~Idle /\ wp = 1
  BY DEF Idle, Writes
<1>2. CASE HostStep /\ ~Return /\ ~GuardThrows /\ ~BusyMissed
  <2>1. /\ at \in 1 .. Len(Phases(call)) /\ InPhase(Phases(call)[at])
        /\ wp' = IF Phases(call)[at] \in {"pins", "enable"} THEN 1
                 ELSE IF Phases(call)[at] = "disable" THEN 0 ELSE wp
    BY <1>2, HostMoves DEF InPhase
  <2>2. ASSUME Phases(call)[at] = "disable" PROVE FALSE
    <3>1. DisableErase
      BY <1>2, <2>1, <2>2, OneAction
    <3>2. LateShape(call)
      BY LatePhases DEF TypeOK
    <3>3. TimedWrite(call)
      <4>1. call.api = "timed"
        BY <2>1, <2>2, <3>2 DEF LateShape, Plain
      <4>2. ~TimedRead(call)
        <5>1. SUFFICES ASSUME TimedRead(call) PROVE FALSE
          OBVIOUS
        <5>2. at \in 1 .. 9
          BY <2>1, <3>2, <5>1 DEF LateShape
        <5>3. at = 1 \/ at = 2 \/ at = 3 \/ at = 4 \/ at = 5 \/ at = 6 \/ at = 7 \/ at = 8
            \/ at = 9
          BY <5>2
        <5> QED  BY <2>2, <3>2, <5>1, <5>3 DEF LateShape
      <4> QED  BY <3>2, <4>1, <4>2 DEF LateShape
    <3>4. at = 10
      <4>1. at \in 1 .. 10
        BY <2>1, <3>2, <3>3 DEF LateShape
      <4>2. at = 1 \/ at = 2 \/ at = 3 \/ at = 4 \/ at = 5 \/ at = 6 \/ at = 7 \/ at = 8
            \/ at = 9 \/ at = 10
        BY <4>1
      <4> QED  BY <2>2, <3>2, <3>3, <4>2 DEF LateShape
    <3>5. enabled
      BY <3>3, <3>4 DEF TimedWriteRuns, TimedWrite
    <3>6. rb
      BY <3>1, <3>5 DEF DisableErase
    <3>7. ~InPhase("assert") /\ at # 0
      BY <2>2, <3>4 DEF InPhase
    <3> QED  BY <1>1, <3>3, <3>6, <3>7, ShownWork DEF TimedWrite
  <2> QED  BY <1>1, <2>1, <2>2
<1>3. CASE ~HostStep \/ Return \/ GuardThrows \/ BusyMissed
  BY <1>3 DEF Next, Return, GuardThrows, BusyMissed, Invoke, ProcessEnds, TargetStep,
     TargetFalls, TargetCompletes, vars, hostVars
<1> QED  BY <1>2, <1>3

LEMMA NextLateWP ==
  ASSUME LateBus, TypeOK, WorkIsHidden, TimedWriteRuns, activity \in Writes => wp = 1,
         [Next]_vars, activity' \in Writes
  PROVE  wp' = 1
<1>1. CASE activity \in Writes
  BY <1>1, LateWPKept
<1>2. CASE activity \notin Writes
  <2>1. HostStep
    BY <1>2 DEF Next, Invoke, ProcessEnds, TargetStep, TargetFalls, RbFalls,
       TargetCompletes, Completes, vars, targetVars, Writes
  <2> QED  BY <1>2, <2>1, WriteBegins
<1> QED  BY <1>1, <1>2

-----------------------------------------------------------------------------
(* A timed erase or program. *)

Landed ==
  \/ /\ activity = call.kind /\ addr = call.row
     /\ call.kind = "program" => reg = call.data
  \/ /\ Idle
     /\ IF srFail THEN array[call.row] = "corrupt"
                  ELSE Write(call.kind, call.row, call.data) \in applied

LEMMA LandedIs ==
  ASSUME LateBus, TypeOK, TimedWrite(call)
  PROVE  at > 5 => (WriteLanded <=> Landed)
<1>1. SUFFICES ASSUME at > 5 PROVE Passed("confirm") /\ IsWrite(call)
  BY DEF WriteLanded, Landed
<1>2. LateShape(call) /\ at \in Nat
  BY LatePhases, PhaseShape DEF TypeOK, Shape, Ordered
<1>3. Phases(call)[5] = "confirm" /\ 5 \in 1 .. at - 1
  BY <1>1, <1>2 DEF LateShape
<1> QED  BY <1>3 DEF Passed, Before, IsWrite, TimedWrite

LEMMA TargetEnds ==
  ASSUME LateBus, TypeOK, TimedWrite(call), Landed, TargetStep
  PROVE  Landed'
<1>1. call' = call
  BY DEF TargetStep, TargetFalls, TargetCompletes, hostVars
<1>2. CASE TargetFalls
  BY <1>1, <1>2 DEF TargetFalls, RbFalls, hostVars, Landed, Idle
<1>3. ASSUME NEW pass \in BOOLEAN, TargetCompletes(pass) PROVE Landed'
  <2>1. /\ activity = call.kind /\ addr = call.row /\ (call.kind = "program" => reg = call.data)
        /\ activity \in Writes /\ call.kind \in {"erase", "program"} /\ call.row \in Row
    BY <1>3, CallTypes DEF TargetCompletes, Completes, Landed, TimedWrite, Writes, TypeOK
  <2>2. Idle' /\ Completes(pass)
    BY <1>3 DEF TargetCompletes, Completes, Idle
  <2>3. CASE pass
    <3>1. ~srFail'
      BY <2>1, <2>2, <2>3 DEF Completes
    <3>2. Write(activity, addr, reg) = Write(call.kind, call.row, call.data)
      BY <2>1 DEF Write
    <3>3. applied' = applied \cup {Write(activity, addr, reg)}
      BY <1>3, <2>1, <2>3 DEF TargetCompletes
    <3> QED  BY <1>1, <2>2, <3>1, <3>2, <3>3 DEF Landed, Write
  <2>4. CASE ~pass
    <3>1. call.row \in Touched
      BY <2>1, CallTypes DEF Touched, TypeOK
    <3>2. array'[call.row] = "corrupt"
      BY <2>1, <2>2, <2>4, <3>1 DEF Completes, Damaged
    <3>3. srFail'
      BY <2>1, <2>2, <2>4 DEF Completes
    <3> QED  BY <1>1, <2>2, <3>2, <3>3 DEF Landed
  <2> QED  BY <2>3, <2>4
<1> QED  BY <1>2, <1>3 DEF TargetStep

LEMMA NextTimedWrite ==
  ASSUME LateBus, TypeOK, WorkIsHidden, TimedWriteRuns, [Next]_vars
  PROVE  TimedWriteRuns'
<1>0. TypeOK'
  BY NextTypeOK
<1>1. CASE at' \in {0, 1}
  BY <1>1 DEF TimedWriteRuns
<1>2. CASE ~TimedWrite(call')
  BY <1>2 DEF TimedWriteRuns, TimedWrite
<1>3. CASE TimedWrite(call') /\ TargetStep /\ UNCHANGED <<call, at, seen, verdict, session, wp>>
  <2>1. TimedWrite(call) /\ ~Idle /\ UNCHANGED <<enabled, out, setup>> /\ at \in Nat
    <3>1. CASE TargetFalls
      BY <1>3, <3>1 DEF TargetFalls, RbFalls, hostVars, TypeOK
    <3>2. ASSUME NEW pass \in BOOLEAN, TargetCompletes(pass)
          PROVE  ~Idle /\ UNCHANGED <<enabled, out, setup>>
      BY <3>2 DEF TargetCompletes, Completes
    <3>3. TimedWrite(call) /\ at \in Nat
      BY <1>3 DEF TypeOK
    <3> QED  BY <1>3, <3>1, <3>2, <3>3 DEF TargetStep
  <2>2. at' > 5 => WriteLanded'
    <3>1. SUFFICES ASSUME at > 5 PROVE WriteLanded'
      BY <1>3
    <3>2. Landed
      BY <2>1, <3>1, LandedIs DEF TimedWriteRuns, TimedWrite
    <3>3. Landed'
      BY <1>3, <2>1, <3>2, TargetEnds
    <3> QED  BY <3>3 DEF Landed, WriteLanded
  <2>3. ~(at \in 3 .. 5) /\ ~(at > 9 /\ seen.ready /\ seen.pass)
    BY <2>1 DEF TimedWriteRuns, TimedWrite
  <2>4. /\ at \in 2 .. 10 => enabled /\ wp = 1
        /\ at = 9 => out = "status"
    BY <2>1 DEF TimedWriteRuns, TimedWrite
  <2>5. UNCHANGED <<at, wp, enabled, out, call, seen>>
    BY <1>3, <2>1
  <2>6. ~(at \in 4 .. 5) /\ at # 5
    BY <2>1, <2>3
  <2> QED  BY <2>2, <2>3, <2>4, <2>5, <2>6 DEF TimedWriteRuns
<1>4. CASE UNCHANGED vars
  BY <1>4 DEF vars, targetVars, hostVars, TimedWriteRuns, WriteLanded, Idle, IsWrite, Passed, Before, Write
<1>5. CASE /\ HostStep /\ at \in 1 .. Len(Phases(call)) /\ call' = call /\ TimedWrite(call)
           /\ \/ Proceed /\ at' = at + 1
              \/ BusyMissed /\ at' = at + 2
  <2>1. /\ ~Return /\ ~GuardThrows /\ at \in Nat /\ at # 0
    BY <1>5 DEF Return, GuardThrows, TypeOK
  <2>2. JobOf(call) = call.kind /\ call.kind \in {"erase", "program"} /\ call.kind \in Writes
    BY <1>5 DEF JobOf, TimedWrite, Writes
  <2>3. /\ at \in 2 .. 10 => enabled /\ wp = 1
        /\ at \in 3 .. 5 => Idle
        /\ at \in 4 .. 5 => setup = call.kind
        /\ at = 5 => addr = call.row /\ (call.kind = "program" => reg = call.data)
        /\ at > 5 => Landed
        /\ at = 9 => out = "status"
        /\ at > 9 /\ seen.ready /\ seen.pass => Idle /\ ~srFail
    BY <1>5, LandedIs DEF TimedWriteRuns, TimedWrite
  <2>4. SUFFICES /\ at' \in 2 .. 10 => enabled' /\ wp' = 1
                 /\ at' \in 3 .. 5 => Idle'
                 /\ at' \in 4 .. 5 => setup' = call.kind
                 /\ at' = 5 => addr' = call.row /\ (call.kind = "program" => reg' = call.data)
                 /\ at' > 5 => Landed'
                 /\ at' = 9 => out' = "status"
                 /\ at' > 9 /\ seen'.ready /\ seen'.pass => Idle' /\ ~srFail'
    BY <1>5, <2>4 DEF TimedWriteRuns, Landed, WriteLanded
  <2>5. CASE at = 1 /\ EnableErase
    BY <1>5, <2>1, <2>5 DEF EnableErase, BusyMissed, InPhase
  <2>6. CASE at = 2 /\ GuardPasses
    <3>1. rb /\ InPhase("guard") /\ ~InPhase("assert") /\ UNCHANGED targetVars
          /\ UNCHANGED <<wp, enabled, seen>> /\ at' = 3
      BY <2>6 DEF GuardPasses, Drives, InPhase, Proceed
    <3>2. Idle
      BY <1>5, <2>1, <3>1, ShownWork DEF TimedWrite
    <3> QED  BY <2>3, <2>6, <3>1, <3>2 DEF Idle, targetVars
  <2>7. CASE at = 3 /\ SendSetup
    <3>1. CmdSetup(call.kind) /\ UNCHANGED <<wp, enabled, seen>> /\ at' = 4 /\ Idle
      BY <2>2, <2>3, <2>7 DEF SendSetup, Drives, Proceed
    <3>2. setup' = call.kind /\ activity' = activity
      BY <3>1 DEF CmdSetup
    <3> QED  BY <2>3, <2>7, <3>1, <3>2 DEF Idle
  <2>8. CASE at = 4 /\ Load
    <3>1. IF call.kind = "program" THEN LatchRowAndData(call.row, call.data) ELSE LatchRow(call.row)
      BY <2>2, <2>8 DEF Load, Drives
    <3>2. UNCHANGED <<wp, enabled, seen>> /\ at' = 5 /\ Idle
      BY <2>3, <2>8 DEF Load, Drives, Proceed
    <3>3. UNCHANGED <<activity, setup>> /\ addr' = call.row /\ (call.kind = "program" => reg' = call.data)
      BY <3>1, <3>2 DEF LatchRow, LatchRowAndData
    <3> QED  BY <2>3, <2>8, <3>2, <3>3 DEF Idle
  <2>9. CASE at = 5 /\ SendConfirm
    <3>1. CmdConfirm(call.kind, 1) /\ UNCHANGED <<wp, enabled, seen>> /\ at' = 6
      BY <2>2, <2>3, <2>9 DEF SendConfirm, Drives, Proceed
    <3>2. Begin(call.kind) /\ UNCHANGED <<addr, reg>>
      BY <2>3, <2>9, <3>1 DEF CmdConfirm
    <3>3. Landed'
      BY <1>5, <2>3, <2>9, <3>2 DEF Begin, Landed
    <3> QED  BY <2>3, <2>9, <3>1, <3>3
  <2>10. ASSUME at \in 6 .. 10 PROVE Landed'
    <3>1. Phases(call)[at] \in Harmless
      <4>1. LateShape(call)
        BY LatePhases DEF TypeOK
      <4>2. at = 6 \/ at = 7 \/ at = 8 \/ at = 9 \/ at = 10
        BY <2>10
      <4> QED  BY <1>5, <4>1, <4>2 DEF LateShape, Harmless
    <3>2. UNCHANGED <<array, activity, rb, srFail, addr, reg, applied, call>>
      BY <1>5, <3>1, HarmlessStep
    <3>3. Landed
      BY <2>3, <2>10
    <3> QED  BY <3>2, <3>3 DEF Landed, Idle, Write
  <2>11. CASE at = 6 /\ (BusySeen \/ BusyMissed)
    <3>1. at' \in 7 .. 8 /\ UNCHANGED <<wp, enabled>>
      BY <2>11 DEF BusySeen, BusyMissed, Proceed
    <3> QED  BY <2>3, <2>10, <2>11, <3>1
  <2>12. CASE at = 7 /\ (ReadySeen \/ ReadyTimesOut)
    <3>1. at' = 8 /\ UNCHANGED <<wp, enabled>>
      BY <2>12 DEF ReadySeen, ReadyTimesOut, Drives, Proceed
    <3> QED  BY <2>3, <2>10, <2>12, <3>1
  <2>13. CASE at = 8 /\ SendStatus
    <3>1. at' = 9 /\ UNCHANGED <<wp, enabled>> /\ out' = "status"
      BY <2>13 DEF SendStatus, Drives, Proceed, CmdStatus
    <3> QED  BY <2>3, <2>10, <2>13, <3>1
  <2>14. CASE at = 9 /\ Sample
    <3>1. at' = 10 /\ UNCHANGED <<wp, enabled>> /\ UNCHANGED targetVars
      <4>1. Proceed /\ UNCHANGED <<targetVars, wp, enabled>>
        BY <2>14 DEF Sample
      <4> QED  BY <2>14, <4>1 DEF Proceed
    <3>2. seen' = [seen EXCEPT !.ready = Idle, !.pass = ~srFail]
      BY <2>3, <2>14 DEF Sample
    <3>3. seen'.ready = Idle /\ seen'.pass = ~srFail
      BY <3>2 DEF TypeOK
    <3>4. seen'.ready /\ seen'.pass => Idle' /\ ~srFail'
      BY <3>1, <3>3 DEF targetVars, Idle
    <3> QED  BY <2>3, <2>10, <2>14, <3>1, <3>4
  <2>15. CASE at = 10 /\ DisableErase
    <3>1. at' = 11 /\ UNCHANGED seen /\ UNCHANGED targetVars
      BY <2>15 DEF DisableErase, Proceed
    <3> QED  BY <2>3, <2>10, <2>15, <3>1 DEF targetVars, Idle
  <2> QED
    BY <1>5, <2>1, <2>5, <2>6, <2>7, <2>8, <2>9, <2>11, <2>12, <2>13, <2>14, <2>15, WriteSteps
<1> QED  BY <1>1, <1>2, <1>3, <1>4, <1>5, StepKinds

-----------------------------------------------------------------------------
(* A timed read. *)

LEMMA NextTimedRead ==
  ASSUME LateBus, TypeOK, WorkIsHidden, TimedReadRuns, [Next]_vars
  PROVE  TimedReadRuns'
<1>1. CASE at' \in {0, 1}
  BY <1>1 DEF TimedReadRuns
<1>2. CASE ~TimedRead(call')
  BY <1>2 DEF TimedReadRuns, TimedRead
<1>3. CASE TimedRead(call') /\ TargetStep /\ UNCHANGED <<call, at, seen, verdict, session, wp>>
  <2>1. TimedRead(call) /\ at \in Nat /\ call' = call
    BY <1>3 DEF TypeOK
  <2>2. ~Idle /\ UNCHANGED <<out, setup, addr>>
    <3>1. CASE TargetFalls
      BY <3>1 DEF TargetFalls, RbFalls
    <3>2. ASSUME NEW pass \in BOOLEAN, TargetCompletes(pass)
          PROVE  ~Idle /\ UNCHANGED <<out, setup, addr>>
      BY <3>2 DEF TargetCompletes, Completes
    <3> QED  BY <1>3, <3>1, <3>2 DEF TargetStep
  <2>3. /\ ~(at \in 2 .. 4) /\ ~(at = 7 /\ ~seen.late) /\ ~(at > 7 /\ ~seen.late)
        /\ at > 4 => activity = "read" /\ addr = call.row
        /\ at \in 3 .. 7 => out = "page"
    BY <2>1, <2>2 DEF TimedReadRuns, TimedRead
  <2>4. at > 4 => \/ activity' = "read" /\ addr' = call.row
                  \/ Idle' /\ reg' = array'[call.row]
    <3>1. SUFFICES ASSUME at > 4
                   PROVE  \/ activity' = "read" /\ addr' = call.row
                          \/ Idle' /\ reg' = array'[call.row]
      OBVIOUS
    <3>2. activity = "read" /\ addr = call.row /\ call.row \in Row
      BY <2>1, <2>3, <3>1, CallTypes DEF TypeOK
    <3>3. CASE TargetFalls
      BY <3>2, <3>3 DEF TargetFalls, RbFalls
    <3>4. ASSUME NEW pass \in BOOLEAN, TargetCompletes(pass)
          PROVE  Idle' /\ reg' = array'[call.row]
      <4>1. Completes(pass) /\ pass
        BY <3>2, <3>4 DEF TargetCompletes, Completes, Writes
      <4>2. reg' = array[addr] /\ array' = Written /\ Idle'
        BY <3>2, <4>1 DEF Completes, Idle
      <4>3. Written[call.row] = array[call.row]
        BY <3>2 DEF Written, Touched
      <4> QED  BY <3>2, <4>2, <4>3
    <3> QED  BY <1>3, <3>3, <3>4 DEF TargetStep
  <2>5. UNCHANGED <<at, out, call, seen>> /\ ~(at \in 3 .. 4) /\ at # 4
    BY <1>3, <2>1, <2>2, <2>3
  <2> QED  BY <2>3, <2>4, <2>5 DEF TimedReadRuns
<1>4. CASE UNCHANGED vars
  BY <1>4 DEF vars, targetVars, hostVars, TimedReadRuns, Idle
<1>5. CASE /\ HostStep /\ at \in 1 .. Len(Phases(call)) /\ call' = call /\ TimedRead(call)
           /\ \/ Proceed /\ at' = at + 1
              \/ BusyMissed /\ at' = at + 2
  <2>1. ~Return /\ ~GuardThrows /\ at \in Nat /\ at # 0
    BY <1>5 DEF Return, GuardThrows, TypeOK
  <2>2. JobOf(call) = "read" /\ "read" \notin Writes /\ call.kind = "read"
    BY <1>5 DEF JobOf, TimedRead, Writes
  <2>3. /\ at \in 2 .. 4 => Idle
        /\ at \in 3 .. 4 => setup = "read"
        /\ at = 4 => addr = call.row
        /\ at > 4 => (activity = "read" /\ addr = call.row) \/ (Idle /\ reg = array[call.row])
        /\ at \in 3 .. 7 => out = "page"
        /\ at = 7 /\ ~seen.late => Idle
        /\ at > 7 /\ ~seen.late => Idle /\ seen.data = array[call.row]
    BY <1>5 DEF TimedReadRuns, TimedRead
  <2>4. SUFFICES /\ at' \in 2 .. 4 => Idle'
                 /\ at' \in 3 .. 4 => setup' = "read"
                 /\ at' = 4 => addr' = call.row
                 /\ at' > 4 => (activity' = "read" /\ addr' = call.row) \/ (Idle' /\ reg' = array'[call.row])
                 /\ at' \in 3 .. 7 => out' = "page"
                 /\ at' = 7 /\ ~seen'.late => Idle'
                 /\ at' > 7 /\ ~seen'.late => Idle' /\ seen'.data = array'[call.row]
    BY <1>5, <2>4 DEF TimedReadRuns
  <2>5. CASE at = 1 /\ GuardPasses
    <3>1. rb /\ InPhase("guard") /\ ~InPhase("assert") /\ UNCHANGED targetVars /\ at' = 2
      BY <2>5 DEF GuardPasses, Drives, InPhase, Proceed
    <3>2. Idle
      BY <1>5, <2>1, <3>1, ShownWork DEF TimedRead
    <3> QED  BY <3>1, <3>2 DEF Idle, targetVars
  <2>6. CASE at = 2 /\ SendSetup
    <3>1. CmdSetup("read") /\ at' = 3 /\ Idle
      BY <2>2, <2>3, <2>6 DEF SendSetup, Drives, Proceed
    <3>2. setup' = "read" /\ activity' = activity /\ out' = "page"
      BY <3>1 DEF CmdSetup
    <3> QED  BY <3>1, <3>2 DEF Idle
  <2>7. CASE at = 3 /\ Load
    <3>1. LatchRow(call.row) /\ at' = 4 /\ Idle
      BY <2>2, <2>3, <2>7 DEF Load, Drives, Proceed
    <3>2. UNCHANGED <<activity, setup, out>> /\ addr' = call.row
      BY <3>1 DEF LatchRow
    <3> QED  BY <2>3, <2>7, <3>1, <3>2 DEF Idle
  <2>8. CASE at = 4 /\ SendConfirm
    <3>1. CmdConfirm("read", wp) /\ at' = 5 /\ Idle /\ setup = "read"
      BY <2>2, <2>3, <2>8 DEF SendConfirm, Drives, Proceed
    <3>2. Begin("read") /\ UNCHANGED <<addr, out>>
      BY <2>2, <3>1 DEF CmdConfirm
    <3>3. activity' = "read"
      BY <3>2, Zenon DEF Begin
    <3> QED  BY <2>3, <2>8, <3>1, <3>2, <3>3
  <2>9. CASE at = 5 /\ BusySeen
    <3>1. at' = 6 /\ UNCHANGED targetVars
      BY <2>9 DEF BusySeen, Proceed
    <3> QED  BY <2>3, <2>9, <3>1 DEF targetVars, Idle
  <2>10. CASE at = 5 /\ BusyMissed
    <3>1. at' = 7 /\ UNCHANGED targetVars /\ Idle
      BY <2>10 DEF BusyMissed
    <3> QED  BY <2>3, <2>10, <3>1 DEF targetVars, Idle
  <2>11. CASE at = 6 /\ ReadySeen
    <3>1. rb /\ ~InPhase("assert") /\ at' = 7 /\ UNCHANGED targetVars
      BY <2>11 DEF ReadySeen, Drives, InPhase, Proceed
    <3>2. Idle
      BY <1>5, <2>1, <3>1, ShownWork DEF TimedRead
    <3> QED  BY <2>3, <2>11, <3>1, <3>2 DEF targetVars, Idle
  <2>12. CASE at = 6 /\ ReadyTimesOut
    <3>1. at' = 7 /\ UNCHANGED targetVars
      BY <2>12 DEF ReadyTimesOut, Proceed
    <3>2. seen'.late
      BY <2>12 DEF ReadyTimesOut, TypeOK
    <3> QED  BY <2>3, <2>12, <3>1, <3>2 DEF targetVars, Idle
  <2>13. CASE at = 7 /\ Fetch
    <3>1. Proceed /\ UNCHANGED targetVars
          /\ seen' = [seen EXCEPT !.data = IF Idle /\ out = "page" THEN reg ELSE "garbage"]
      BY <2>13 DEF Fetch
    <3>2. at' = 8
      BY <2>13, <3>1 DEF Proceed
    <3>3. seen'.late = seen.late /\ (Idle => seen'.data = reg)
      BY <2>3, <2>13, <3>1 DEF TypeOK
    <3>4. Idle => reg = array[call.row]
      BY <2>3, <2>13 DEF Idle
    <3> QED  BY <2>3, <2>13, <3>1, <3>2, <3>3, <3>4 DEF targetVars, Idle
  <2>14. CASE at = 8 /\ SendStatus
    <3>1. CmdStatus /\ at' = 9 /\ UNCHANGED seen
      BY <2>14 DEF SendStatus, Drives, Proceed
    <3>2. UNCHANGED <<array, activity, addr, reg>>
      BY <3>1 DEF CmdStatus
    <3> QED  BY <2>3, <2>14, <3>1, <3>2 DEF Idle
  <2>15. CASE at = 9 /\ Sample
    <3>1. Proceed /\ UNCHANGED targetVars
      BY <2>15 DEF Sample
    <3>2. at' = 10
      BY <2>15, <3>1 DEF Proceed
    <3>3. \E ready, pass \in BOOLEAN : seen' = [seen EXCEPT !.ready = ready, !.pass = pass]
      <4>1. (~srFail) \in BOOLEAN /\ Idle \in BOOLEAN
        BY DEF Idle
      <4> QED  BY <2>15, <4>1, Zenon DEF Sample
    <3>4. seen'.late = seen.late /\ seen'.data = seen.data
      BY <3>3 DEF TypeOK
    <3> QED  BY <2>3, <2>15, <3>1, <3>2, <3>4 DEF targetVars, Idle
  <2> QED
    BY <1>5, <2>1, <2>5, <2>6, <2>7, <2>8, <2>9, <2>10, <2>11, <2>12, <2>13, <2>14, <2>15,
       ReadSteps
<1> QED  BY <1>1, <1>2, <1>3, <1>4, <1>5, StepKinds

-----------------------------------------------------------------------------
(* What a success means, and the theorems. *)

LateSuccess == verdict = "success" => Idle /\ SuccessIsReal /\ ReadReturnsThePage

LEMMA NextLateSuccess ==
  ASSUME LateBus, TypeOK, CallsInSession, TimedWriteRuns, TimedReadRuns, LateSuccess,
         [Next]_vars
  PROVE  LateSuccess'
<1> SUFFICES ASSUME verdict' = "success"
             PROVE  Idle' /\ SuccessIsReal' /\ ReadReturnsThePage'
  BY DEF LateSuccess
<1>1. CASE Return
  <2>1. LateShape(call) /\ call \in Calls /\ Report = "success" /\ UNCHANGED <<targetVars, call, seen, applied>>
    BY <1>1, LatePhases DEF Return, TypeOK
  <2>2. call.api = "timed" /\ TimedSucceeded
    <3>1. call.api \in {"start", "driver", "timed", "raw"}
      BY <2>1, CallTypes DEF LateBus
    <3> QED  BY <2>1, <3>1 DEF Report
  <2>3. seen.ready /\ seen.pass /\ ~seen.late
    BY <2>2 DEF TimedSucceeded
  <2>4. at > Len(Phases(call)) /\ at \in Nat
    BY <1>1, PhaseShape DEF Return, TypeOK, Shape, Ordered
  <2>5. CASE TimedWrite(call)
    <3>0. Len(Phases(call)) = 10
      BY <2>1, <2>5 DEF LateShape
    <3>1. at > 9
      BY <2>4, <3>0
    <3>2. Idle /\ ~srFail /\ Landed
      BY <2>3, <2>4, <2>5, <3>1, LandedIs DEF TimedWriteRuns, TimedWrite
    <3>3. call.kind # activity
      BY <2>5, <3>2 DEF Idle, TimedWrite, Writes
    <3>4. Write(call.kind, call.row, call.data) \in applied
      BY <3>2, <3>3 DEF Landed
    <3>5. call.kind # "read"
      BY <2>5 DEF TimedWrite, Writes
    <3> QED  BY <2>1, <3>2, <3>4, <3>5 DEF SuccessIsReal, ReadReturnsThePage, targetVars, Idle, Write
  <2>6. CASE TimedRead(call)
    <3>0. Len(Phases(call)) = 9
      BY <2>1, <2>6 DEF LateShape
    <3>1. at > 7
      BY <2>4, <3>0
    <3>2. Idle /\ seen.data = array[call.row]
      BY <2>3, <2>4, <2>6, <3>1 DEF TimedReadRuns, TimedRead
    <3>3. call.kind \notin Writes
      BY <2>6 DEF TimedRead, Writes
    <3> QED  BY <2>1, <3>2, <3>3 DEF SuccessIsReal, ReadReturnsThePage, targetVars, Idle
  <2> QED  BY <2>1, <2>2, <2>5, <2>6 DEF LateShape
<1>2. CASE Invoke \/ ProcessEnds \/ GuardThrows
  BY <1>2 DEF Invoke, ProcessEnds, GuardThrows
<1>3. CASE HostStep /\ ~Return /\ ~GuardThrows
  <2>1. verdict' = verdict
    BY <1>3, HostMoves DEF Proceed, BusyMissed
  <2>2. at # 0
    BY <1>3, HostMoves DEF BusyMissed, InPhase
  <2> QED  BY <2>1, <2>2 DEF CallsInSession
<1>4. CASE TargetStep
  <2>1. ~Idle /\ verdict' = verdict
    BY <1>4 DEF TargetStep, TargetFalls, RbFalls, TargetCompletes, Completes, hostVars
  <2> QED  BY <2>1 DEF LateSuccess
<1>5. CASE UNCHANGED vars
  BY <1>5 DEF vars, targetVars, hostVars, LateSuccess, SuccessIsReal, ReadReturnsThePage, Idle, Write
<1> QED  BY <1>1, <1>2, <1>3, <1>4, <1>5 DEF Next

(* A write is only begun by the confirm of a timed write, and that         *)
(* function does not return before the target has ended it.                *)
LEMMA NextWritesInPlace ==
  ASSUME LateBus, TypeOK, WorkIsHidden, TimedWriteRuns, WritesInPlace, [Next]_vars
  PROVE  WritesInPlace'
<1> SUFFICES ASSUME activity' \in Writes PROVE WritesInPlace'
  BY DEF WritesInPlace
<1>0. LateShape(call) /\ call \in Calls /\ at \in Nat
  BY LatePhases, PhaseShape DEF TypeOK, Shape, Ordered
<1>1. CASE Invoke
  <2>1. at = 0 /\ at' = 1 /\ activity' = activity /\ ~Passed("reset")'
    BY <1>1, NonePassed DEF Invoke, targetVars
  <2>2. session = "off" /\ call'.api = "start"
    BY <1>1, <2>1 DEF Invoke, WritesInPlace
  <2> QED  BY <2>1, <2>2 DEF WritesInPlace
<1>2. CASE ProcessEnds
  BY <1>2 DEF ProcessEnds, WritesInPlace
<1>3. ASSUME activity \in Writes, call.api = "timed", at # 0
      PROVE  TimedWrite(call) /\ at \in 6 .. 10
  BY <1>3 DEF WritesInPlace, TimedWrite
<1>4. CASE GuardThrows
  <2>1. activity \in Writes /\ InPhase("guard") /\ at # 0
    BY <1>0, <1>4 DEF GuardThrows, targetVars, InPhase
  <2>2. call.api = "timed"
    BY <1>0, <2>1 DEF LateShape, InPhase, Plain
  <2>3. TimedWrite(call) /\ at \in 6 .. 10
    BY <1>3, <2>1, <2>2
  <2>4. at = 6 \/ at = 7 \/ at = 8 \/ at = 9 \/ at = 10
    BY <2>3
  <2> QED  BY <1>0, <2>1, <2>3, <2>4 DEF LateShape, InPhase
<1>5. CASE Return
  <2>1. at > Len(Phases(call)) /\ at # 0 /\ activity \in Writes
    BY <1>0, <1>5, PhaseShape DEF Return, targetVars, Shape, Ordered
  <2>2. call.api = "start" => Passed("reset")
    BY <1>0, <2>1, StartResets
  <2>3. TimedWrite(call) /\ at \in 6 .. 10
    BY <1>3, <2>1, <2>2 DEF WritesInPlace
  <2>4. Len(Phases(call)) = 10
    BY <1>0, <2>3 DEF LateShape
  <2> QED  BY <1>0, <2>1, <2>3, <2>4
<1>6. CASE HostStep /\ ~Return /\ ~GuardThrows /\ ~BusyMissed
  <2> DEFINE p == Phases(call)[at]
  <2>1. at \in 1 .. Len(Phases(call)) /\ InPhase(p) /\ at' = at + 1 /\ call' = call
    BY <1>6, HostMoves DEF InPhase, Proceed
  <2>2. Passed("reset")' <=> Passed("reset") \/ p = "reset"
    BY <2>1, PassedNext
  <2> HIDE DEF p
  <2>3. CASE activity \notin Writes
    <3>1. InPhase("confirm") /\ JobOf(call) \in Writes
      BY <1>6, <2>3, WriteBegins DEF SendConfirm
    <3>2. call.api = "timed"
      BY <1>0, <3>1 DEF LateShape, InPhase, Plain
    <3>3. TimedWrite(call)
      BY <1>0, <3>1, <3>2 DEF LateShape, TimedRead, JobOf, Writes
    <3>4. at = 5
      BY <1>0, <2>1, <3>1, <3>3, ConfirmFifth DEF InPhase
    <3> QED  BY <2>1, <3>3, <3>4 DEF WritesInPlace, TimedWrite
  <2>4. CASE activity \in Writes /\ call.api = "timed"
    <3>1. TimedWrite(call) /\ at \in 6 .. 10
      BY <1>3, <2>1, <2>4
    <3>2. at # 10
      <4>1. SUFFICES ASSUME at = 10 PROVE FALSE
        OBVIOUS
      <4>2. DisableErase /\ ~InPhase("assert")
        BY <1>0, <1>6, <3>1, <4>1, WriteSteps DEF LateShape, InPhase
      <4>3. enabled
        BY <3>1, <4>1 DEF TimedWriteRuns, TimedWrite
      <4>4. rb /\ at # 0
        BY <4>1, <4>2, <4>3 DEF DisableErase
      <4> QED  BY <2>4, <4>2, <4>4, ShownWork DEF Idle, Writes
    <3>3. at' \in 6 .. 10
      BY <2>1, <3>1, <3>2
    <3> QED  BY <2>1, <3>1, <3>3 DEF WritesInPlace, TimedWrite
  <2>5. CASE activity \in Writes /\ call.api # "timed"
    <3>1. call.api = "start" /\ ~Passed("reset") /\ at # 0
      BY <2>1, <2>5 DEF WritesInPlace
    <3>2. p # "reset"
      <4>1. p = "reset" => CmdReset
        BY <1>6, <2>1, OneAction DEF SendReset, Drives
      <4>2. CmdReset => activity' = "reset"
        BY DEF CmdReset, Begin
      <4> QED  BY <4>1, <4>2 DEF Writes
    <3>3. at' # 0
      BY <2>1
    <3> QED  BY <2>1, <2>2, <3>1, <3>2, <3>3 DEF WritesInPlace
  <2> QED  BY <2>3, <2>4, <2>5
<1>7. CASE BusyMissed
  BY <1>7 DEF BusyMissed, targetVars, Idle, Writes
<1>8. CASE TargetStep
  <2>1. CASE TargetFalls
    BY <2>1 DEF TargetFalls, RbFalls, hostVars, WritesInPlace, Passed, Before
  <2>2. CASE ~TargetFalls
    BY <1>8, <2>2 DEF TargetStep, TargetCompletes, Completes, Writes
  <2> QED  BY <2>1, <2>2
<1>9. CASE UNCHANGED vars
  BY <1>9 DEF vars, targetVars, hostVars, WritesInPlace, Passed, Before
<1> QED  BY <1>1, <1>2, <1>4, <1>5, <1>6, <1>7, <1>8, <1>9 DEF Next

LEMMA InitLate == Init => LateInv
<1> SUFFICES ASSUME Init PROVE LateInv
  OBVIOUS
<1>1. TypeOK /\ CallsInSession
  BY InitTypeOK, InitBusy
<1>2. WorkIsHidden /\ WritesInPlace /\ (activity \in Writes => wp = 1)
  BY DEF Init, TargetInit, WorkIsHidden, WritesInPlace, Idle, Writes
<1>3. TimedWriteRuns /\ TimedReadRuns
  BY DEF Init, TimedWriteRuns, TimedReadRuns
<1>4. verdict = "success" => Idle /\ SuccessIsReal /\ ReadReturnsThePage
  BY DEF Init
<1> QED  BY <1>1, <1>2, <1>3, <1>4 DEF LateInv

(* Timed functions, resets, feature settings and raw resets on either      *)
(* interface, with array operations whose R/B# falls at any time after the *)
(* confirm: what hides behind a high R/B# is known at every phase.         *)
THEOREM LateInvHolds ==
  ASSUME LateBus
  PROVE  Spec => []LateInv
<1>1. LateInv /\ [Next]_vars => LateInv'
  <2> SUFFICES ASSUME LateInv, [Next]_vars PROVE LateInv'
    OBVIOUS
  <2>1. /\ TypeOK /\ CallsInSession /\ WorkIsHidden /\ WritesInPlace
        /\ TimedWriteRuns /\ TimedReadRuns /\ LateSuccess /\ (activity \in Writes => wp = 1)
    BY DEF LateInv, LateSuccess
  <2>2. TypeOK' /\ CallsInSession' /\ WorkIsHidden' /\ WritesInPlace'
    BY <2>1, NextTypeOK, NextCallsInSession, NextHidden, NextWritesInPlace
  <2>3. TimedWriteRuns' /\ TimedReadRuns' /\ LateSuccess'
    BY <2>1, NextTimedWrite, NextTimedRead, NextLateSuccess
  <2>4. activity' \in Writes => wp' = 1
    BY <2>1, NextLateWP
  <2> QED  BY <2>2, <2>3, <2>4 DEF LateInv, LateSuccess
<1> QED  BY <1>1, InitLate, PTL DEF Spec

(* SuccessIsReal of the measure-* commands and the Lua functions where     *)
(* R/B# falls late: timed::erase_block and timed::program_page report a    *)
(* success only for the write they were asked for.                         *)
THEOREM LateSuccessIsReal ==
  ASSUME LateBus
  PROVE  Spec => []SuccessIsReal
<1>1. LateInv => SuccessIsReal
  BY DEF LateInv, SuccessIsReal
<1> QED  BY <1>1, LateInvHolds, PTL

(* ReadReturnsThePage there: timed::read_page succeeds with the page it    *)
(* was asked for, though get_data of a toggle bus waits for nothing.       *)
THEOREM LateReadsReturnThePage ==
  ASSUME LateBus
  PROVE  Spec => []ReadReturnsThePage
<1>1. LateInv => ReadReturnsThePage
  BY DEF LateInv, ReadReturnsThePage
<1> QED  BY <1>1, LateInvHolds, PTL

(* WPStableDuringWrites there: also disable_erase after a window that      *)
(* timed out waits until the write is over.                                *)
THEOREM LateWPIsStable ==
  ASSUME LateBus
  PROVE  Spec => WPStableDuringWrites
<1>1. LateInv /\ [Next]_vars => [wp' # wp => activity \notin Writes]_vars
  BY LateWPKept DEF LateInv
<1> QED  BY <1>1, LateInvHolds, PTL DEF Spec, WPStableDuringWrites

(* Why a timed call that throws has written nothing: up to its confirm it  *)
(* has completed no write, and its guard comes before that.                *)
ThrowInv ==
  /\ ThrowsBeforeItWrites
  /\ call.api = "timed" /\ at \in 1 .. (IF call.kind = "read" THEN 4 ELSE 5) => applied = {}

LEMMA InitThrow == Init => ThrowInv
  BY DEF Init, ThrowInv, ThrowsBeforeItWrites

(* Only a timed function has a guard, and it comes first or second. *)
LEMMA GuardIsEarly ==
  ASSUME LateBus, TypeOK, InPhase("guard")
  PROVE  call.api = "timed" /\ at \in 1 .. 2
<1>1. LateShape(call) /\ at \in 1 .. Len(Phases(call)) /\ Phases(call)[at] = "guard"
  BY LatePhases DEF TypeOK, InPhase
<1>2. call.api = "timed"
  BY <1>1 DEF LateShape, Plain
<1>3. CASE TimedWrite(call)
  <2> DEFINE s == Phases(call)
  <2>1. /\ Len(s) = 10 /\ s[1] = "enable" /\ s[2] = "guard" /\ s[3] = "setup" /\ s[4] = "load"
        /\ s[5] = "confirm" /\ s[6] = "assert" /\ s[7] = "release" /\ s[8] = "status"
        /\ s[9] = "sample" /\ s[10] = "disable"
    BY <1>1, <1>3 DEF LateShape
  <2>2. at \in 1 .. 10 /\ s[at] = "guard"
    BY <1>1, <2>1
  <2> HIDE DEF s
  <2> QED  BY <1>2, <2>1, <2>2
<1>4. CASE TimedRead(call)
  <2> DEFINE s == Phases(call)
  <2>1. /\ Len(s) = 9 /\ s[1] = "guard" /\ s[2] = "setup" /\ s[3] = "load" /\ s[4] = "confirm"
        /\ s[5] = "assert" /\ s[6] = "release" /\ s[7] = "fetch" /\ s[8] = "status"
        /\ s[9] = "sample"
    BY <1>1, <1>4 DEF LateShape
  <2>2. at \in 1 .. 9 /\ s[at] = "guard"
    BY <1>1, <2>1
  <2> HIDE DEF s
  <2> QED  BY <1>2, <2>1, <2>2
<1> QED  BY <1>1, <1>2, <1>3, <1>4 DEF LateShape

LEMMA NextThrow == LateBus /\ LateInv /\ ThrowInv /\ [Next]_vars => ThrowInv'
<1> SUFFICES ASSUME LateBus, LateInv, ThrowInv, [Next]_vars PROVE ThrowInv'
  OBVIOUS
<1>0. TypeOK /\ CallsInSession /\ WritesInPlace
  BY DEF LateInv
<1>1. CASE Invoke
  BY <1>1 DEF Invoke, ThrowInv, ThrowsBeforeItWrites
<1>2. CASE ProcessEnds
  BY <1>2 DEF ProcessEnds, ThrowInv, ThrowsBeforeItWrites
<1>3. CASE Return
  <2>1. Report # "thrown" /\ at' = 0 /\ verdict' = Report
    BY <1>3 DEF Report, Return
  <2> QED  BY <2>1 DEF ThrowInv, ThrowsBeforeItWrites
<1>4. CASE GuardThrows
  <2>1. /\ call.api = "timed" /\ at \in 1 .. 2
        /\ at' = 0 /\ UNCHANGED <<activity, applied>>
    BY <1>0, <1>4, GuardIsEarly DEF GuardThrows, targetVars
  <2>2. activity \notin Writes
    BY <1>0, <2>1 DEF WritesInPlace
  <2>3. applied = {}
    BY <2>1 DEF ThrowInv
  <2> QED  BY <2>1, <2>2, <2>3 DEF ThrowInv, ThrowsBeforeItWrites
<1>5. CASE HostStep /\ ~Return /\ ~GuardThrows
  <2>1. /\ at \in Nat \ {0} /\ UNCHANGED <<call, applied, verdict>>
        /\ at' = at + 1 \/ at' = at + 2
    BY <1>0, <1>5, HostMoves DEF BusyMissed, Proceed, InPhase, TypeOK
  <2>2. verdict' # "thrown"
    BY <1>0, <2>1 DEF CallsInSession
  <2> QED  BY <2>1, <2>2 DEF ThrowInv, ThrowsBeforeItWrites
<1>6. CASE TargetStep \/ UNCHANGED vars
  <2>1. UNCHANGED <<call, at, verdict, session>>
    BY <1>6 DEF TargetStep, TargetFalls, TargetCompletes, vars, hostVars
  <2>2. activity \notin Writes => applied' = applied /\ activity' \notin Writes
    BY <1>6 DEF TargetStep, TargetFalls, TargetCompletes, RbFalls, Completes, vars, hostVars,
       targetVars, Writes
  <2>3. call.api = "timed" /\ at \in 1 .. (IF call.kind = "read" THEN 4 ELSE 5)
          => activity \notin Writes
    BY <1>0 DEF WritesInPlace
  <2> QED  BY <2>1, <2>2, <2>3 DEF ThrowInv, ThrowsBeforeItWrites
<1> QED  BY <1>1, <1>2, <1>3, <1>4, <1>5, <1>6 DEF Next

(* ThrowsBeforeItWrites of timed::erase_block, program_page and read_page: *)
(* whatever raw resets and late lines make their guard give up on, the     *)
(* cells are as they were and no write is on its way to them.              *)
THEOREM ThrowsAreClean ==
  ASSUME LateBus
  PROVE  Spec => []ThrowsBeforeItWrites
<1>1. LateInv /\ LateInv' /\ ThrowInv /\ [Next]_vars => ThrowInv'
  BY NextThrow
<1>2. ThrowInv => ThrowsBeforeItWrites
  BY DEF ThrowInv
<1> QED  BY <1>1, <1>2, InitThrow, LateInvHolds, PTL DEF Spec
=============================================================================
