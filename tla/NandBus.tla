------------------------------- MODULE NandBus ------------------------------
(***************************************************************************)
(* The pin driver, pin by pin, on the asynchronous interface: the control  *)
(* pins, the direction of the data bus, the byte on it, and a package that *)
(* latches a cycle whenever WE# rises with CE# low and puts out a byte     *)
(* whenever CE# and RE# are both low.                                      *)
(*                                                                         *)
(* A call is a head, one body per byte, and a tail, each a tuple of pin    *)
(* steps; the process may die between any two of them and the next one     *)
(* finds the pins as they were left.  The calls come in any order, as the  *)
(* raw-* commands allow.  The eight DQ pins move as one.  WP# is in        *)
(* OnfiArrayOps; the DQS strobes of the toggle interface are left out.     *)
(***************************************************************************)
EXTENDS Naturals, Sequences

CONSTANTS
  Bytes,      \* bytes a host may send
  Zero,       \* 0x00, what an idle data bus shows
  MaxBytes    \* bound on the bytes of one call

ASSUME BusAssumption ==
  /\ Zero \in Bytes /\ "float" \notin Bytes
  /\ MaxBytes \in Nat \ {0}

Pins == {"CE", "WE", "RE", "ALE", "CLE"}

VARIABLES
  level,      \* level of each control pin
  outputs,    \* pins the host drives, "DQ" standing for the data bus
  dq,         \* the byte in the host's output latch
  rb,         \* R/B#
  inited,     \* device_initialization is done in this process
  call,       \* the call under way, or the last one
  at,         \* its step, 0 when no call is under way
  got,        \* bytes read so far, as positions in the package's output
  latched,    \* package: cycles latched since the call began
  shown       \* package: bytes put out since the call began

vars == <<level, outputs, dq, rb, inited, call, at, got, latched, shown>>

-----------------------------------------------------------------------------
(* Pin steps. *)

Set(pin, value) == [do |-> "set", pin |-> pin, value |-> value]
Out(pin)        == [do |-> "out", pin |-> pin, value |-> 0]
DQOut           == [do |-> "dq_out", pin |-> "DQ", value |-> 0]
DQIn            == [do |-> "dq_in", pin |-> "DQ", value |-> 0]
DQZero          == [do |-> "dq_zero", pin |-> "DQ", value |-> 0]
DQByte          == [do |-> "dq_byte", pin |-> "DQ", value |-> 0]
DQRead          == [do |-> "dq_read", pin |-> "DQ", value |-> 0]
Await           == [do |-> "await", pin |-> "RB", value |-> 0]

(* Mutant: the latch enables stay as they are. *)
RestoreStrobesOnly == <<Set("CE", 1), Set("WE", 1), Set("RE", 1)>>

RestoreControlPins ==
  <<Set("CE", 1), Set("WE", 1), Set("RE", 1), Set("ALE", 0), Set("CLE", 0)>>

SetDefaultPinValues ==
  <<Set("CE", 1), Set("RE", 1), Set("WE", 1), Set("ALE", 0), Set("CLE", 0), DQOut, DQZero>>

(* Mutant: the strobes are driven before the latch enables. *)
InactiveStrobesFirst ==
  <<Out("RE"), Set("RE", 1), Out("WE"), Set("WE", 1), Out("CE"), Set("CE", 1),
    Out("CLE"), Set("CLE", 0), Out("ALE"), Set("ALE", 0), DQOut, DQZero>>

SetPinDirectionInactive ==
  <<Out("CLE"), Set("CLE", 0), Out("ALE"), Set("ALE", 0), Out("RE"), Set("RE", 1),
    Out("WE"), Set("WE", 1), Out("CE"), Set("CE", 1), DQOut, DQZero>>

(* Mutant: the byte follows the edge that latches it. *)
WriteByteLate == <<Set("WE", 0), Set("WE", 1), DQByte>>

WriteByte == <<Set("WE", 0), DQByte, Set("WE", 1)>>
ReadByte  == <<Set("RE", 0), DQRead, Set("RE", 1)>>

-----------------------------------------------------------------------------
(* The functions. *)

Routine(head, body, tail) == [head |-> head, body |-> body, tail |-> tail]

SendCommand == Routine(<<Set("CE", 0), Set("CLE", 1)>>, WriteByte,
                       <<Set("CLE", 0)>> \o RestoreControlPins)

SendAddresses == Routine(<<Set("CE", 0), Set("ALE", 1)>>, WriteByte, RestoreControlPins)

SendData == Routine(<<Set("CE", 0)>>, WriteByte, RestoreControlPins)

(* Mutant: the data bus is never turned round. *)
GetDataDriven == Routine(SetDefaultPinValues \o <<Await, Set("CE", 0)>>, ReadByte,
                         SetDefaultPinValues)

(* Mutant: the wait of the asynchronous branch is gone. *)
GetDataAtOnce == Routine(SetDefaultPinValues \o <<DQIn, Set("CE", 0)>>, ReadByte,
                         <<DQOut, DQZero>> \o SetDefaultPinValues)

GetData == Routine(SetDefaultPinValues \o <<DQIn, Await, Set("CE", 0)>>, ReadByte,
                   <<DQOut, DQZero>> \o SetDefaultPinValues)

DeviceInitialization ==
  Routine(SetPinDirectionInactive \o SetDefaultPinValues \o <<Set("CE", 0), Await>>, <<>>, <<>>)

RoutineOf(kind) ==
  CASE kind = "command" -> SendCommand
    [] kind = "address" -> SendAddresses
    [] kind = "data"    -> SendData
    [] kind = "read"    -> GetData
    [] kind = "init"    -> DeviceInitialization

(* The buffer of a read holds nothing yet.  A list of 256 addresses is cut *)
(* to none by the cast of raw_address_command.                             *)
Calls ==
  [kind : {"init"}, bytes : {<<>>}]
    \cup [kind : {"command"}, bytes : {<<b>> : b \in Bytes}]
    \cup [kind : {"address"}, bytes : UNION {[1 .. n -> Bytes] : n \in 0 .. MaxBytes}]
    \cup [kind : {"data"}, bytes : UNION {[1 .. n -> Bytes] : n \in 1 .. MaxBytes}]
    \cup [kind : {"read"}, bytes : {[i \in 1 .. n |-> Zero] : n \in 1 .. MaxBytes}]

HeadLen(c) == Len(RoutineOf(c.kind).head)
LoopLen(c) == Len(RoutineOf(c.kind).body) * Len(c.bytes)
CallLen(c) == HeadLen(c) + LoopLen(c) + Len(RoutineOf(c.kind).tail)

(* The i-th step of a call, and the byte a step of its loop is about.      *)
StepAt(c, i) ==
  LET r == RoutineOf(c.kind) IN
  IF i <= HeadLen(c) THEN r.head[i]
  ELSE IF i <= HeadLen(c) + LoopLen(c)
       THEN r.body[((i - HeadLen(c) - 1) % Len(r.body)) + 1]
       ELSE r.tail[i - HeadLen(c) - LoopLen(c)]

ByteAt(c, i) ==
  c.bytes[((i - HeadLen(c) - 1) \div Len(RoutineOf(c.kind).body)) + 1]

-----------------------------------------------------------------------------
(* The package. *)

OnBus == IF "DQ" \in outputs THEN dq ELSE "float"

CycleKind(pins) ==
  CASE pins["CLE"] = 1 /\ pins["ALE"] = 0 -> "command"
    [] pins["CLE"] = 0 /\ pins["ALE"] = 1 -> "address"
    [] pins["CLE"] = 0 /\ pins["ALE"] = 0 -> "data"
    [] OTHER                              -> "both"

PutsOut(pins) == pins["CE"] = 0 /\ pins["RE"] = 0

Latches == level["WE"] = 0 /\ level'["WE"] = 1 /\ level["CE"] = 0

(* What a change of the control pins means to the package.  A command may  *)
(* make it busy.                                                           *)
PackageSees ==
  /\ latched' = IF Latches
                THEN Append(latched, [kind |-> CycleKind(level), byte |-> OnBus])
                ELSE latched
  /\ rb' \in IF Latches /\ CycleKind(level) = "command" THEN {0, 1} ELSE {rb}
  /\ shown' = IF ~PutsOut(level) /\ PutsOut(level') THEN shown + 1 ELSE shown

PackageReady ==
  /\ rb = 0 /\ rb' = 1
  /\ UNCHANGED <<level, outputs, dq, inited, call, at, got, latched, shown>>

-----------------------------------------------------------------------------
(* The host. *)

(* A board that has just booted: nothing driven, the pins wherever the     *)
(* pulls take them.                                                        *)
Init ==
  /\ level \in [Pins -> {0, 1}] /\ outputs = {} /\ dq = Zero /\ rb \in {0, 1}
  /\ inited = FALSE /\ call = [kind |-> "init", bytes |-> <<>>] /\ at = 0
  /\ got = <<>> /\ latched = <<>> /\ shown = 0

Invoke ==
  /\ at = 0 /\ at' = 1
  /\ call' \in {c \in Calls : inited \/ c.kind = "init"}
  /\ got' = <<>> /\ latched' = <<>> /\ shown' = 0
  /\ UNCHANGED <<level, outputs, dq, rb, inited>>

Return ==
  /\ at > CallLen(call)
  /\ at' = 0 /\ inited' = TRUE
  /\ UNCHANGED <<level, outputs, dq, rb, call, got, latched, shown>>

(* The process ends or dies; the pins stay as they are. *)
ProcessEnds ==
  /\ inited \/ at # 0
  /\ inited' = FALSE /\ at' = 0
  /\ UNCHANGED <<level, outputs, dq, rb, call, got, latched, shown>>

Doing(what) ==
  /\ at \in 1 .. CallLen(call)
  /\ StepAt(call, at).do = what
  /\ at' = at + 1
  /\ UNCHANGED <<inited, call>>

SetPin ==
  /\ Doing("set")
  /\ level' = [level EXCEPT ![StepAt(call, at).pin] = StepAt(call, at).value]
  /\ PackageSees
  /\ UNCHANGED <<outputs, dq, got>>

(* A pin that becomes an output shows what its latch happens to hold.      *)
DirectPin ==
  /\ Doing("out")
  /\ LET pin == StepAt(call, at).pin IN
     /\ outputs' = outputs \cup {pin}
     /\ IF pin \in outputs THEN level' = level
        ELSE \E value \in {0, 1} : level' = [level EXCEPT ![pin] = value]
  /\ PackageSees
  /\ UNCHANGED <<dq, got>>

DirectDQ ==
  /\ \/ Doing("dq_out") /\ outputs' = outputs \cup {"DQ"}
     \/ Doing("dq_in")  /\ outputs' = outputs \ {"DQ"}
  /\ UNCHANGED <<level, dq, rb, got, latched, shown>>

SetDQ ==
  /\ \/ Doing("dq_zero") /\ dq' = Zero
     \/ Doing("dq_byte") /\ dq' = ByteAt(call, at)
  /\ UNCHANGED <<level, outputs, rb, got, latched, shown>>

(* 0 stands for a byte the package did not put out. *)
ReadDQ ==
  /\ Doing("dq_read")
  /\ got' = Append(got, IF PutsOut(level) /\ "DQ" \notin outputs THEN shown ELSE 0)
  /\ UNCHANGED <<level, outputs, dq, rb, latched, shown>>

AwaitReady ==
  /\ Doing("await") /\ rb = 1
  /\ UNCHANGED <<level, outputs, dq, rb, got, latched, shown>>

Next ==
  \/ Invoke \/ Return \/ ProcessEnds
  \/ SetPin \/ DirectPin \/ DirectDQ \/ SetDQ \/ ReadDQ \/ AwaitReady
  \/ PackageReady

Spec == Init /\ [][Next]_vars

-----------------------------------------------------------------------------
(* Properties. *)

(* Every variable keeps its type; among them the pins of the driver and    *)
(* the step its call has reached.                                          *)
TypeOK ==
  /\ level \in [Pins -> {0, 1}]
  /\ outputs \subseteq Pins \cup {"DQ"}
  /\ dq \in Bytes /\ rb \in {0, 1} /\ inited \in BOOLEAN
  /\ call \in Calls /\ at \in 0 .. CallLen(call) + 1
  /\ shown \in 0 .. MaxBytes + 1
  /\ got \in Seq(Nat)
  /\ latched \in Seq([kind : {"command", "address", "data"}, byte : Bytes \cup {"float"}])

(* Host and package never drive the data bus at the same time, whatever    *)
(* pins a dead process has left behind (set_datalines_direction_input and  *)
(* _default around the read, the order of set_pin_direction_inactive).     *)
NoContention == ~("DQ" \in outputs /\ PutsOut(level))

(* A start-up over the pins of a dead process, or of a board that has just *)
(* booted, clocks no command and no address into the package, and at most  *)
(* one data cycle (set_pin_direction_inactive lowers CLE and ALE before it *)
(* lets go of WE#).                                                        *)
StartUpIsQuiet ==
  ~inited /\ call.kind = "init" =>
    /\ Len(latched) <= 1
    /\ \A i \in 1 .. Len(latched) : latched[i].kind = "data"

(* No byte is taken from a package at work, even when the caller has not   *)
(* waited for the command it sent before (wait_ready_blocking in the       *)
(* asynchronous branch of get_data).                                       *)
ReadsWaitForReady == [][got' # got /\ got' # <<>> => rb = 1]_vars

-----------------------------------------------------------------------------
(* The promise of BusCycles. *)

Delivers(c) == IF c.kind \in {"command", "address", "data"}
               THEN [i \in 1 .. Len(c.bytes) |-> [kind |-> c.kind, byte |-> c.bytes[i]]]
               ELSE <<>>

Promise == INSTANCE BusCycles WITH
  phase  <- IF ~inited THEN "off" ELSE IF at = 0 THEN "idle" ELSE "call",
  wanted <- IF inited THEN Delivers(call) ELSE <<>>,
  asked  <- IF inited /\ call.kind = "read" THEN Len(call.bytes) ELSE 0,
  handed <- got

(* The package latches the cycles of each call, each once and in order,    *)
(* and hands out its bytes in order; a death in the middle lets at most    *)
(* one data cycle slip through at the next start-up.                       *)
KeepsBusPromise == Promise!Spec
=============================================================================
