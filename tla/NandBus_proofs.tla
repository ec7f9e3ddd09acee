--------------------------- MODULE NandBus_proofs ---------------------------
(***************************************************************************)
(* Proofs about the pin driver, for any set of bytes and calls of any      *)
(* length: the invariant says, for every kind of call and every step of    *)
(* it, where the pins stand and what the package has latched and shown;    *)
(* the invariants of NandBus and the promise of BusCycles follow from it.  *)
(***************************************************************************)
EXTENDS NandBus, Integers, TLAPS

-----------------------------------------------------------------------------
(* Where a call stands. *)

WriteKinds == {"command", "address", "data"}

(* the first step of the tail, and the step within the body of the loop    *)
TailAt(c)     == HeadLen(c) + LoopLen(c) + 1
InLoop(c, i)  == HeadLen(c) < i /\ i < TailAt(c)
LoopAt(c, i)  == (i - HeadLen(c) - 1) % 3

(* how many bytes of the call have been through the loop                   *)
Done(c, i) == CASE i <= HeadLen(c) -> 0
                [] InLoop(c, i)    -> (i - HeadLen(c) - 1) \div 3
                [] OTHER           -> Len(c.bytes)

AllOut == Pins \cup {"DQ"}

(* nothing selected to be latched, and the host at the wheel               *)
Rested ==
  /\ outputs = AllOut /\ level["WE"] = 1 /\ level["RE"] = 1
  /\ level["ALE"] = 0 /\ level["CLE"] = 0

(* send_command, send_addresses, send_data *)
WriteOK ==
  /\ outputs = AllOut /\ level["RE"] = 1
  /\ level["WE"] = IF InLoop(call, at) /\ LoopAt(call, at) # 0 THEN 0 ELSE 1
  /\ 1 < at /\ at <= TailAt(call) => level["CE"] = 0
  /\ level["CLE"] = IF call.kind = "command" /\ 2 < at /\ at <= TailAt(call) THEN 1 ELSE 0
  /\ call.kind # "address" \/ at <= 2 \/ at > TailAt(call) + 3 => level["ALE"] = 0
  /\ call.kind = "address" /\ 2 < at /\ at <= TailAt(call) => level["ALE"] = 1
  /\ InLoop(call, at) /\ LoopAt(call, at) = 2 => dq = call.bytes[Done(call, at) + 1]
  /\ Len(latched) = Done(call, at)
  /\ \A j \in 1 .. Done(call, at) : latched[j] = [kind |-> call.kind, byte |-> call.bytes[j]]
  /\ got = <<>> /\ shown = 0

(* get_data *)
ReadOK ==
  /\ outputs = IF 8 < at /\ at <= TailAt(call) THEN Pins ELSE AllOut
  /\ level["WE"] = 1 /\ level["ALE"] = 0 /\ level["CLE"] = 0
  /\ level["RE"] = IF InLoop(call, at) /\ LoopAt(call, at) # 0 THEN 0 ELSE 1
  /\ 10 < at /\ at <= TailAt(call) => level["CE"] = 0
  /\ at > 9 => rb = 1
  /\ latched = <<>>
  /\ shown = IF InLoop(call, at) /\ LoopAt(call, at) # 0
             THEN Done(call, at) + 1 ELSE Done(call, at)
  /\ Len(got) = IF InLoop(call, at) /\ LoopAt(call, at) = 2
                THEN Done(call, at) + 1 ELSE Done(call, at)
  /\ \A j \in 1 .. Len(got) : got[j] = j

(* device_initialization of a process that has not done it yet             *)
StartOK ==
  /\ at > 1 => "CLE" \in outputs
  /\ at > 2 => level["CLE"] = 0
  /\ at > 3 => "ALE" \in outputs
  /\ at > 4 => level["ALE"] = 0
  /\ at > 5 => "RE" \in outputs
  /\ at > 6 => level["RE"] = 1
  /\ at > 7 => "WE" \in outputs
  /\ at > 8 => level["WE"] = 1
  /\ at > 9 => "CE" \in outputs
  /\ at > 11 => "DQ" \in outputs
  /\ at <= 7 => latched = <<>>
  /\ at = 8 /\ level["WE"] = 0 => latched = <<>>
  /\ got = <<>>
  /\ shown <= 1 /\ (at <= 5 => shown = 0)

QuietStart == Len(latched) <= 1 /\ \A i \in 1 .. Len(latched) : latched[i].kind = "data"

-----------------------------------------------------------------------------
(* The calls, step by step. *)

LEMMA CallTypes ==
  ASSUME NEW c \in Calls
  PROVE  /\ c.kind \in WriteKinds \cup {"read", "init"}
         /\ c = [kind |-> c.kind, bytes |-> c.bytes]
         /\ c.bytes \in Seq(Bytes) /\ Len(c.bytes) \in 0 .. MaxBytes
         /\ c.kind = "init" => c.bytes = <<>>
<1>1. CASE c \in [kind : {"init"}, bytes : {<<>>}]
  <2>1. <<>> \in Seq(Bytes) /\ Len(<<>>) = 0
    OBVIOUS
  <2>2. 0 \in 0 .. MaxBytes
    BY BusAssumption
  <2> QED  BY <1>1, <2>1, <2>2
<1>2. CASE c \in [kind : {"command"}, bytes : {<<b>> : b \in Bytes}]
  <2>1. PICK b \in Bytes : c = [kind |-> "command", bytes |-> <<b>>]
    BY <1>2
  <2>2. <<b>> \in Seq(Bytes) /\ Len(<<b>>) = 1
    OBVIOUS
  <2>3. 1 \in 0 .. MaxBytes
    BY BusAssumption
  <2> QED  BY <2>1, <2>2, <2>3 DEF WriteKinds
<1>3. CASE c \in [kind : {"address"}, bytes : UNION {[1 .. n -> Bytes] : n \in 0 .. MaxBytes}]
  <2>1. PICK n \in 0 .. MaxBytes : c.bytes \in [1 .. n -> Bytes]
    BY <1>3
  <2> QED  BY <1>3, <2>1, BusAssumption DEF WriteKinds
<1>4. CASE c \in [kind : {"data"}, bytes : UNION {[1 .. n -> Bytes] : n \in 1 .. MaxBytes}]
  <2>1. PICK n \in 1 .. MaxBytes : c.bytes \in [1 .. n -> Bytes]
    BY <1>4
  <2> QED  BY <1>4, <2>1, BusAssumption DEF WriteKinds
<1>5. CASE c \in [kind : {"read"}, bytes : {[i \in 1 .. n |-> Zero] : n \in 1 .. MaxBytes}]
  <2>1. PICK n \in 1 .. MaxBytes : c.bytes = [i \in 1 .. n |-> Zero]
    BY <1>5
  <2> QED  BY <1>5, <2>1, BusAssumption
<1> QED  BY <1>1, <1>2, <1>3, <1>4, <1>5 DEF Calls

LEMMA CommandTable ==
  /\ Len(SendCommand.head) = 2 /\ SendCommand.head[1] = Set("CE", 0)
  /\ SendCommand.head[2] = Set("CLE", 1)
  /\ Len(SendCommand.body) = 3 /\ SendCommand.body[1] = Set("WE", 0)
  /\ SendCommand.body[2] = DQByte /\ SendCommand.body[3] = Set("WE", 1)
  /\ Len(SendCommand.tail) = 6 /\ SendCommand.tail[1] = Set("CLE", 0)
  /\ SendCommand.tail[2] = Set("CE", 1) /\ SendCommand.tail[3] = Set("WE", 1)
  /\ SendCommand.tail[4] = Set("RE", 1) /\ SendCommand.tail[5] = Set("ALE", 0)
  /\ SendCommand.tail[6] = Set("CLE", 0)
BY DEF SendCommand, Routine, RestoreControlPins, WriteByte

LEMMA AddressTable ==
  /\ Len(SendAddresses.head) = 2 /\ SendAddresses.head[1] = Set("CE", 0)
  /\ SendAddresses.head[2] = Set("ALE", 1)
  /\ Len(SendAddresses.body) = 3 /\ SendAddresses.body[1] = Set("WE", 0)
  /\ SendAddresses.body[2] = DQByte /\ SendAddresses.body[3] = Set("WE", 1)
  /\ Len(SendAddresses.tail) = 5 /\ SendAddresses.tail[1] = Set("CE", 1)
  /\ SendAddresses.tail[2] = Set("WE", 1) /\ SendAddresses.tail[3] = Set("RE", 1)
  /\ SendAddresses.tail[4] = Set("ALE", 0) /\ SendAddresses.tail[5] = Set("CLE", 0)
BY DEF SendAddresses, Routine, RestoreControlPins, WriteByte

LEMMA DataTable ==
  /\ Len(SendData.head) = 1 /\ SendData.head[1] = Set("CE", 0)
  /\ Len(SendData.body) = 3 /\ SendData.body[1] = Set("WE", 0) /\ SendData.body[2] = DQByte
  /\ SendData.body[3] = Set("WE", 1)
  /\ Len(SendData.tail) = 5 /\ SendData.tail[1] = Set("CE", 1)
  /\ SendData.tail[2] = Set("WE", 1) /\ SendData.tail[3] = Set("RE", 1)
  /\ SendData.tail[4] = Set("ALE", 0) /\ SendData.tail[5] = Set("CLE", 0)
BY DEF SendData, Routine, RestoreControlPins, WriteByte

LEMMA ReadTable ==
  /\ Len(GetData.head) = 10 /\ GetData.head[1] = Set("CE", 1)
  /\ GetData.head[2] = Set("RE", 1) /\ GetData.head[3] = Set("WE", 1)
  /\ GetData.head[4] = Set("ALE", 0) /\ GetData.head[5] = Set("CLE", 0)
  /\ GetData.head[6] = DQOut /\ GetData.head[7] = DQZero /\ GetData.head[8] = DQIn
  /\ GetData.head[9] = Await /\ GetData.head[10] = Set("CE", 0)
  /\ Len(GetData.body) = 3 /\ GetData.body[1] = Set("RE", 0) /\ GetData.body[2] = DQRead
  /\ GetData.body[3] = Set("RE", 1)
  /\ Len(GetData.tail) = 9 /\ GetData.tail[1] = DQOut /\ GetData.tail[2] = DQZero
  /\ GetData.tail[3] = Set("CE", 1) /\ GetData.tail[4] = Set("RE", 1)
  /\ GetData.tail[5] = Set("WE", 1) /\ GetData.tail[6] = Set("ALE", 0)
  /\ GetData.tail[7] = Set("CLE", 0) /\ GetData.tail[8] = DQOut /\ GetData.tail[9] = DQZero
BY DEF GetData, Routine, SetDefaultPinValues, ReadByte

LEMMA InitTable ==
  /\ Len(DeviceInitialization.head) = 21 /\ DeviceInitialization.head[1] = Out("CLE")
  /\ DeviceInitialization.head[2] = Set("CLE", 0)
  /\ DeviceInitialization.head[3] = Out("ALE")
  /\ DeviceInitialization.head[4] = Set("ALE", 0)
  /\ DeviceInitialization.head[5] = Out("RE") /\ DeviceInitialization.head[6] = Set("RE", 1)
  /\ DeviceInitialization.head[7] = Out("WE") /\ DeviceInitialization.head[8] = Set("WE", 1)
  /\ DeviceInitialization.head[9] = Out("CE")
  /\ DeviceInitialization.head[10] = Set("CE", 1) /\ DeviceInitialization.head[11] = DQOut
  /\ DeviceInitialization.head[12] = DQZero /\ DeviceInitialization.head[13] = Set("CE", 1)
  /\ DeviceInitialization.head[14] = Set("RE", 1)
  /\ DeviceInitialization.head[15] = Set("WE", 1)
  /\ DeviceInitialization.head[16] = Set("ALE", 0)
  /\ DeviceInitialization.head[17] = Set("CLE", 0) /\ DeviceInitialization.head[18] = DQOut
  /\ DeviceInitialization.head[19] = DQZero /\ DeviceInitialization.head[20] = Set("CE", 0)
  /\ DeviceInitialization.head[21] = Await
  /\ Len(DeviceInitialization.body) = 0
  /\ Len(DeviceInitialization.tail) = 0
BY DEF DeviceInitialization, Routine, SetDefaultPinValues,
       SetPinDirectionInactive

(* the lengths of a call, and the arithmetic of its loop                   *)
LEMMA Lengths ==
  ASSUME NEW c \in Calls
  PROVE  /\ HeadLen(c) = CASE c.kind = "data" -> 1
                           [] c.kind \in {"command", "address"} -> 2
                           [] c.kind = "read" -> 10
                           [] c.kind = "init" -> 21
         /\ LoopLen(c) = 3 * Len(c.bytes)
         /\ TailAt(c) = HeadLen(c) + 3 * Len(c.bytes) + 1
         /\ CallLen(c) = TailAt(c) - 1 +
              CASE c.kind = "command" -> 6
                [] c.kind \in {"address", "data"} -> 5
                [] c.kind = "read" -> 9
                [] c.kind = "init" -> 0
         /\ Len(c.bytes) \in Nat /\ Len(c.bytes) <= MaxBytes
<1>1. Len(c.bytes) \in Nat /\ Len(c.bytes) <= MaxBytes
  BY CallTypes, BusAssumption
<1>2. CASE c.kind = "command"
  <2>1. RoutineOf(c.kind) = SendCommand
    BY <1>2 DEF RoutineOf
  <2>2. HeadLen(c) = 2 /\ LoopLen(c) = 3 * Len(c.bytes)
    BY <1>1, <2>1, CommandTable DEF HeadLen, LoopLen
  <2>3. CallLen(c) = HeadLen(c) + LoopLen(c) + 6
    BY <2>1, CommandTable DEF CallLen
  <2> QED  BY <1>1, <1>2, <2>2, <2>3 DEF TailAt
<1>3. CASE c.kind = "address"
  <2>1. RoutineOf(c.kind) = SendAddresses
    BY <1>3 DEF RoutineOf
  <2>2. HeadLen(c) = 2 /\ LoopLen(c) = 3 * Len(c.bytes)
    BY <1>1, <2>1, AddressTable DEF HeadLen, LoopLen
  <2>3. CallLen(c) = HeadLen(c) + LoopLen(c) + 5
    BY <2>1, AddressTable DEF CallLen
  <2> QED  BY <1>1, <1>3, <2>2, <2>3 DEF TailAt
<1>4. CASE c.kind = "data"
  <2>1. RoutineOf(c.kind) = SendData
    BY <1>4 DEF RoutineOf
  <2>2. HeadLen(c) = 1 /\ LoopLen(c) = 3 * Len(c.bytes)
    BY <1>1, <2>1, DataTable DEF HeadLen, LoopLen
  <2>3. CallLen(c) = HeadLen(c) + LoopLen(c) + 5
    BY <2>1, DataTable DEF CallLen
  <2> QED  BY <1>1, <1>4, <2>2, <2>3 DEF TailAt
<1>5. CASE c.kind = "read"
  <2>1. RoutineOf(c.kind) = GetData
    BY <1>5 DEF RoutineOf
  <2>2. HeadLen(c) = 10 /\ LoopLen(c) = 3 * Len(c.bytes)
    BY <1>1, <2>1, ReadTable DEF HeadLen, LoopLen
  <2>3. CallLen(c) = HeadLen(c) + LoopLen(c) + 9
    BY <2>1, ReadTable DEF CallLen
  <2> QED  BY <1>1, <1>5, <2>2, <2>3 DEF TailAt
<1>6. CASE c.kind = "init"
  <2>1. Len(c.bytes) = 0
    BY <1>6, CallTypes
  <2>2. RoutineOf(c.kind) = DeviceInitialization
    BY <1>6 DEF RoutineOf
  <2>3. HeadLen(c) = 21 /\ LoopLen(c) = 0
    BY <2>1, <2>2, InitTable DEF HeadLen, LoopLen
  <2>4. CallLen(c) = HeadLen(c) + LoopLen(c)
    BY <2>2, <2>3, InitTable DEF CallLen
  <2> QED  BY <1>1, <1>6, <2>1, <2>3, <2>4 DEF TailAt
<1> QED  BY <1>2, <1>3, <1>4, <1>5, <1>6, CallTypes DEF WriteKinds

LEMMA LengthTypes ==
  ASSUME NEW c \in Calls
  PROVE  /\ HeadLen(c) \in Nat /\ HeadLen(c) >= 1 /\ LoopLen(c) \in Nat
         /\ TailAt(c) \in Nat /\ TailAt(c) > HeadLen(c) /\ CallLen(c) \in Nat
         /\ CallLen(c) >= TailAt(c) - 1
<1>1. HeadLen(c) \in {1, 2, 10, 21} /\ Len(c.bytes) \in Nat
  BY Lengths, CallTypes DEF WriteKinds
<1>2. LoopLen(c) \in Nat /\ TailAt(c) = HeadLen(c) + LoopLen(c) + 1
  BY <1>1, Lengths
<1>3. PICK k \in {6, 5, 9, 0} : CallLen(c) = TailAt(c) - 1 + k
  BY Lengths, CallTypes DEF WriteKinds
<1> QED  BY SMTT(30), <1>1, <1>2, <1>3

LEMMA ThreeSteps ==
  ASSUME NEW x \in Nat
  PROVE  /\ x % 3 \in {0, 1, 2} /\ x \div 3 \in Nat /\ x = 3 * (x \div 3) + (x % 3)
         /\ x % 3 < 2 => (x + 1) % 3 = (x % 3) + 1 /\ (x + 1) \div 3 = x \div 3
         /\ x % 3 = 2 => (x + 1) % 3 = 0 /\ (x + 1) \div 3 = x \div 3 + 1
<1>1. x % 3 \in 0 .. 2 /\ x \div 3 \in Nat
  OBVIOUS
<1>2. x = 3 * (x \div 3) + (x % 3)
  BY <1>1
<1>3. x % 3 < 2 => (x + 1) % 3 = (x % 3) + 1 /\ (x + 1) \div 3 = x \div 3
  OBVIOUS
<1>4. x % 3 = 2 => (x + 1) % 3 = 0 /\ (x + 1) \div 3 = x \div 3 + 1
  OBVIOUS
<1> QED  BY <1>1, <1>2, <1>3, <1>4

(* One step further: into the loop, through a byte, or out of it. *)
LEMMA LoopSteps ==
  ASSUME NEW c \in Calls, NEW i \in Nat, i >= 1
  PROVE  /\ Done(c, i) \in 0 .. Len(c.bytes) /\ Done(c, i + 1) \in 0 .. Len(c.bytes)
         /\ InLoop(c, i) => /\ LoopAt(c, i) \in {0, 1, 2} /\ Done(c, i) < Len(c.bytes)
                            /\ i = HeadLen(c) + 1 + 3 * Done(c, i) + LoopAt(c, i)
                            /\ i + 1 <= TailAt(c)
         /\ InLoop(c, i) /\ LoopAt(c, i) < 2 =>
              InLoop(c, i + 1) /\ LoopAt(c, i + 1) = LoopAt(c, i) + 1 /\ Done(c, i + 1) = Done(c, i)
         /\ InLoop(c, i) /\ LoopAt(c, i) = 2 =>
              /\ InLoop(c, i + 1) => LoopAt(c, i + 1) = 0
              /\ Done(c, i + 1) = Done(c, i) + 1
         /\ i <= HeadLen(c) =>
              /\ InLoop(c, i + 1) => LoopAt(c, i + 1) = 0
              /\ Done(c, i) = 0 /\ Done(c, i + 1) = 0
         /\ i >= TailAt(c) => /\ ~InLoop(c, i + 1)
                              /\ Done(c, i) = Len(c.bytes) /\ Done(c, i + 1) = Len(c.bytes)
<1> DEFINE h == HeadLen(c)  n == Len(c.bytes)
<1>1. h \in Nat /\ n \in Nat /\ TailAt(c) = h + 3 * n + 1
  BY Lengths, CallTypes DEF WriteKinds
<1> HIDE DEF h, n
<1>2. /\ InLoop(c, i) <=> (h < i /\ i < h + 3 * n + 1)
      /\ InLoop(c, i + 1) <=> (h < i + 1 /\ i + 1 < h + 3 * n + 1)
      /\ LoopAt(c, i) = (i - h - 1) % 3 /\ LoopAt(c, i + 1) = (i + 1 - h - 1) % 3
  BY <1>1 DEF InLoop, LoopAt, h
<1>3. /\ Done(c, i) = CASE i <= h -> 0 [] InLoop(c, i) -> (i - h - 1) \div 3 [] OTHER -> n
      /\ Done(c, i + 1) = CASE i + 1 <= h -> 0 [] InLoop(c, i + 1) -> (i + 1 - h - 1) \div 3
                            [] OTHER -> n
  BY DEF Done, h, n
<1>4. CASE InLoop(c, i)
  <2> DEFINE x == i - h - 1
  <2>1. x \in Nat /\ x + 1 = i + 1 - h - 1 /\ x < 3 * n /\ i = h + 1 + x
    BY <1>1, <1>2, <1>4
  <2> HIDE DEF x
  <2>2. LoopAt(c, i) = x % 3 /\ LoopAt(c, i + 1) = (x + 1) % 3 /\ Done(c, i) = x \div 3
    BY <1>1, <1>2, <1>3, <1>4, <2>1 DEF x
  <2>3. Done(c, i + 1) = IF x + 1 < 3 * n THEN (x + 1) \div 3 ELSE n
    BY <1>1, <1>2, <1>3, <1>4, <2>1
  <2>4. InLoop(c, i + 1) <=> (x + 1 < 3 * n)
    BY <1>1, <1>2, <2>1
  <2>5. PICK q \in Nat, r \in {0, 1, 2} :
          /\ x = 3 * q + r /\ x \div 3 = q /\ x % 3 = r
          /\ r < 2 => (x + 1) % 3 = r + 1 /\ (x + 1) \div 3 = q
          /\ r = 2 => (x + 1) % 3 = 0 /\ (x + 1) \div 3 = q + 1
    BY <2>1, ThreeSteps
  <2>6. q < n /\ Done(c, i) = q /\ LoopAt(c, i) = r /\ i = h + 1 + 3 * q + r
        /\ i + 1 <= h + 3 * n + 1
    BY <1>1, <2>1, <2>2, <2>5
  <2>7. h < i /\ i < TailAt(c) /\ i + 1 <= TailAt(c) /\ q \in 0 .. n /\ q + 1 \in 0 .. n
    BY <1>1, <2>1, <2>6
  <2>8. CASE r < 2
    <3>1. x + 1 < 3 * n
      BY <1>1, <2>5, <2>6, <2>8
    <3>2. Done(c, i + 1) = q /\ LoopAt(c, i + 1) = r + 1 /\ InLoop(c, i + 1)
      BY <2>2, <2>3, <2>4, <2>5, <2>8, <3>1
    <3>3. LoopAt(c, i) < 2 /\ LoopAt(c, i) # 2 /\ LoopAt(c, i) \in {0, 1, 2}
      BY <2>6, <2>8
    <3>4. LoopAt(c, i + 1) = LoopAt(c, i) + 1 /\ Done(c, i + 1) = Done(c, i)
      BY <2>6, <3>2
    <3>5. i = h + 1 + 3 * Done(c, i) + LoopAt(c, i) /\ Done(c, i) < n /\ ~(i <= h)
          /\ ~(i >= TailAt(c)) /\ Done(c, i) \in 0 .. n
      BY <1>1, <2>1, <2>6, <2>7
    <3> QED  BY <1>4, <2>7, <3>2, <3>3, <3>4, <3>5, Zenon DEF h, n
  <2>9. CASE r = 2
    <3>1. Done(c, i + 1) = q + 1
      BY <1>1, <2>1, <2>3, <2>5, <2>6, <2>9
    <3>2. InLoop(c, i + 1) => LoopAt(c, i + 1) = 0
      BY <2>2, <2>5, <2>9
    <3> QED  BY SMTT(30), <1>1, <1>4, <2>6, <2>9, <2>7, <3>1, <3>2 DEF h, n
  <2> QED  BY <2>5, <2>8, <2>9
<1>5. CASE i <= h
  <2>1. ~InLoop(c, i) /\ Done(c, i) = 0 /\ i < TailAt(c)
    BY <1>1, <1>2, <1>3, <1>5
  <2>2. CASE i + 1 <= h
    <3>1. ~InLoop(c, i + 1) /\ Done(c, i + 1) = 0
      BY <1>1, <1>2, <1>3, <2>2
    <3> QED  BY <1>1, <2>1, <3>1 DEF h, n
  <2>3. CASE i = h
    <3>1. 0 % 3 = 0 /\ 0 \div 3 = 0 /\ i + 1 - h - 1 = 0
      BY <1>1, <2>3
    <3>2. LoopAt(c, i + 1) = 0 /\ (InLoop(c, i + 1) <=> n > 0)
      BY <1>1, <1>2, <2>3, <3>1
    <3>3. Done(c, i + 1) = 0
      BY <1>1, <1>3, <2>3, <3>1, <3>2
    <3> QED  BY <1>1, <2>1, <3>2, <3>3 DEF h, n
  <2> QED  BY <1>1, <1>5, <2>2, <2>3
<1>6. CASE i >= TailAt(c)
  <2>1. ~InLoop(c, i) /\ ~InLoop(c, i + 1) /\ i > h
    BY <1>1, <1>2, <1>6
  <2>2. Done(c, i) = n /\ Done(c, i + 1) = n
    BY <1>1, <1>3, <2>1
  <2> QED  BY <1>1, <1>6, <2>1, <2>2 DEF h, n
<1> QED  BY SMTT(30), <1>1, <1>2, <1>4, <1>5, <1>6 DEF h, n

(* The step a call is at, by its place in the call. *)
LEMMA StepPlaces ==
  ASSUME NEW c \in Calls, NEW r, RoutineOf(c.kind) = r, NEW i \in 1 .. CallLen(c),
         Len(r.body) \in {0, 3}
  PROVE  /\ i <= HeadLen(c) => StepAt(c, i) = r.head[i]
         /\ InLoop(c, i) /\ Len(r.body) = 3 =>
              StepAt(c, i) = r.body[LoopAt(c, i) + 1] /\ ByteAt(c, i) = c.bytes[Done(c, i) + 1]
         /\ i >= TailAt(c) => StepAt(c, i) = r.tail[i - TailAt(c) + 1]
<1>1. HeadLen(c) \in Nat /\ LoopLen(c) \in Nat /\ CallLen(c) \in Nat /\ i \in Nat
      /\ TailAt(c) = HeadLen(c) + LoopLen(c) + 1
  BY LengthTypes DEF TailAt
<1>2. CASE i <= HeadLen(c)
  BY <1>1, <1>2 DEF StepAt, InLoop
<1>3. CASE InLoop(c, i)
  <2>1. ~(i <= HeadLen(c)) /\ i <= HeadLen(c) + LoopLen(c) /\ ~(i >= TailAt(c))
    BY <1>1, <1>3 DEF InLoop
  <2> QED  BY <1>3, <2>1 DEF StepAt, ByteAt, LoopAt, Done
<1>4. CASE i >= TailAt(c)
  <2>1. ~(i <= HeadLen(c)) /\ ~(i <= HeadLen(c) + LoopLen(c)) /\ ~InLoop(c, i)
        /\ i - HeadLen(c) - LoopLen(c) = i - TailAt(c) + 1
    BY <1>1, <1>4 DEF InLoop
  <2> QED  BY <1>4, <2>1 DEF StepAt
<1> QED  BY <1>1, <1>2, <1>3, <1>4 DEF InLoop

Restoring == {Set("CE", 1), Set("WE", 1), Set("RE", 1), Set("ALE", 0), Set("CLE", 0)}

LEMMA WriteSteps ==
  ASSUME NEW c \in Calls, c.kind \in WriteKinds, NEW i \in 1 .. CallLen(c)
  PROVE  /\ i = 1 => StepAt(c, i) = Set("CE", 0)
         /\ 1 < i /\ i <= HeadLen(c) =>
              StepAt(c, i) = IF c.kind = "command" THEN Set("CLE", 1) ELSE Set("ALE", 1)
         /\ InLoop(c, i) =>
              /\ StepAt(c, i) = CASE LoopAt(c, i) = 0 -> Set("WE", 0)
                                  [] LoopAt(c, i) = 1 -> DQByte
                                  [] LoopAt(c, i) = 2 -> Set("WE", 1)
              /\ ByteAt(c, i) = c.bytes[Done(c, i) + 1]
         /\ i >= TailAt(c) =>
              /\ StepAt(c, i) \in Restoring
              /\ c.kind = "command" /\ i = TailAt(c) => StepAt(c, i) = Set("CLE", 0)
              /\ c.kind = "address" /\ i = TailAt(c) + 3 => StepAt(c, i) = Set("ALE", 0)
<1> DEFINE r == RoutineOf(c.kind)
<1>1. /\ HeadLen(c) = (IF c.kind = "data" THEN 1 ELSE 2)
      /\ CallLen(c) = TailAt(c) - 1 + (IF c.kind = "command" THEN 6 ELSE 5)
      /\ TailAt(c) \in Nat /\ i \in Nat /\ i >= 1
  BY Lengths, CallTypes DEF WriteKinds
<1>2. r = CASE c.kind = "command" -> SendCommand [] c.kind = "address" -> SendAddresses
            [] c.kind = "data" -> SendData
  BY DEF RoutineOf, WriteKinds
<1>3. Len(r.body) = 3 /\ r.body[1] = Set("WE", 0) /\ r.body[2] = DQByte /\ r.body[3] = Set("WE", 1)
  BY <1>2, CommandTable, AddressTable, DataTable DEF WriteKinds
<1> HIDE DEF r
<1>4. /\ i <= HeadLen(c) => StepAt(c, i) = r.head[i]
      /\ InLoop(c, i) => StepAt(c, i) = r.body[LoopAt(c, i) + 1]
                         /\ ByteAt(c, i) = c.bytes[Done(c, i) + 1]
      /\ i >= TailAt(c) => StepAt(c, i) = r.tail[i - TailAt(c) + 1]
  BY <1>3, StepPlaces DEF r
<1>5. CASE i <= HeadLen(c)
  <2>1. ~InLoop(c, i) /\ ~(i >= TailAt(c)) /\ (i = 1 \/ i = 2)
    BY <1>1, <1>5, Lengths DEF InLoop
  <2> QED
    BY <1>1, <1>2, <1>4, <1>5, <2>1, CommandTable, AddressTable, DataTable DEF WriteKinds
<1>6. CASE InLoop(c, i)
  <2>1. i > HeadLen(c) /\ ~(i >= TailAt(c)) /\ LoopAt(c, i) \in {0, 1, 2} /\ i # 1
    <3>1. LoopAt(c, i) \in {0, 1, 2}
      BY <1>1, <1>6, LoopSteps
    <3>2. HeadLen(c) \in Nat /\ HeadLen(c) >= 1
      BY LengthTypes
    <3> QED  BY <1>1, <1>6, <3>1, <3>2 DEF InLoop
  <2> QED  BY <1>1, <1>3, <1>4, <1>6, <2>1
<1>7. CASE i >= TailAt(c)
  <2>1. ~InLoop(c, i) /\ i > HeadLen(c) /\ i # 1
    BY <1>1, <1>7, Lengths DEF InLoop
  <2> DEFINE j == i - TailAt(c) + 1
  <2>2. j \in 1 .. 6 /\ (c.kind # "command" => j \in 1 .. 5)
        /\ (i = TailAt(c) => j = 1) /\ (i = TailAt(c) + 3 => j = 4)
    BY <1>1, <1>7
  <2>3. StepAt(c, i) = r.tail[j]
    BY <1>4, <1>7
  <2> HIDE DEF j
  <2>4. r.tail[j] \in Restoring
    <3>1. CASE c.kind = "command"
      <4>1. j = 1 \/ j = 2 \/ j = 3 \/ j = 4 \/ j = 5 \/ j = 6
        BY <2>2
      <4> QED  BY <1>2, <3>1, <4>1, CommandTable DEF Restoring
    <3>2. CASE c.kind = "address"
      <4>1. j = 1 \/ j = 2 \/ j = 3 \/ j = 4 \/ j = 5
        BY <2>2, <3>2
      <4> QED  BY <1>2, <3>2, <4>1, AddressTable DEF Restoring
    <3>3. CASE c.kind = "data"
      <4>1. j = 1 \/ j = 2 \/ j = 3 \/ j = 4 \/ j = 5
        BY <2>2, <3>3
      <4> QED  BY <1>2, <3>3, <4>1, DataTable DEF Restoring
    <3> QED  BY <3>1, <3>2, <3>3 DEF WriteKinds
  <2>5. c.kind = "command" /\ i = TailAt(c) => r.tail[j] = Set("CLE", 0)
    BY <1>2, <2>2, CommandTable
  <2>6. c.kind = "address" /\ i = TailAt(c) + 3 => r.tail[j] = Set("ALE", 0)
    BY <1>2, <2>2, AddressTable
  <2>7. ~(i <= HeadLen(c))
    BY <1>1, <2>1, LengthTypes
  <2> QED  BY <1>7, <2>1, <2>3, <2>4, <2>5, <2>6, <2>7
<1>8. i <= HeadLen(c) \/ InLoop(c, i) \/ i >= TailAt(c)
  BY <1>1, LengthTypes DEF InLoop
<1> QED  BY <1>5, <1>6, <1>7, <1>8

LEMMA ReadSteps ==
  ASSUME NEW c \in Calls, c.kind = "read", NEW i \in 1 .. CallLen(c)
  PROVE  /\ HeadLen(c) = 10
         /\ i <= 5 => StepAt(c, i) \in Restoring
         /\ i = 6 => StepAt(c, i) = DQOut
         /\ i = 7 => StepAt(c, i) = DQZero
         /\ i = 8 => StepAt(c, i) = DQIn
         /\ i = 9 => StepAt(c, i) = Await
         /\ i = 10 => StepAt(c, i) = Set("CE", 0)
         /\ InLoop(c, i) => StepAt(c, i) = CASE LoopAt(c, i) = 0 -> Set("RE", 0)
                                             [] LoopAt(c, i) = 1 -> DQRead
                                             [] LoopAt(c, i) = 2 -> Set("RE", 1)
         /\ i = TailAt(c) => StepAt(c, i) = DQOut
         /\ i > TailAt(c) => StepAt(c, i) \in Restoring \cup {DQOut, DQZero}
<1> DEFINE r == RoutineOf(c.kind)
<1>1. /\ HeadLen(c) = 10 /\ CallLen(c) = TailAt(c) - 1 + 9
      /\ TailAt(c) \in Nat /\ TailAt(c) > 10 /\ i \in Nat /\ i >= 1
  BY Lengths, LengthTypes
<1>2. r = GetData
  BY DEF RoutineOf
<1>3. Len(r.body) = 3
  BY <1>2, ReadTable
<1> HIDE DEF r
<1>4. /\ i <= HeadLen(c) => StepAt(c, i) = r.head[i]
      /\ InLoop(c, i) => StepAt(c, i) = r.body[LoopAt(c, i) + 1]
      /\ i >= TailAt(c) => StepAt(c, i) = r.tail[i - TailAt(c) + 1]
  BY <1>3, StepPlaces DEF r
<1>5. CASE i <= 10
  <2>1. ~InLoop(c, i) /\ ~(i >= TailAt(c)) /\ i \in 1 .. 10 /\ StepAt(c, i) = GetData.head[i]
    BY <1>1, <1>2, <1>4, <1>5 DEF InLoop
  <2>2. i <= 5 => i = 1 \/ i = 2 \/ i = 3 \/ i = 4 \/ i = 5
    BY <2>1
  <2>3. i <= 5 => StepAt(c, i) \in Restoring
    BY <2>1, <2>2, ReadTable DEF Restoring
  <2> QED  BY <1>1, <2>1, <2>3, ReadTable
<1>6. CASE InLoop(c, i)
  <2>1. LoopAt(c, i) \in {0, 1, 2}
    BY <1>1, <1>6, LoopSteps
  <2>2. i > 10 /\ ~(i >= TailAt(c))
    BY <1>1, <1>6 DEF InLoop
  <2> QED  BY <1>1, <1>2, <1>4, <1>6, <2>1, <2>2, ReadTable
<1>7. CASE i >= TailAt(c)
  <2> DEFINE j == i - TailAt(c) + 1
  <2>1. j \in 1 .. 9 /\ (i = TailAt(c) <=> j = 1) /\ i > 10 /\ ~InLoop(c, i)
    BY <1>1, <1>7 DEF InLoop
  <2>2. StepAt(c, i) = GetData.tail[j]
    BY <1>2, <1>4, <1>7
  <2> HIDE DEF j
  <2>3. j = 1 \/ j = 2 \/ j = 3 \/ j = 4 \/ j = 5 \/ j = 6 \/ j = 7 \/ j = 8 \/ j = 9
    BY <2>1
  <2>4. /\ j = 1 => StepAt(c, i) = DQOut
        /\ j # 1 => StepAt(c, i) \in Restoring \cup {DQOut, DQZero}
    BY <2>2, <2>3, ReadTable DEF Restoring
  <2> QED  BY <1>1, <2>1, <2>4
<1>8. i <= 10 \/ InLoop(c, i) \/ i >= TailAt(c)
  BY <1>1 DEF InLoop
<1> QED  BY <1>5, <1>6, <1>7, <1>8

LEMMA InitSteps ==
  ASSUME NEW c \in Calls, c.kind = "init", NEW i \in 1 .. CallLen(c)
  PROVE  CallLen(c) = 21 /\ StepAt(c, i) = DeviceInitialization.head[i]
<1>1. RoutineOf(c.kind) = DeviceInitialization /\ HeadLen(c) = 21
  BY Lengths DEF RoutineOf
<1>2. c.bytes = <<>> /\ Len(c.bytes) = 0
  BY CallTypes
<1>3. CallLen(c) = 21
  BY <1>1, <1>2, Lengths
<1>4. Len(DeviceInitialization.body) \in {0, 3} /\ i <= HeadLen(c)
  BY <1>1, <1>3, InitTable
<1> QED  BY <1>1, <1>3, <1>4, StepPlaces

-----------------------------------------------------------------------------
(* What a step of the host does, given what it is. *)

HostStep == SetPin \/ DirectPin \/ DirectDQ \/ SetDQ \/ ReadDQ \/ AwaitReady

LEMMA StepAdvances ==
  ASSUME HostStep
  PROVE  at \in 1 .. CallLen(call) /\ at' = at + 1 /\ inited' = inited /\ call' = call
BY DEF HostStep, Doing, SetPin, DirectPin, DirectDQ, SetDQ, ReadDQ, AwaitReady

LEMMA SetEffect ==
  ASSUME HostStep, NEW p, NEW v, StepAt(call, at) = Set(p, v)
  PROVE  level' = [level EXCEPT ![p] = v] /\ PackageSees /\ UNCHANGED <<outputs, dq, got>>
BY DEF HostStep, Doing, SetPin, DirectPin, DirectDQ, SetDQ, ReadDQ, AwaitReady, Set

LEMMA OutEffect ==
  ASSUME HostStep, NEW p, StepAt(call, at) = Out(p)
  PROVE  /\ outputs' = outputs \cup {p} /\ PackageSees /\ UNCHANGED <<dq, got>>
         /\ IF p \in outputs THEN level' = level
            ELSE \E value \in {0, 1} : level' = [level EXCEPT ![p] = value]
BY DEF HostStep, Doing, SetPin, DirectPin, DirectDQ, SetDQ, ReadDQ, AwaitReady, Out

LEMMA BusEffects ==
  ASSUME HostStep
  PROVE  /\ StepAt(call, at) = DQOut => outputs' = outputs \cup {"DQ"} /\ dq' = dq
         /\ StepAt(call, at) = DQIn => outputs' = outputs \ {"DQ"} /\ dq' = dq
         /\ StepAt(call, at) = DQZero => dq' = Zero /\ outputs' = outputs
         /\ StepAt(call, at) = DQByte => dq' = ByteAt(call, at) /\ outputs' = outputs
         /\ StepAt(call, at) \in {DQOut, DQIn, DQZero, DQByte} =>
              UNCHANGED <<level, rb, got, latched, shown>>
BY DEF HostStep, Doing, SetPin, DirectPin, DirectDQ, SetDQ, ReadDQ, AwaitReady,
       DQOut, DQIn, DQZero, DQByte

LEMMA ReadEffect ==
  ASSUME HostStep, StepAt(call, at) = DQRead
  PROVE  /\ got' = Append(got, IF PutsOut(level) /\ "DQ" \notin outputs THEN shown ELSE 0)
         /\ UNCHANGED <<level, outputs, dq, rb, latched, shown>>
BY DEF HostStep, Doing, SetPin, DirectPin, DirectDQ, SetDQ, ReadDQ, AwaitReady, DQRead

LEMMA AwaitEffect ==
  ASSUME HostStep, StepAt(call, at) = Await
  PROVE  rb = 1 /\ UNCHANGED <<level, outputs, dq, rb, got, latched, shown>>
BY DEF HostStep, Doing, SetPin, DirectPin, DirectDQ, SetDQ, ReadDQ, AwaitReady, Await

(* The package latches nothing unless WE# rises, and puts out nothing while RE#
   is high. *)
LEMMA SeesNothing ==
  ASSUME PackageSees, level["WE"] = 1 \/ level'["WE"] = 0 \/ level'["WE"] = level["WE"]
  PROVE  latched' = latched /\ rb' = rb
BY DEF PackageSees, Latches

LEMMA ShowsNothing ==
  ASSUME PackageSees, level'["RE"] = 1
  PROVE  shown' = shown
BY DEF PackageSees, PutsOut

-----------------------------------------------------------------------------
(* A write: every step of it keeps WriteOK, and the edge that ends a byte lets
   the package latch that byte. *)

Cycles == [kind : {"command", "address", "data"}, byte : Bytes \cup {"float"}]

PinTypes ==
  /\ level \in [Pins -> {0, 1}] /\ outputs \subseteq AllOut /\ dq \in Bytes /\ rb \in {0, 1}

LogTypes == shown \in 0 .. MaxBytes + 1 /\ got \in Seq(Nat) /\ latched \in Seq(Cycles)

LEMMA SeesTypes ==
  ASSUME PackageSees, rb \in {0, 1}, shown \in Nat
  PROVE  rb' \in {0, 1} /\ shown' \in {shown, shown + 1}
BY DEF PackageSees

LEMMA SetLevel ==
  ASSUME level \in [Pins -> {0, 1}], NEW p \in Pins, NEW v \in {0, 1},
         level' = [level EXCEPT ![p] = v]
  PROVE  level' \in [Pins -> {0, 1}] /\ \A q \in Pins : level'[q] = IF q = p THEN v ELSE level[q]
OBVIOUS

LEMMA RestoringSteps ==
  ASSUME NEW s \in Restoring
  PROVE  \E p \in Pins, v \in {0, 1} :
           /\ s = Set(p, v)
           /\ p \in {"CE", "WE", "RE"} => v = 1
           /\ p \in {"ALE", "CLE"} => v = 0
BY DEF Restoring, Pins

LEMMA SetFields ==
  ASSUME NEW p, NEW v, NEW q, NEW w, Set(p, v) = Set(q, w)
  PROVE  p = q /\ v = w
BY DEF Set

(* where the call stands before a step at i and after it                   *)
Moves(i, k, m, n, H, T) ==
  /\ k \in 0 .. n /\ m \in 0 .. n
  /\ InLoop(call, i) => LoopAt(call, i) \in {0, 1, 2} /\ k < n /\ i + 1 <= T
  /\ InLoop(call, i) /\ LoopAt(call, i) < 2 =>
       InLoop(call, i + 1) /\ LoopAt(call, i + 1) = LoopAt(call, i) + 1 /\ m = k
  /\ InLoop(call, i) /\ LoopAt(call, i) = 2 =>
       /\ InLoop(call, i + 1) => LoopAt(call, i + 1) = 0
       /\ m = k + 1
  /\ i <= H => /\ InLoop(call, i + 1) => LoopAt(call, i + 1) = 0
               /\ k = 0 /\ m = 0
  /\ i >= T => ~InLoop(call, i + 1) /\ k = n /\ m = n

LEMMA Moving ==
  ASSUME call \in Calls, HostStep
  PROVE  LET H == HeadLen(call)  T == TailAt(call)  n == Len(call.bytes)
             k == Done(call, at)  m == Done(call, at + 1)
         IN  /\ at \in 1 .. CallLen(call) /\ at' = at + 1 /\ call' = call
             /\ at \in Nat /\ at >= 1
             /\ n \in Nat /\ n <= MaxBytes /\ call.bytes \in Seq(Bytes)
             /\ H \in Nat /\ T \in Nat /\ T > H
             /\ TailAt(call)' = T /\ InLoop(call, at)' = InLoop(call, at + 1)
             /\ LoopAt(call, at)' = LoopAt(call, at + 1) /\ Done(call, at)' = m
             /\ Moves(at, k, m, n, H, T)
             /\ at <= H \/ InLoop(call, at) \/ at >= T
             /\ at <= H => ~InLoop(call, at)
             /\ at >= T => ~InLoop(call, at)
             /\ InLoop(call, at) => H < at /\ at < T
<1> DEFINE H == HeadLen(call)  T == TailAt(call)  n == Len(call.bytes)
           k == Done(call, at)  m == Done(call, at + 1)
<1>1. /\ at \in 1 .. CallLen(call) /\ at' = at + 1 /\ call' = call
      /\ n \in Nat /\ n <= MaxBytes /\ call.bytes \in Seq(Bytes)
      /\ H \in Nat /\ T \in Nat /\ T > H
  BY StepAdvances, LengthTypes, Lengths, CallTypes
<1>2. at \in Nat /\ at >= 1
  BY <1>1, LengthTypes
<1>3. TailAt(call)' = T /\ InLoop(call, at)' = InLoop(call, at + 1)
      /\ LoopAt(call, at)' = LoopAt(call, at + 1) /\ Done(call, at)' = m
  BY <1>1
<1>4. Moves(at, k, m, n, H, T)
  BY <1>1, <1>2, LoopSteps DEF Moves
<1>5. /\ at <= H \/ InLoop(call, at) \/ at >= T
      /\ at <= H => ~InLoop(call, at)
      /\ at >= T => ~InLoop(call, at)
      /\ InLoop(call, at) => H < at /\ at < T
  BY <1>1, <1>2 DEF InLoop
<1> QED  BY <1>1, <1>2, <1>3, <1>4, <1>5

LEMMA WriteStep ==
  ASSUME call \in Calls, call.kind \in WriteKinds, PinTypes, LogTypes, WriteOK, HostStep
  PROVE  WriteOK' /\ PinTypes' /\ LogTypes'
<1> DEFINE H == HeadLen(call)  T == TailAt(call)  n == Len(call.bytes)
           k == Done(call, at)  m == Done(call, at + 1)
           s == StepAt(call, at)
<1>1. /\ at \in 1 .. CallLen(call) /\ at' = at + 1 /\ call' = call
      /\ n \in Nat /\ n <= MaxBytes /\ call.bytes \in Seq(Bytes)
      /\ H \in Nat /\ T \in Nat /\ T > H
  BY Moving
<1>2. at \in Nat /\ at >= 1
  BY Moving
<1>3. H = IF call.kind = "data" THEN 1 ELSE 2
  BY Lengths DEF WriteKinds
<1>4. TailAt(call)' = T /\ InLoop(call, at)' = InLoop(call, at + 1)
      /\ LoopAt(call, at)' = LoopAt(call, at + 1) /\ Done(call, at)' = m
  BY Moving
<1>5. Moves(at, k, m, n, H, T)
  BY Moving
<1>6. /\ at <= H \/ InLoop(call, at) \/ at >= T
      /\ at <= H => ~InLoop(call, at)
      /\ at >= T => ~InLoop(call, at)
      /\ InLoop(call, at) => H < at /\ at < T
  BY Moving
<1> USE DEF Moves
<1> HIDE DEF H, T, n, k, m, s
<1>7. CASE at <= H
  <2>1. ~InLoop(call, at) /\ k = 0 /\ m = 0 /\ at + 1 <= T
        /\ (InLoop(call, at + 1) => LoopAt(call, at + 1) = 0)
    BY <1>1, <1>2, <1>5, <1>6, <1>7
  <2>2. PICK p \in {"CE", "CLE", "ALE"}, v \in {0, 1} :
          /\ s = Set(p, v)
          /\ at = 1 => p = "CE" /\ v = 0
          /\ at # 1 => at = 2 /\ v = 1 /\ p = IF call.kind = "command" THEN "CLE" ELSE "ALE"
    <3>1. CASE at = 1
      BY <1>1, <3>1, WriteSteps DEF s
    <3>2. CASE at # 1
      <4>1. at = 2 /\ 1 < at
        BY <1>2, <1>3, <1>7, <3>2
      <4> QED  BY <1>1, <1>7, <4>1, WriteSteps DEF s, H
    <3> QED  BY <3>1, <3>2
  <2>3. /\ level' = [level EXCEPT ![p] = v] /\ PackageSees /\ UNCHANGED <<outputs, dq, got>>
    BY <2>2, SetEffect DEF s
  <2>4. level' \in [Pins -> {0, 1}] /\ \A q \in Pins : level'[q] = IF q = p THEN v ELSE level[q]
    BY <2>2, <2>3, SetLevel DEF PinTypes, Pins
  <2>5. latched' = latched /\ rb' = rb
    BY <2>2, <2>3, <2>4, SeesNothing DEF Pins
  <2>6. shown' = shown
    BY <2>2, <2>3, <2>4, ShowsNothing DEF Pins, WriteOK
  <2>7. /\ level'["RE"] = 1 /\ level'["WE"] = 1 /\ level'["CE"] = 0
        /\ level'["CLE"] = IF call.kind = "command" /\ 2 < at + 1 THEN 1 ELSE 0
        /\ level'["ALE"] = IF call.kind = "address" /\ 2 < at + 1 THEN 1 ELSE 0
    <3>1. level["RE"] = 1 /\ level["WE"] = 1
      BY <1>6, <1>7 DEF WriteOK
    <3>2. CASE at = 1
      <4>1. p = "CE" /\ v = 0 /\ level["CLE"] = 0 /\ level["ALE"] = 0
        BY <2>2, <3>2 DEF WriteOK
      <4> QED  BY <2>4, <3>1, <3>2, <4>1 DEF Pins
    <3>3. CASE at # 1
      <4>1. /\ at = 2 /\ v = 1 /\ p = (IF call.kind = "command" THEN "CLE" ELSE "ALE")
            /\ call.kind \in {"command", "address"} /\ at <= T /\ 1 < at
        BY <1>1, <1>2, <1>3, <1>7, <2>2, <3>3 DEF WriteKinds
      <4>2. level["CE"] = 0 /\ level["CLE"] = 0 /\ level["ALE"] = 0
        BY <4>1 DEF WriteOK, T
      <4> QED  BY <2>4, <3>1, <4>1, <4>2 DEF Pins
    <3> QED  BY <3>2, <3>3
  <2>8. ~(InLoop(call, at + 1) /\ LoopAt(call, at + 1) # 0) /\ ~(at + 1 > T + 3)
    BY <1>1, <1>2, <2>1
  <2>9. outputs = AllOut /\ latched = <<>> /\ got = <<>> /\ shown = 0
    BY <1>5, <1>7 DEF WriteOK, LogTypes, k
  <2>10. WriteOK'
    BY <1>1, <1>2, <1>4, <2>1, <2>3, <2>5, <2>6, <2>7, <2>8, <2>9 DEF WriteOK
  <2> QED  BY <2>3, <2>4, <2>5, <2>6, <2>10 DEF PinTypes, LogTypes
<1>8. CASE InLoop(call, at) /\ LoopAt(call, at) = 1
  <2>1. s = DQByte /\ ByteAt(call, at) = call.bytes[k + 1]
    BY <1>1, <1>8, WriteSteps DEF s, k
  <2>2. dq' = call.bytes[k + 1] /\ UNCHANGED <<outputs, level, rb, got, latched, shown>>
    BY <2>1, BusEffects DEF s
  <2>3. dq' \in Bytes
    BY <1>1, <1>5, <1>8, <2>2 DEF n
  <2>4. WriteOK'
    BY <1>1, <1>2, <1>3, <1>4, <1>5, <1>6, <1>8, <2>2 DEF WriteOK, Pins, T, k
  <2> QED  BY <2>2, <2>3, <2>4 DEF PinTypes, LogTypes
<1>9. CASE InLoop(call, at) /\ LoopAt(call, at) = 0
  <2>1. s = Set("WE", 0)
    BY <1>1, <1>9, WriteSteps DEF s
  <2>2. level' = [level EXCEPT !["WE"] = 0] /\ PackageSees /\ UNCHANGED <<outputs, dq, got>>
    BY <2>1, SetEffect DEF s
  <2>3. level' \in [Pins -> {0, 1}] /\ \A q \in Pins : level'[q] = IF q = "WE" THEN 0 ELSE level[q]
    BY <2>2 DEF PinTypes, Pins
  <2>4. latched' = latched /\ rb' = rb /\ shown' = shown
    BY <2>2, <2>3, SeesNothing, ShowsNothing DEF Pins, WriteOK
  <2>5. WriteOK'
    BY <1>1, <1>2, <1>3, <1>4, <1>5, <1>6, <1>9, <2>2, <2>3, <2>4 DEF WriteOK, Pins, T, k
  <2> QED  BY <2>2, <2>3, <2>4, <2>5 DEF PinTypes, LogTypes
<1>10. CASE InLoop(call, at) /\ LoopAt(call, at) = 2
  <2>1. s = Set("WE", 1)
    BY <1>1, <1>10, WriteSteps DEF s
  <2>2. level' = [level EXCEPT !["WE"] = 1] /\ PackageSees /\ UNCHANGED <<outputs, dq, got>>
    BY <2>1, SetEffect DEF s
  <2>3. level' \in [Pins -> {0, 1}] /\ \A q \in Pins : level'[q] = IF q = "WE" THEN 1 ELSE level[q]
    BY <2>2 DEF PinTypes, Pins
  <2>4. shown' = shown
    BY <2>2, <2>3, ShowsNothing DEF Pins, WriteOK
  <2>5. /\ level["CE"] = 0 /\ CycleKind(level) = call.kind
    <3>1. 1 < at /\ at <= T /\ (call.kind # "data" => 2 < at)
      BY <1>1, <1>2, <1>3, <1>6, <1>10
    <3>2. /\ level["CE"] = 0
          /\ level["CLE"] = IF call.kind = "command" THEN 1 ELSE 0
          /\ level["ALE"] = IF call.kind = "address" THEN 1 ELSE 0
      BY <3>1 DEF WriteOK, T, WriteKinds
    <3> QED  BY <3>2 DEF CycleKind, WriteKinds
  <2>6. OnBus = call.bytes[k + 1] /\ call.bytes[k + 1] \in Bytes
    BY <1>1, <1>5, <1>10 DEF OnBus, WriteOK, AllOut, k, n
  <2>7. Latches
    BY <1>10, <2>3, <2>5 DEF Latches, WriteOK, Pins
  <2>8. latched' = Append(latched, [kind |-> call.kind, byte |-> call.bytes[k + 1]])
    BY <2>2, <2>5, <2>6, <2>7 DEF PackageSees
  <2>9. latched' \in Seq(Cycles)
    BY <2>6, <2>8 DEF LogTypes, Cycles, WriteKinds
  <2>10. Len(latched') = m /\ \A j \in 1 .. m : latched'[j] = [kind |-> call.kind, byte |-> call.bytes[j]]
    BY <1>5, <1>10, <2>8 DEF WriteOK, LogTypes, k
  <2>11. rb' \in {0, 1}
    BY <2>2, SeesTypes DEF PinTypes, LogTypes
  <2>12. WriteOK'
    BY SMTT(30), <1>1, <1>2, <1>3, <1>4, <1>5, <1>6, <1>10, <2>2, <2>3, <2>4, <2>10 DEF WriteOK, Pins, T
  <2> QED  BY <2>2, <2>3, <2>4, <2>9, <2>11, <2>12 DEF PinTypes, LogTypes
<1>11. CASE at >= T
  <2>1. /\ s \in Restoring
        /\ call.kind = "command" /\ at = T => s = Set("CLE", 0)
        /\ call.kind = "address" /\ at = T + 3 => s = Set("ALE", 0)
    BY <1>1, <1>11, WriteSteps DEF s, T
  <2>2. PICK p \in Pins, v \in {0, 1} :
          /\ s = Set(p, v)
          /\ p \in {"CE", "WE", "RE"} => v = 1
          /\ p \in {"ALE", "CLE"} => v = 0
    BY <2>1, RestoringSteps
  <2>3. level' = [level EXCEPT ![p] = v] /\ PackageSees /\ UNCHANGED <<outputs, dq, got>>
    BY <2>2, SetEffect DEF s
  <2>4. level' \in [Pins -> {0, 1}] /\ \A q \in Pins : level'[q] = IF q = p THEN v ELSE level[q]
    BY <2>2, <2>3, SetLevel DEF PinTypes
  <2>5. level["WE"] = 1 /\ level["RE"] = 1
    BY <1>6, <1>11 DEF WriteOK
  <2>6. level'["WE"] = 1 /\ level'["RE"] = 1
    BY <2>2, <2>4, <2>5 DEF Pins
  <2>7. latched' = latched /\ rb' = rb /\ shown' = shown
    BY <2>3, <2>5, <2>6, SeesNothing, ShowsNothing
  <2>8. /\ level["CLE"] = 0 \/ (call.kind = "command" /\ at = T)
        /\ level["ALE"] = 0 \/ (call.kind = "address" /\ at <= T + 3)
    BY <1>1, <1>2, <1>11 DEF WriteOK, T
  <2>9. level'["CLE"] = 0
    BY <2>1, <2>2, <2>4, <2>8, SetFields DEF Pins
  <2>10. level'["ALE"] = 0 \/ (call.kind = "address" /\ at < T + 3)
    <3>1. CASE level["ALE"] = 0
      BY <2>2, <2>4, <3>1 DEF Pins
    <3>2. CASE call.kind = "address" /\ at = T + 3
      <4>1. p = "ALE" /\ v = 0
        BY <2>1, <2>2, <3>2, SetFields
      <4> QED  BY <2>4, <4>1 DEF Pins
    <3> QED  BY <1>1, <1>2, <2>8, <3>1, <3>2
  <2>11. WriteOK'
    BY <1>1, <1>2, <1>3, <1>4, <1>5, <1>6, <1>11, <2>3, <2>6, <2>7, <2>9, <2>10
       DEF WriteOK, k, T
  <2> QED  BY <2>3, <2>4, <2>7, <2>11 DEF PinTypes, LogTypes
<1> QED  BY <1>5, <1>6, <1>7, <1>8, <1>9, <1>10, <1>11

(* A read: the host lets go of the data bus before the package may drive it, waits
   for R/B# before it selects the package, and takes each byte once. *)
LEMMA ReadStep ==
  ASSUME call \in Calls, call.kind = "read", PinTypes, LogTypes, ReadOK, HostStep
  PROVE  ReadOK' /\ PinTypes' /\ LogTypes'
<1> DEFINE H == HeadLen(call)  T == TailAt(call)  n == Len(call.bytes)
           k == Done(call, at)  m == Done(call, at + 1)
           s == StepAt(call, at)
<1>1. /\ at \in 1 .. CallLen(call) /\ at' = at + 1 /\ call' = call
      /\ n \in Nat /\ n <= MaxBytes
      /\ H \in Nat /\ T \in Nat /\ T > H
  BY Moving
<1>2. at \in Nat /\ at >= 1
  BY Moving
<1>3. H = 10
  BY Lengths
<1>4. TailAt(call)' = T /\ InLoop(call, at)' = InLoop(call, at + 1)
      /\ LoopAt(call, at)' = LoopAt(call, at + 1) /\ Done(call, at)' = m
  BY Moving
<1>5. Moves(at, k, m, n, H, T)
  BY Moving
<1>6. /\ at <= H \/ InLoop(call, at) \/ at >= T
      /\ at <= H => ~InLoop(call, at)
      /\ at >= T => ~InLoop(call, at)
      /\ InLoop(call, at) => H < at /\ at < T
  BY Moving
<1> USE DEF Moves
<1> HIDE DEF H, T, n, k, m, s
(* a step that brings the control pins to rest, in the head or in the tail *)
<1>7. CASE s \in Restoring /\ (at <= 5 \/ at > T)
  <2>1. PICK p \in Pins, v \in {0, 1} :
          /\ s = Set(p, v)
          /\ p \in {"CE", "WE", "RE"} => v = 1
          /\ p \in {"ALE", "CLE"} => v = 0
    BY <1>7, RestoringSteps
  <2>2. level' = [level EXCEPT ![p] = v] /\ PackageSees /\ UNCHANGED <<outputs, dq, got>>
    BY <2>1, SetEffect DEF s
  <2>3. level' \in [Pins -> {0, 1}] /\ \A q \in Pins : level'[q] = IF q = p THEN v ELSE level[q]
    BY <2>1, <2>2, SetLevel DEF PinTypes
  <2>4. ~InLoop(call, at) /\ ~InLoop(call, at + 1) /\ k = m /\ ~(10 < at + 1 /\ at + 1 <= T)
        /\ (8 < at + 1 /\ at + 1 <= T <=> 8 < at /\ at <= T)
    BY <1>1, <1>2, <1>3, <1>5, <1>6, <1>7 DEF InLoop, H, T
  <2>5. /\ level'["RE"] = 1 /\ level'["WE"] = 1
        /\ level'["ALE"] = 0 /\ level'["CLE"] = 0
    BY <2>1, <2>3, <2>4 DEF Pins, ReadOK
  <2>6. latched' = latched /\ rb' = rb /\ shown' = shown
    BY <2>2, <2>5, SeesNothing, ShowsNothing DEF ReadOK
  <2>7. at + 1 > 9 => rb = 1
    BY <1>1, <1>2, <1>3, <1>7 DEF ReadOK
  <2>8. ReadOK'
    BY <1>1, <1>4, <2>2, <2>4, <2>5, <2>6, <2>7 DEF ReadOK, T, k
  <2> QED  BY <2>2, <2>3, <2>6, <2>8 DEF PinTypes, LogTypes
(* a step that only turns the data bus round or sets its latch *)
<1>8. CASE \/ s = DQOut /\ (at = 6 \/ at >= T)
           \/ s = DQZero /\ (at = 7 \/ at > T)
           \/ s = DQIn /\ at = 8
  <2>1. /\ dq' \in Bytes /\ UNCHANGED <<level, rb, got, latched, shown>>
        /\ outputs' = CASE s = DQOut -> outputs \cup {"DQ"}
                        [] s = DQIn -> outputs \ {"DQ"} [] OTHER -> outputs
    BY <1>8, BusEffects, BusAssumption DEF s, PinTypes, DQOut, DQIn, DQZero
  <2>2. ~InLoop(call, at) /\ ~InLoop(call, at + 1) /\ k = m /\ ~(10 < at + 1 /\ at + 1 <= T)
    BY <1>1, <1>2, <1>3, <1>5, <1>6, <1>8 DEF InLoop, H, T
  <2>3. outputs' = IF 8 < at + 1 /\ at + 1 <= T THEN Pins ELSE AllOut
    <3>1. CASE s = DQIn
      <4>1. outputs = AllOut /\ s # DQOut /\ at = 8
        BY <1>8, <3>1 DEF ReadOK, DQOut, DQIn, DQZero
      <4>2. AllOut \ {"DQ"} = Pins
        BY DEF AllOut, Pins
      <4> QED  BY <1>1, <1>3, <2>1, <3>1, <4>1, <4>2
    <3>2. CASE s = DQOut
      <4>1. at = 6 \/ at >= T
        BY <1>8, <3>2 DEF DQOut, DQIn, DQZero
      <4>2. outputs \cup {"DQ"} = AllOut
        BY DEF ReadOK, AllOut
      <4>3. ~(8 < at + 1 /\ at + 1 <= T)
        BY <1>1, <1>2, <4>1
      <4>4. outputs' = outputs \cup {"DQ"}
        BY <2>1, <3>2 DEF DQOut, DQIn
      <4> QED  BY <4>2, <4>3, <4>4
    <3>3. CASE s = DQZero
      <4>1. (at = 7 \/ at > T) /\ s # DQOut /\ s # DQIn
        BY <1>8, <3>3 DEF DQOut, DQIn, DQZero
      <4> QED  BY <1>1, <1>2, <1>3, <2>1, <4>1 DEF ReadOK, T
    <3> QED  BY <1>8, <3>1, <3>2, <3>3
  <2>4. at + 1 > 9 => rb = 1
    BY <1>1, <1>2, <1>3, <1>8 DEF ReadOK
  <2>5. ReadOK'
    BY <1>1, <1>4, <2>1, <2>2, <2>3, <2>4 DEF ReadOK, T, k
  <2>6. outputs' \subseteq AllOut
    BY <2>3 DEF AllOut
  <2> QED  BY <2>1, <2>5, <2>6 DEF PinTypes, LogTypes
<1>9. CASE s = Await /\ at = 9
  <2>1. rb = 1 /\ UNCHANGED <<level, outputs, dq, rb, got, latched, shown>>
    BY <1>9, AwaitEffect DEF s
  <2>2. ~InLoop(call, at) /\ ~InLoop(call, at + 1) /\ k = m
    BY <1>1, <1>3, <1>5, <1>6, <1>9 DEF InLoop, H
  <2>3. ReadOK'
    BY <1>1, <1>3, <1>4, <1>9, <2>1, <2>2 DEF ReadOK, T, k
  <2> QED  BY <2>1, <2>3 DEF PinTypes, LogTypes
(* the pins of the loop: CE# first, then RE# down and up *)
<1>10. CASE \/ s = Set("CE", 0) /\ at = 10
            \/ s = Set("RE", 0) /\ InLoop(call, at) /\ LoopAt(call, at) = 0
            \/ s = Set("RE", 1) /\ InLoop(call, at) /\ LoopAt(call, at) = 2
  <2>1. PICK p \in {"CE", "RE"}, v \in {0, 1} :
          /\ s = Set(p, v)
          /\ \/ p = "CE" /\ v = 0 /\ at = 10
             \/ p = "RE" /\ v = 0 /\ InLoop(call, at) /\ LoopAt(call, at) = 0
             \/ p = "RE" /\ v = 1 /\ InLoop(call, at) /\ LoopAt(call, at) = 2
    BY <1>10
  <2>2. level' = [level EXCEPT ![p] = v] /\ PackageSees /\ UNCHANGED <<outputs, dq, got>>
    BY <2>1, SetEffect DEF s
  <2>3. level' \in [Pins -> {0, 1}] /\ \A q \in Pins : level'[q] = IF q = p THEN v ELSE level[q]
    BY <2>1, <2>2, SetLevel DEF PinTypes, Pins
  <2>4. /\ level'["WE"] = 1 /\ level'["ALE"] = 0 /\ level'["CLE"] = 0
        /\ at > 9 /\ rb = 1 /\ at + 1 <= T /\ 10 < at + 1
        /\ outputs = Pins
    BY <1>1, <1>2, <1>3, <1>5, <1>6, <2>1, <2>3 DEF Pins, ReadOK, T
  <2>5. latched' = latched /\ rb' = rb
    BY <2>2, <2>4, SeesNothing DEF ReadOK
  <2>6. CASE p = "CE"
    <3>1. at = 10 /\ v = 0 /\ level["RE"] = 1 /\ k = 0 /\ m = 0 /\ ~InLoop(call, at)
          /\ (InLoop(call, at + 1) => LoopAt(call, at + 1) = 0)
      BY <1>3, <1>5, <1>6, <2>1, <2>6 DEF ReadOK
    <3>2. level'["CE"] = 0 /\ level'["RE"] = 1
      BY <2>3, <2>6, <3>1 DEF Pins
    <3>3. shown' = shown
      BY <2>2, <3>2, ShowsNothing
    <3>4. ReadOK'
      BY <1>1, <1>4, <2>2, <2>4, <2>5, <3>1, <3>2, <3>3 DEF ReadOK, T, k
    <3> QED  BY <2>2, <2>3, <2>5, <3>3, <3>4 DEF PinTypes, LogTypes
  <2>7. CASE p = "RE" /\ v = 0
    <3>1. InLoop(call, at) /\ LoopAt(call, at) = 0
      BY <2>1, <2>7
    <3>2. InLoop(call, at + 1) /\ LoopAt(call, at + 1) = 1 /\ m = k /\ k < n
      BY <1>5, <3>1
    <3>3. level["CE"] = 0 /\ level["RE"] = 1 /\ shown = k
      BY <1>1, <1>2, <1>3, <1>6, <3>1 DEF ReadOK, T, k
    <3>4. level'["CE"] = 0 /\ level'["RE"] = 0
      BY <2>3, <2>7, <3>3 DEF Pins
    <3>5. shown' = k + 1
      BY <2>2, <3>3, <3>4 DEF PackageSees, PutsOut
    <3>6. k + 1 \in 0 .. MaxBytes + 1
      BY <1>1, <1>5, <3>2, BusAssumption
    <3>7. ReadOK'
      BY <1>1, <1>4, <2>2, <2>4, <2>5, <3>1, <3>2, <3>3, <3>4, <3>5 DEF ReadOK, T, k
    <3> QED  BY <2>2, <2>3, <2>5, <3>5, <3>6, <3>7 DEF PinTypes, LogTypes
  <2>8. CASE p = "RE" /\ v = 1
    <3>1. InLoop(call, at) /\ LoopAt(call, at) = 2
      BY <2>1, <2>8
    <3>2. (InLoop(call, at + 1) => LoopAt(call, at + 1) = 0) /\ m = k + 1
      BY <1>5, <3>1
    <3>3. level["CE"] = 0
      BY <1>1, <1>2, <1>3, <1>6, <3>1 DEF ReadOK, T
    <3>4. level'["CE"] = 0 /\ level'["RE"] = 1
      BY <2>3, <2>8, <3>3 DEF Pins
    <3>5. shown' = shown
      BY <2>2, <3>4, ShowsNothing
    <3>6. ReadOK'
      BY <1>1, <1>4, <2>2, <2>4, <2>5, <3>1, <3>2, <3>4, <3>5 DEF ReadOK, T, k
    <3> QED  BY <2>2, <2>3, <2>5, <3>5, <3>6 DEF PinTypes, LogTypes
  <2> QED  BY <2>1, <2>6, <2>7, <2>8
<1>11. CASE s = DQRead /\ InLoop(call, at) /\ LoopAt(call, at) = 1
  <2>1. InLoop(call, at + 1) /\ LoopAt(call, at + 1) = 2 /\ m = k /\ k \in Nat
    BY <1>1, <1>5, <1>11
  <2>2. /\ level["CE"] = 0 /\ level["RE"] = 0 /\ outputs = Pins /\ shown = k + 1
        /\ Len(got) = k
    BY <1>1, <1>2, <1>3, <1>6, <1>11 DEF ReadOK, T, k
  <2>3. PutsOut(level) /\ "DQ" \notin outputs
    BY <2>2 DEF PutsOut, Pins
  <2>4. got' = Append(got, k + 1) /\ UNCHANGED <<level, outputs, dq, rb, latched, shown>>
    BY <1>11, <2>2, <2>3, ReadEffect DEF s
  <2>5. got' \in Seq(Nat) /\ Len(got') = k + 1 /\ \A j \in 1 .. Len(got') : got'[j] = j
    BY <2>1, <2>2, <2>4 DEF ReadOK, LogTypes
  <2>6. ReadOK'
    BY <1>1, <1>2, <1>3, <1>4, <1>5, <1>6, <1>11, <2>1, <2>2, <2>4, <2>5 DEF ReadOK, T, k
  <2> QED  BY <2>4, <2>5, <2>6 DEF PinTypes, LogTypes
<1>12. CASE at <= H
  <2>1. at \in 1 .. 10
    BY <1>2, <1>3, <1>12
  <2>2. \/ s \in Restoring /\ at <= 5
        \/ s = DQOut /\ at = 6
        \/ s = DQZero /\ at = 7
        \/ s = DQIn /\ at = 8
        \/ s = Await /\ at = 9
        \/ s = Set("CE", 0) /\ at = 10
    BY <1>1, <2>1, ReadSteps DEF s
  <2> QED  BY <1>7, <1>8, <1>9, <1>10, <2>2
<1>13. CASE InLoop(call, at)
  <2>1. LoopAt(call, at) = 0 \/ LoopAt(call, at) = 1 \/ LoopAt(call, at) = 2
    BY <1>5, <1>13
  <2>2. s = CASE LoopAt(call, at) = 0 -> Set("RE", 0)
              [] LoopAt(call, at) = 1 -> DQRead
              [] LoopAt(call, at) = 2 -> Set("RE", 1)
    BY <1>1, <1>13, ReadSteps DEF s
  <2> QED  BY <1>10, <1>11, <1>13, <2>1, <2>2
<1>14. CASE at >= T
  <2>1. \/ s = DQOut /\ at = T
        \/ s \in Restoring \cup {DQOut, DQZero} /\ at > T
    BY <1>1, <1>2, <1>14, ReadSteps DEF s, T
  <2> QED  BY <1>1, <1>2, <1>7, <1>8, <2>1
<1> QED  BY <1>6, <1>12, <1>13, <1>14

-----------------------------------------------------------------------------
(* device_initialization: over pins at rest it changes nothing the package sees;
   over pins a dead process left, or none driven yet, it brings them to rest. *)

LEMMA InitPlaces ==
  ASSUME call \in Calls, call.kind = "init", HostStep
  PROVE  /\ at \in 1 .. 21 /\ at' = at + 1 /\ CallLen(call) = 21 /\ call' = call
         /\ StepAt(call, at) = DeviceInitialization.head[at]
BY StepAdvances, InitSteps

InitShape(s, i) ==
  \/ i = 1 /\ s = Out("CLE")
  \/ i = 2 /\ s = Set("CLE", 0)
  \/ i = 3 /\ s = Out("ALE")
  \/ i = 4 /\ s = Set("ALE", 0)
  \/ i = 5 /\ s = Out("RE")
  \/ i = 6 /\ s = Set("RE", 1)
  \/ i = 7 /\ s = Out("WE")
  \/ i = 8 /\ s = Set("WE", 1)
  \/ i = 9 /\ s = Out("CE")
  \/ i = 10 /\ s = Set("CE", 1)
  \/ i > 10 /\ s \in Restoring
  \/ i > 10 /\ s \in {DQOut, DQZero}
  \/ i = 20 /\ s = Set("CE", 0)
  \/ i = 21 /\ s = Await

LEMMA InitShapes ==
  ASSUME NEW i \in 1 .. 21
  PROVE  /\ InitShape(DeviceInitialization.head[i], i)
         /\ i = 11 => DeviceInitialization.head[i] = DQOut
<1>1. /\ i = 11 \/ i = 12 \/ i = 13 \/ i = 14 \/ i = 15 \/ i = 16 \/ i = 17 \/ i = 18 \/ i = 19
         \/ i = 20 \/ i <= 10 \/ i = 21
  OBVIOUS
<1>2. CASE i <= 10
  <2>1. i = 1 \/ i = 2 \/ i = 3 \/ i = 4 \/ i = 5 \/ i = 6 \/ i = 7 \/ i = 8 \/ i = 9 \/ i = 10
    BY <1>2
  <2> QED  BY <2>1, InitTable DEF InitShape
<1>3. CASE i > 10
  <2>1. CASE i = 11 \/ i = 12 \/ i = 18 \/ i = 19
    BY SMTT(30), <2>1, InitTable DEF InitShape
  <2>2. CASE i = 13 \/ i = 14 \/ i = 15 \/ i = 16 \/ i = 17
    <3>1. DeviceInitialization.head[i] \in Restoring /\ i # 11
      BY SMTT(30), <2>2, InitTable DEF Restoring
    <3> QED  BY <1>3, <3>1 DEF InitShape
  <2>3. CASE i = 20 \/ i = 21
    BY <2>3, InitTable DEF InitShape
  <2> QED  BY <1>1, <1>3, <2>1, <2>2, <2>3
<1> QED  BY <1>2, <1>3

LEMMA RestedStep ==
  ASSUME call \in Calls, call.kind = "init", PinTypes, LogTypes, Rested,
         latched = <<>>, got = <<>>, shown = 0, HostStep
  PROVE  /\ Rested' /\ PinTypes' /\ LogTypes'
         /\ latched' = <<>> /\ got' = <<>> /\ shown' = 0
<1> DEFINE s == StepAt(call, at)
<1>1. InitShape(s, at)
  BY InitPlaces, InitShapes
<1> HIDE DEF s
<1>2. CASE \E p \in Pins, v \in {0, 1} :
             /\ s = Set(p, v)
             /\ p \in {"WE", "RE"} => v = 1
             /\ p \in {"ALE", "CLE"} => v = 0
  <2>1. PICK p \in Pins, v \in {0, 1} :
             /\ s = Set(p, v)
             /\ p \in {"WE", "RE"} => v = 1
             /\ p \in {"ALE", "CLE"} => v = 0
    BY <1>2
  <2>2. level' = [level EXCEPT ![p] = v] /\ PackageSees /\ UNCHANGED <<outputs, dq, got>>
    BY <2>1, SetEffect DEF s
  <2>3. level' \in [Pins -> {0, 1}] /\ \A q \in Pins : level'[q] = IF q = p THEN v ELSE level[q]
    BY <2>1, <2>2, SetLevel DEF PinTypes
  <2>4. /\ level'["RE"] = 1 /\ level'["WE"] = 1
        /\ level'["ALE"] = 0 /\ level'["CLE"] = 0
    BY <2>1, <2>3 DEF Pins, Rested
  <2>5. latched' = latched /\ rb' = rb /\ shown' = shown
    BY <2>2, <2>4, SeesNothing, ShowsNothing DEF Rested
  <2> QED  BY <2>2, <2>3, <2>4, <2>5 DEF PinTypes, LogTypes, Rested
<1>3. CASE \E p \in Pins : s = Out(p)
  <2>1. PICK p \in Pins : s = Out(p)
    BY <1>3
  <2>2. p \in outputs /\ outputs \cup {p} = outputs
    BY DEF Rested, AllOut
  <2>3. level' = level /\ PackageSees /\ UNCHANGED <<outputs, dq, got>>
    BY <2>1, <2>2, OutEffect DEF s
  <2>4. latched' = latched /\ rb' = rb /\ shown' = shown
    BY <2>3, SeesNothing, ShowsNothing DEF Rested
  <2> QED  BY <2>3, <2>4 DEF PinTypes, LogTypes, Rested
<1>4. CASE s \in {DQOut, DQZero}
  <2>1. /\ dq' \in Bytes /\ UNCHANGED <<level, rb, got, latched, shown>>
        /\ outputs' \in {outputs, outputs \cup {"DQ"}}
    BY <1>4, BusEffects, BusAssumption DEF s, PinTypes, DQOut, DQZero
  <2>2. outputs' = outputs
    BY <2>1 DEF Rested, AllOut
  <2> QED  BY <2>1, <2>2 DEF PinTypes, LogTypes, Rested
<1>5. CASE s = Await
  BY <1>5, AwaitEffect DEF s, PinTypes, LogTypes, Rested
<1>6. CASE s \in Restoring
  BY <1>2, <1>6, RestoringSteps
<1>7. CASE s \in {Set("CLE", 0), Set("ALE", 0), Set("RE", 1), Set("WE", 1), Set("CE", 1), Set("CE", 0)}
  BY <1>2, <1>7 DEF Pins
<1>8. CASE s \in {Out("CLE"), Out("ALE"), Out("RE"), Out("WE"), Out("CE")}
  BY <1>3, <1>8 DEF Pins
<1> QED  BY <1>1, <1>4, <1>5, <1>6, <1>7, <1>8 DEF InitShape

DriveOrder == "DQ" \in outputs => Pins \subseteq outputs

LEMMA StrayCycle ==
  ASSUME NEW b \in Bytes \cup {"float"},
         latched' \in {<<>>, <<[kind |-> "data", byte |-> b]>>}
  PROVE  QuietStart' /\ latched' \in Seq(Cycles)
<1> DEFINE d == [kind |-> "data", byte |-> b]
<1>1. d \in Cycles /\ d.kind = "data"
  BY DEF Cycles
<1>2. CASE latched' = <<>>
  BY <1>2 DEF QuietStart
<1>3. CASE latched' = <<d>>
  <2> HIDE DEF d
  <2>1. <<d>> \in Seq(Cycles) /\ Len(<<d>>) = 1 /\ <<d>>[1] = d
    BY <1>1
  <2> QED  BY <1>1, <1>3, <2>1 DEF QuietStart
<1> QED  BY <1>2, <1>3

LEMMA StartStep ==
  ASSUME call \in Calls, call.kind = "init", PinTypes, LogTypes, NoContention, DriveOrder,
         StartOK, QuietStart, HostStep
  PROVE  /\ PinTypes' /\ LogTypes' /\ NoContention' /\ DriveOrder'
         /\ StartOK' /\ QuietStart'
<1> DEFINE s == StepAt(call, at)
<1>1. /\ InitShape(s, at) /\ (at = 11 => s = DQOut)
      /\ at \in 1 .. 21 /\ at' = at + 1
  BY InitPlaces, InitShapes
<1> HIDE DEF s
(* a pin becomes an output *)
<1>2. CASE \E p \in Pins : s = Out(p)
  <2>1. PICK p \in Pins : s = Out(p)
    BY <1>2
  <2>2. \/ at = 1 /\ p = "CLE"
        \/ at = 3 /\ p = "ALE"
        \/ at = 5 /\ p = "RE"
        \/ at = 7 /\ p = "WE"
        \/ at = 9 /\ p = "CE"
    BY <1>1, <2>1 DEF InitShape, Out, Set, DQOut, DQZero, Await, Restoring, Pins
  <2>3. /\ outputs' = outputs \cup {p} /\ PackageSees /\ UNCHANGED <<dq, got>>
        /\ IF p \in outputs THEN level' = level
           ELSE \E value \in {0, 1} : level' = [level EXCEPT ![p] = value]
    BY <2>1, OutEffect DEF s
  <2>4. rb' \in {0, 1} /\ shown' \in {shown, shown + 1}
    BY <2>3, SeesTypes DEF PinTypes, LogTypes
  <2>5. level' \in [Pins -> {0, 1}] /\ \A q \in Pins : q # p => level'[q] = level[q]
    BY <2>3 DEF PinTypes
  <2>6. DriveOrder' /\ outputs' \subseteq AllOut
    BY <2>3 DEF DriveOrder, Pins, PinTypes, AllOut
  <2>7. NoContention'
    <3>1. CASE p \in outputs
      BY <2>3, <3>1 DEF NoContention, Pins, PutsOut
    <3>2. CASE p \notin outputs
      BY <2>3, <3>2 DEF DriveOrder, NoContention, Pins
    <3> QED  BY <3>1, <3>2
  <2>8. shown' <= 1 /\ (at + 1 <= 5 => shown' = 0) /\ shown' \in 0 .. MaxBytes + 1
    <3>1. CASE p = "RE"
      BY <1>1, <2>2, <2>4, <3>1, BusAssumption DEF StartOK
    <3>2. CASE p \in {"CLE", "ALE", "WE"}
      <4>1. PutsOut(level') = PutsOut(level)
        BY <2>5, <3>2 DEF PutsOut, Pins
      <4>2. shown' = shown
        BY <2>3, <4>1 DEF PackageSees
      <4> QED  BY <1>1, <4>2 DEF StartOK, LogTypes
    <3>3. CASE p = "CE"
      <4>1. level'["RE"] = 1
        BY <2>2, <2>5, <3>3 DEF StartOK, Pins
      <4>2. shown' = shown
        BY <2>3, <4>1, ShowsNothing
      <4> QED  BY <1>1, <4>2 DEF StartOK, LogTypes
    <3> QED  BY <2>2, <3>1, <3>2, <3>3
  <2>9. CASE p # "WE"
    <3>1. level'["WE"] = level["WE"]
      BY <2>5, <2>9 DEF Pins
    <3>2. latched' = latched
      BY <2>3, <3>1, SeesNothing
    <3>3. StartOK'
      BY <1>1, <2>2, <2>3, <2>5, <2>8, <2>9, <3>2 DEF StartOK, Pins
    <3>4. QuietStart' /\ latched' \in Seq(Cycles)
      BY <3>2 DEF QuietStart, LogTypes
    <3> QED  BY <2>3, <2>4, <2>5, <2>6, <2>7, <2>8, <3>3, <3>4 DEF PinTypes, LogTypes
  <2>10. CASE p = "WE"
    <3>1. at = 7 /\ level["CLE"] = 0 /\ level["ALE"] = 0 /\ latched = <<>> /\ got = <<>>
      BY <1>1, <2>2, <2>10 DEF StartOK
    <3>2. CycleKind(level) = "data"
      BY <3>1 DEF CycleKind
    <3>3. OnBus \in Bytes \cup {"float"}
      BY DEF OnBus, PinTypes
    <3>4. latched' \in {<<>>, <<[kind |-> "data", byte |-> OnBus]>>}
          /\ (level'["WE"] = 0 => latched' = <<>>)
      BY <2>3, <3>1, <3>2 DEF PackageSees, Latches
    <3>5. QuietStart' /\ latched' \in Seq(Cycles)
      BY <3>3, <3>4, StrayCycle
    <3>6. StartOK'
      BY <1>1, <2>3, <2>5, <2>8, <2>10, <3>1, <3>4 DEF StartOK, Pins
    <3> QED  BY <2>3, <2>4, <2>5, <2>6, <2>7, <2>8, <3>5, <3>6 DEF PinTypes, LogTypes
  <2> QED  BY <2>9, <2>10
(* a pin is brought to its resting level, or CE# selects the package *)
<1>3. CASE \E p \in Pins, v \in {0, 1} : s = Set(p, v)
  <2>1. PICK p \in Pins, v \in {0, 1} : s = Set(p, v)
    BY <1>3
  <2>2. \/ at = 2 /\ p = "CLE" /\ v = 0
        \/ at = 4 /\ p = "ALE" /\ v = 0
        \/ at = 6 /\ p = "RE" /\ v = 1
        \/ at = 8 /\ p = "WE" /\ v = 1
        \/ at = 10 /\ p = "CE" /\ v = 1
        \/ /\ at > 10 /\ (p \in {"WE", "RE"} => v = 1) /\ (p \in {"ALE", "CLE"} => v = 0)
    BY <1>1, <2>1 DEF InitShape, Out, Set, DQOut, DQZero, Await, Restoring, Pins
  <2>3. level' = [level EXCEPT ![p] = v] /\ PackageSees /\ UNCHANGED <<outputs, dq, got>>
    BY <2>1, SetEffect DEF s
  <2>4. level' \in [Pins -> {0, 1}] /\ \A q \in Pins : level'[q] = IF q = p THEN v ELSE level[q]
    BY <2>1, <2>3, SetLevel DEF PinTypes
  <2>5. CASE at <= 4
    <3>1. p \in {"CLE", "ALE"}
      BY <1>1, <2>2, <2>5
    <3>2. /\ level'["CE"] = level["CE"] /\ level'["RE"] = level["RE"]
          /\ level'["WE"] = level["WE"]
      BY <2>4, <3>1 DEF Pins
    <3>3. latched' = latched /\ rb' = rb
      BY <2>3, <3>2, SeesNothing
    <3>4. shown' = shown /\ NoContention'
      BY <2>3, <3>2 DEF PackageSees, PutsOut, NoContention
    <3>5. StartOK'
      BY <1>1, <2>2, <2>3, <2>4, <2>5, <3>3, <3>4 DEF StartOK, Pins
    <3> QED
      BY <2>3, <2>4, <3>3, <3>4, <3>5 DEF PinTypes, LogTypes, DriveOrder, QuietStart
  <2>6. CASE at > 4
    <3>1. at > 5
      BY <1>1, <2>2, <2>6
    <3>2. level'["RE"] = 1
      BY <1>1, <2>2, <2>4, <3>1 DEF StartOK, Pins
    <3>3. shown' = shown /\ NoContention' /\ rb' \in {0, 1}
      BY <2>3, <3>2, ShowsNothing, SeesTypes DEF NoContention, PutsOut, PinTypes, LogTypes
    <3>4. CASE p # "WE" \/ level["WE"] = 1
      <4>1. latched' = latched
        BY <2>3, <2>4, <3>4, SeesNothing DEF Pins
      <4>2. StartOK'
        <5>1. CASE at = 6 /\ p = "RE" /\ v = 1
          BY <1>1, <2>3, <2>4, <3>3, <4>1, <5>1 DEF StartOK, Pins
        <5>2. CASE at = 8 /\ p = "WE" /\ v = 1
          BY <1>1, <2>3, <2>4, <3>3, <4>1, <5>2 DEF StartOK, Pins
        <5>3. CASE at = 10 /\ p = "CE" /\ v = 1
          BY <1>1, <2>3, <2>4, <3>3, <4>1, <5>3 DEF StartOK, Pins
        <5>4. CASE /\ at > 10 /\ (p \in {"WE", "RE"} => v = 1)
                   /\ (p \in {"ALE", "CLE"} => v = 0)
          <6>1. /\ level["CLE"] = 0 /\ level["ALE"] = 0 /\ level["RE"] = 1 /\ level["WE"] = 1
                /\ {"CLE", "ALE", "RE", "WE", "CE"} \subseteq outputs
                /\ got = <<>> /\ shown <= 1 /\ (at > 11 => "DQ" \in outputs)
            BY <1>1, <5>4 DEF StartOK
          <6>2. /\ level'["CLE"] = 0 /\ level'["ALE"] = 0 /\ level'["RE"] = 1 /\ level'["WE"] = 1
            BY <2>4, <5>4, <6>1 DEF Pins
          <6>3. at > 11
            BY <1>1, <2>1, <5>4 DEF Set, DQOut
          <6> QED  BY <1>1, <2>3, <3>3, <6>1, <6>2, <6>3 DEF StartOK
        <5> QED  BY <2>2, <3>1, <5>1, <5>2, <5>3, <5>4
      <4> QED
        BY <2>3, <2>4, <3>3, <4>1, <4>2 DEF PinTypes, LogTypes, DriveOrder, QuietStart
    <3>5. CASE p = "WE" /\ level["WE"] # 1
      <4>1. at = 8 /\ v = 1 /\ latched = <<>> /\ level["CLE"] = 0 /\ level["ALE"] = 0
        <5>1. at <= 8
          BY <1>1, <3>5 DEF StartOK
        <5>2. at = 8 /\ v = 1
          BY <1>1, <2>2, <3>5, <5>1
        <5>3. level["WE"] = 0
          BY <3>5 DEF PinTypes, Pins
        <5> QED  BY <5>2, <5>3 DEF StartOK
      <4>2. CycleKind(level) = "data" /\ OnBus \in Bytes \cup {"float"}
        BY <4>1 DEF CycleKind, OnBus, PinTypes
      <4>3. latched' \in {<<>>, <<[kind |-> "data", byte |-> OnBus]>>}
        BY <2>3, <4>1, <4>2 DEF PackageSees, Latches
      <4>4. QuietStart' /\ latched' \in Seq(Cycles)
        BY <4>2, <4>3, StrayCycle
      <4>5. StartOK'
        BY <1>1, <2>2, <2>3, <2>4, <3>3, <3>5, <4>1 DEF StartOK, Pins
      <4> QED
        BY <2>3, <2>4, <3>3, <4>4, <4>5 DEF PinTypes, LogTypes, DriveOrder
    <3> QED  BY <3>4, <3>5
  <2> QED  BY <1>1, <2>5, <2>6
(* the data bus turned round or its latch set *)
<1>4. CASE s \in {DQOut, DQZero}
  <2>1. /\ dq' \in Bytes /\ UNCHANGED <<level, rb, got, latched, shown>>
        /\ outputs' \in {outputs, outputs \cup {"DQ"}}
        /\ s = DQOut => outputs' = outputs \cup {"DQ"}
    BY <1>4, BusEffects, BusAssumption DEF s, PinTypes, DQOut, DQZero
  <2>2. at > 10
    BY <1>1, <1>4 DEF InitShape, Out, Set, DQOut, DQZero, Await
  <2>3. Pins \subseteq outputs /\ level["RE"] = 1
    BY <1>1, <2>2 DEF StartOK, Pins
  <2>4. outputs' \subseteq AllOut /\ DriveOrder' /\ NoContention'
    BY <2>1, <2>3 DEF PinTypes, AllOut, DriveOrder, NoContention, PutsOut
  <2>5. StartOK'
    BY <1>1, <2>1, <2>2 DEF StartOK
  <2> QED  BY <2>1, <2>4, <2>5 DEF PinTypes, LogTypes, QuietStart
<1>5. CASE s = Await
  <2>1. UNCHANGED <<level, outputs, dq, rb, got, latched, shown>>
    BY <1>5, AwaitEffect DEF s
  <2>2. at = 21
    BY <1>1, <1>5 DEF InitShape, Out, Set, DQOut, DQZero, Await, Restoring
  <2>3. StartOK'
    BY <1>1, <2>1, <2>2 DEF StartOK
  <2> QED
    BY <2>1, <2>3 DEF PinTypes, LogTypes, QuietStart, DriveOrder, NoContention, PutsOut
<1>6. CASE s \in Restoring
  BY <1>3, <1>6, RestoringSteps
<1>7. CASE s \in {Set("CLE", 0), Set("ALE", 0), Set("RE", 1), Set("WE", 1), Set("CE", 1), Set("CE", 0)}
  BY <1>3, <1>7 DEF Pins
<1>8. CASE s \in {Out("CLE"), Out("ALE"), Out("RE"), Out("WE"), Out("CE")}
  BY <1>2, <1>8 DEF Pins
<1> QED  BY <1>1, <1>4, <1>5, <1>6, <1>7, <1>8 DEF InitShape

-----------------------------------------------------------------------------
(* The invariant. *)

Standing ==
  /\ inited \in BOOLEAN /\ call \in Calls /\ at \in 0 .. CallLen(call) + 1
  /\ PinTypes /\ LogTypes

SessionOK ==
  IF at = 0 THEN Rested
  ELSE /\ call.kind \in WriteKinds => WriteOK
       /\ call.kind = "read" => ReadOK
       /\ call.kind = "init" => Rested /\ latched = <<>> /\ got = <<>> /\ shown = 0

BusInv ==
  /\ Standing /\ NoContention /\ DriveOrder
  /\ inited => SessionOK
  /\ ~inited /\ at # 0 => call.kind = "init" /\ StartOK
  /\ call.kind = "init" => QuietStart

LEMMA BusTypes ==
  ASSUME BusInv
  PROVE  TypeOK /\ StartUpIsQuiet
BY DEF BusInv, Standing, PinTypes, LogTypes, TypeOK, AllOut, Cycles, StartUpIsQuiet, QuietStart

(* While a read goes on, host and package are kept apart. *)
LEMMA ReadApart ==
  ASSUME ReadOK', call' \in Calls, call'.kind = "read", at' \in Nat
  PROVE  NoContention' /\ DriveOrder'
<1>1. HeadLen(call') = 10 /\ TailAt(call') \in Nat /\ TailAt(call)' = TailAt(call')
  BY Lengths, LengthTypes
<1>2. CASE outputs' = Pins
  BY <1>2 DEF NoContention, DriveOrder, Pins
<1>3. CASE outputs' = AllOut
  <2>1. ~(8 < at' /\ at' <= TailAt(call)')
    <3>1. "DQ" \in outputs' /\ "DQ" \notin Pins
      BY <1>3 DEF AllOut, Pins
    <3> QED  BY <3>1 DEF ReadOK
  <2>2. ~InLoop(call, at)'
    BY <1>1, <2>1 DEF InLoop
  <2>3. level'["RE"] = 1
    BY <2>2 DEF ReadOK
  <2> QED  BY <1>3, <2>3 DEF NoContention, PutsOut, DriveOrder, AllOut
<1> QED  BY <1>2, <1>3 DEF ReadOK

LEMMA BusInit ==
  ASSUME Init
  PROVE  BusInv
<1>1. call \in Calls /\ CallLen(call) \in Nat
  <2>1. call \in Calls
    BY DEF Init, Calls
  <2> QED  BY <2>1, LengthTypes
<1>2. Standing
  <2>1. latched \in Seq(Cycles) /\ got \in Seq(Nat)
    BY DEF Init
  <2>2. PinTypes
    BY BusAssumption DEF Init, PinTypes, AllOut
  <2>3. LogTypes
    BY <2>1, BusAssumption DEF Init, LogTypes
  <2>4. inited \in BOOLEAN /\ at \in 0 .. CallLen(call) + 1
    <3>1. inited \in BOOLEAN
      BY DEF Init
    <3>2. at = 0
      BY DEF Init
    <3>3. at \in 0 .. CallLen(call) + 1
      BY <1>1, <3>2
    <3> QED  BY <3>1, <3>3
  <2> QED  BY <1>1, <2>2, <2>3, <2>4 DEF Standing
<1> QED  BY <1>2 DEF Init, BusInv, NoContention, DriveOrder, QuietStart

LEMMA BusInvoke ==
  ASSUME BusInv, Invoke
  PROVE  BusInv'
<1>1. /\ at = 0 /\ at' = 1 /\ call' \in Calls /\ (inited \/ call'.kind = "init")
      /\ got' = <<>> /\ latched' = <<>> /\ shown' = 0
      /\ UNCHANGED <<level, outputs, dq, rb, inited>>
  BY DEF Invoke
<1> DEFINE c == call'
<1>2. /\ HeadLen(c) \in Nat /\ HeadLen(c) >= 1 /\ TailAt(c) \in Nat /\ TailAt(c) > HeadLen(c)
      /\ CallLen(c) \in Nat
  BY <1>1, LengthTypes
<1>3. ~InLoop(c, 1) /\ Done(c, 1) = 0
  BY <1>2 DEF InLoop, Done
<1>4. Standing'
  <2>1. 1 \in 0 .. CallLen(c) + 1
    BY <1>2
  <2>2. <<>> \in Seq(Cycles) /\ <<>> \in Seq(Nat) /\ 0 \in 0 .. MaxBytes + 1
    BY BusAssumption
  <2> QED  BY <1>1, <2>1, <2>2 DEF BusInv, Standing, PinTypes, LogTypes
<1>5. NoContention' /\ DriveOrder'
  BY <1>1 DEF BusInv, NoContention, DriveOrder, PutsOut
<1>6. QuietStart'
  BY <1>1 DEF QuietStart
<1>7. CASE inited
  <2>1. Rested /\ Rested' /\ inited'
    BY <1>1, <1>7 DEF BusInv, SessionOK, Rested
  <2>2. /\ InLoop(call, at)' = InLoop(c, 1) /\ Done(call, at)' = Done(c, 1)
        /\ TailAt(call)' = TailAt(c)
    BY <1>1
  <2>3. WriteOK'
    BY <1>1, <1>2, <1>3, <2>1, <2>2 DEF WriteOK, Rested
  <2>4. ReadOK'
    BY <1>1, <1>2, <1>3, <2>1, <2>2 DEF ReadOK, Rested
  <2>5. SessionOK'
    BY <1>1, <2>1, <2>3, <2>4 DEF SessionOK
  <2> QED  BY <1>4, <1>5, <1>6, <2>1, <2>5 DEF BusInv
<1>8. CASE ~inited
  <2>1. ~inited' /\ call'.kind = "init"
    BY <1>1, <1>8
  <2>2. StartOK'
    BY <1>1 DEF StartOK
  <2> QED  BY <1>4, <1>5, <1>6, <2>1, <2>2 DEF BusInv
<1> QED  BY <1>7, <1>8

(* A call that returns leaves the pins at rest. *)
LEMMA BusReturn ==
  ASSUME BusInv, Return
  PROVE  BusInv' /\ Rested
<1>1. /\ at > CallLen(call) /\ at' = 0 /\ inited' = TRUE
      /\ UNCHANGED <<level, outputs, dq, rb, call, got, latched, shown>>
  BY DEF Return
<1>2. call \in Calls /\ at \in Nat /\ CallLen(call) \in Nat /\ at # 0
      /\ TailAt(call) \in Nat /\ TailAt(call) > HeadLen(call) /\ HeadLen(call) \in Nat
  BY <1>1, LengthTypes DEF BusInv, Standing
<1>3. Rested
  <2>1. CASE inited /\ call.kind \in WriteKinds
    <3>1. WriteOK
      BY <1>2, <2>1 DEF BusInv, SessionOK
    <3>2. CallLen(call) >= TailAt(call) + 4
      BY <1>2, <2>1, Lengths DEF WriteKinds
    <3>3. at > TailAt(call) + 3 /\ ~InLoop(call, at) /\ ~(at <= TailAt(call))
      BY <1>1, <1>2, <3>2 DEF InLoop
    <3> QED  BY <3>1, <3>3 DEF WriteOK, Rested
  <2>2. CASE inited /\ call.kind = "read"
    <3>1. ReadOK
      BY <1>2, <2>2 DEF BusInv, SessionOK
    <3>2. CallLen(call) >= TailAt(call)
      BY <1>2, <2>2, Lengths
    <3>3. ~InLoop(call, at) /\ ~(at <= TailAt(call))
      BY <1>1, <1>2, <3>2 DEF InLoop
    <3> QED  BY <3>1, <3>3 DEF ReadOK, Rested
  <2>3. CASE inited /\ call.kind = "init"
    BY <1>2, <2>3 DEF BusInv, SessionOK
  <2>4. CASE ~inited
    <3>1. call.kind = "init" /\ StartOK
      BY <1>2, <2>4 DEF BusInv
    <3>2. CallLen(call) = 21
      <4>1. Len(call.bytes) = 0
        BY <1>2, <3>1, CallTypes
      <4> QED  BY <1>2, <3>1, <4>1, Lengths
    <3>3. at > 21
      BY <1>1, <3>2
    <3>4. /\ "DQ" \in outputs /\ level["CLE"] = 0 /\ level["ALE"] = 0
          /\ level["RE"] = 1 /\ level["WE"] = 1
      BY <1>2, <3>1, <3>3 DEF StartOK
    <3>5. outputs = AllOut
      BY <3>4 DEF BusInv, Standing, PinTypes, DriveOrder, AllOut
    <3> QED  BY <3>4, <3>5 DEF Rested
  <2> QED  BY <1>2, <2>1, <2>2, <2>3, <2>4, CallTypes
<1>4. Standing' /\ NoContention' /\ DriveOrder' /\ Rested' /\ (call'.kind = "init" => QuietStart')
  BY <1>1, <1>2, <1>3 DEF BusInv, Standing, PinTypes, LogTypes, NoContention, PutsOut, DriveOrder,
     Rested, QuietStart
<1> QED  BY <1>1, <1>3, <1>4 DEF BusInv, SessionOK

LEMMA BusEnds ==
  ASSUME BusInv, ProcessEnds
  PROVE  BusInv'
<1>1. /\ inited' = FALSE /\ at' = 0
      /\ UNCHANGED <<level, outputs, dq, rb, call, got, latched, shown>>
  BY DEF ProcessEnds
<1>2. CallLen(call) \in Nat
  BY LengthTypes DEF BusInv, Standing
<1>3. Standing'
  <2>1. CallLen(call)' = CallLen(call) /\ 0 \in 0 .. CallLen(call) + 1
    BY <1>1, <1>2
  <2> QED  BY <1>1, <2>1 DEF BusInv, Standing, PinTypes, LogTypes
<1>4. NoContention' /\ DriveOrder' /\ (call'.kind = "init" => QuietStart')
  BY <1>1 DEF BusInv, NoContention, PutsOut, DriveOrder, QuietStart
<1> QED  BY <1>1, <1>3, <1>4 DEF BusInv

LEMMA BusReady ==
  ASSUME BusInv, PackageReady
  PROVE  BusInv'
<1>1. rb = 0 /\ rb' = 1 /\ UNCHANGED <<level, outputs, dq, inited, call, at, got, latched, shown>>
  BY DEF PackageReady
<1>2. Standing' /\ NoContention' /\ DriveOrder' /\ (call'.kind = "init" => QuietStart')
      /\ (~inited' /\ at' # 0 => call'.kind = "init" /\ StartOK')
  BY <1>1 DEF BusInv, Standing, PinTypes, LogTypes, NoContention, PutsOut, DriveOrder, QuietStart,
     StartOK
<1>3. (Rested => Rested') /\ (WriteOK => WriteOK') /\ (ReadOK => ReadOK')
  BY <1>1 DEF Rested, WriteOK, ReadOK
<1>4. inited' => SessionOK'
  BY <1>1, <1>3 DEF BusInv, SessionOK
<1> QED  BY <1>2, <1>4 DEF BusInv

LEMMA BusHostStep ==
  ASSUME BusInv, HostStep
  PROVE  BusInv'
<1>1. /\ at \in 1 .. CallLen(call) /\ at' = at + 1 /\ inited' = inited /\ call' = call
      /\ call \in Calls /\ CallLen(call) \in Nat /\ at \in Nat /\ at # 0 /\ at' # 0 /\ at' \in Nat
      /\ at' \in 0 .. CallLen(call) + 1 /\ CallLen(call)' = CallLen(call)
      /\ inited \in BOOLEAN /\ PinTypes /\ LogTypes
  BY StepAdvances, LengthTypes DEF BusInv, Standing
<1>2. CASE inited /\ call.kind \in WriteKinds
  <2>1. WriteOK' /\ PinTypes' /\ LogTypes'
    BY <1>1, <1>2, WriteStep DEF BusInv, SessionOK
  <2>2. NoContention' /\ DriveOrder'
    BY <2>1 DEF WriteOK, NoContention, PutsOut, DriveOrder, AllOut
  <2>3. Standing' /\ SessionOK' /\ call'.kind # "init"
    BY <1>1, <1>2, <2>1 DEF Standing, SessionOK, WriteKinds
  <2> QED  BY <1>1, <1>2, <2>2, <2>3 DEF BusInv
<1>3. CASE inited /\ call.kind = "read"
  <2>1. ReadOK' /\ PinTypes' /\ LogTypes'
    BY <1>1, <1>3, ReadStep DEF BusInv, SessionOK
  <2>2. NoContention' /\ DriveOrder'
    BY <1>1, <1>3, <2>1, ReadApart
  <2>3. Standing' /\ SessionOK' /\ call'.kind # "init"
    BY <1>1, <1>3, <2>1 DEF Standing, SessionOK, WriteKinds
  <2> QED  BY <1>1, <1>3, <2>1, <2>2, <2>3 DEF BusInv
<1>4. CASE inited /\ call.kind = "init"
  <2>1. /\ Rested' /\ PinTypes' /\ LogTypes'
        /\ latched' = <<>> /\ got' = <<>> /\ shown' = 0
    BY <1>1, <1>4, RestedStep DEF BusInv, SessionOK
  <2>2. NoContention' /\ DriveOrder' /\ QuietStart'
    BY <2>1 DEF Rested, NoContention, PutsOut, DriveOrder, AllOut, QuietStart
  <2>3. Standing' /\ SessionOK'
    BY <1>1, <1>4, <2>1 DEF Standing, SessionOK, WriteKinds
  <2> QED  BY <1>1, <1>4, <2>2, <2>3 DEF BusInv
<1>5. CASE ~inited
  <2>1. call.kind = "init" /\ StartOK /\ QuietStart
    BY <1>1, <1>5 DEF BusInv
  <2>2. PinTypes' /\ LogTypes' /\ NoContention' /\ DriveOrder' /\ StartOK' /\ QuietStart'
    BY <1>1, <2>1, StartStep DEF BusInv
  <2>3. Standing'
    BY <1>1, <2>2 DEF Standing
  <2> QED  BY <1>1, <1>5, <2>1, <2>2, <2>3 DEF BusInv
<1> QED  BY <1>1, <1>2, <1>3, <1>4, <1>5, CallTypes

LEMMA NextSteps ==
  ASSUME Next
  PROVE  Invoke \/ Return \/ ProcessEnds \/ HostStep \/ PackageReady
BY DEF Next, HostStep

LEMMA BusStuttering ==
  ASSUME BusInv, UNCHANGED vars
  PROVE  BusInv'
BY DEF BusInv, vars, Standing, PinTypes, LogTypes, NoContention, PutsOut, DriveOrder, QuietStart,
   SessionOK, StartOK, Rested, WriteOK, ReadOK, InLoop, LoopAt, Done

LEMMA BusHolds ==
  Spec => []BusInv
<1>1. Init => BusInv
  BY BusInit
<1>2. BusInv /\ [Next]_vars => BusInv'
  BY NextSteps, BusInvoke, BusReturn, BusEnds, BusHostStep, BusReady, BusStuttering
<1> QED  BY <1>1, <1>2, PTL DEF Spec

-----------------------------------------------------------------------------
(* The invariants of the pins. *)

(* The pins, the logs and the step a call has reached keep their types,    *)
(* for calls of any length.                                                *)
THEOREM PinsKeepTypes ==
  Spec => []TypeOK
<1>1. BusInv => TypeOK
  BY BusTypes
<1> QED  BY <1>1, BusHolds, PTL

(* Host and package never drive the data bus at the same time, whatever    *)
(* the order of the calls and wherever a process dies (set_datalines_      *)
(* direction_input and _default around the loop of get_data).              *)
THEOREM HostAndPackageApart ==
  Spec => []NoContention
<1>1. BusInv => NoContention
  BY DEF BusInv
<1> QED  BY <1>1, BusHolds, PTL

(* A start-up over any pins clocks at most one data cycle into the         *)
(* package, never a command or an address (set_pin_direction_inactive).    *)
THEOREM StartUpsAreQuiet ==
  Spec => []StartUpIsQuiet
<1>1. BusInv => StartUpIsQuiet
  BY BusTypes
<1> QED  BY <1>1, BusHolds, PTL

(* A byte is only taken from a package that is ready: the wait of get_data *)
(* comes before the first strobe, and nothing in the loop makes the        *)
(* package busy.                                                           *)
THEOREM ReadsWait ==
  Spec => ReadsWaitForReady
<1>1. BusInv /\ [Next]_vars => [got' # got /\ got' # <<>> => rb = 1]_vars
  <2> SUFFICES ASSUME BusInv, [Next]_vars, got' # got, got' # <<>>
               PROVE  rb = 1
    OBVIOUS
  <2>1. CASE HostStep
    <3>1. /\ at \in 1 .. CallLen(call) /\ call \in Calls /\ CallLen(call) \in Nat
          /\ at \in Nat /\ at # 0
      BY <2>1, StepAdvances, LengthTypes DEF BusInv, Standing
    <3>2. CASE inited /\ call.kind \in WriteKinds
      <4>1. WriteOK'
        BY <2>1, <3>1, <3>2, WriteStep DEF BusInv, SessionOK, Standing
      <4> QED  BY <4>1 DEF WriteOK
    <3>3. CASE call.kind = "init"
      <4>1. got' = <<>>
        <5>1. CASE inited
          BY <2>1, <3>1, <3>3, <5>1, RestedStep DEF BusInv, SessionOK, Standing
        <5>2. CASE ~inited
          <6>1. StartOK'
            BY <2>1, <3>1, <3>3, <5>2, StartStep DEF BusInv, Standing
          <6> QED  BY <6>1 DEF StartOK
        <5> QED  BY <5>1, <5>2
      <4> QED  BY <4>1
    <3>4. CASE inited /\ call.kind = "read"
      <4>1. ReadOK
        BY <3>1, <3>4 DEF BusInv, SessionOK
      <4>2. StepAt(call, at).do = "dq_read"
        BY <2>1 DEF HostStep, SetPin, DirectPin, DirectDQ, SetDQ, ReadDQ, AwaitReady, Doing
      <4>3. at > 9
        <5> SUFFICES ASSUME at <= 9  PROVE FALSE
          BY <3>1
        <5>1. \/ StepAt(call, at) \in Restoring
              \/ StepAt(call, at) \in {DQOut, DQZero, DQIn, Await}
          BY <3>1, <3>4, ReadSteps
        <5> QED  BY <4>2, <5>1 DEF Restoring, Set, DQOut, DQZero, DQIn, Await
      <4> QED  BY <4>1, <4>3 DEF ReadOK
    <3>5. inited \/ call.kind = "init"
      BY <3>1 DEF BusInv
    <3> QED  BY <3>1, <3>2, <3>3, <3>4, <3>5, CallTypes
  <2>2. CASE Invoke
    BY <2>2 DEF Invoke
  <2>3. CASE Return \/ ProcessEnds \/ PackageReady \/ UNCHANGED vars
    BY <2>3 DEF Return, ProcessEnds, PackageReady, vars
  <2> QED  BY <2>1, <2>2, <2>3, NextSteps
<1> QED  BY <1>1, BusHolds, PTL DEF Spec, ReadsWaitForReady

-----------------------------------------------------------------------------
(* The promise of BusCycles. *)

(* what the promise sees of the host                                       *)
Phase  == IF ~inited THEN "off" ELSE IF at = 0 THEN "idle" ELSE "call"
Wanted == IF inited THEN Delivers(call) ELSE <<>>
Asked  == IF inited /\ call.kind = "read" THEN Len(call.bytes) ELSE 0

LEMMA WantedTypes ==
  ASSUME NEW c \in Calls
  PROVE  /\ Delivers(c) \in Seq([kind : WriteKinds, byte : Bytes]) /\ Delivers(c) \in Seq(Cycles)
         /\ c.kind \in WriteKinds => /\ Len(Delivers(c)) = Len(c.bytes)
                                     /\ \A j \in 1 .. Len(c.bytes) :
                                          Delivers(c)[j] = [kind |-> c.kind, byte |-> c.bytes[j]]
         /\ c.kind \notin WriteKinds => Delivers(c) = <<>>
<1>1. c.bytes \in Seq(Bytes) /\ Len(c.bytes) \in Nat
  BY CallTypes, BusAssumption
<1>2. CASE c.kind \in WriteKinds
  <2> DEFINE d == [j \in 1 .. Len(c.bytes) |-> [kind |-> c.kind, byte |-> c.bytes[j]]]
  <2>1. Delivers(c) = d
    BY <1>2 DEF Delivers, WriteKinds
  <2>2. \A j \in 1 .. Len(c.bytes) : c.bytes[j] \in Bytes
    BY <1>1
  <2>3. d \in [1 .. Len(c.bytes) -> [kind : WriteKinds, byte : Bytes]]
    BY <1>2, <2>2
  <2>4. d \in Seq([kind : WriteKinds, byte : Bytes]) /\ Len(d) = Len(c.bytes)
    BY <1>1, <2>3
  <2>5. d \in [1 .. Len(c.bytes) -> Cycles]
    BY <1>2, <2>2 DEF WriteKinds, Cycles
  <2>6. d \in Seq(Cycles)
    <3> HIDE DEF d
    <3> QED  BY <1>1, <2>5
  <2> QED  BY <1>2, <2>1, <2>4, <2>6
<1>3. CASE c.kind \notin WriteKinds
  BY <1>3 DEF Delivers, WriteKinds
<1> QED  BY <1>2, <1>3

(* Two sequences of the same length with the same elements are one. *)
LEMMA SameElements ==
  ASSUME NEW S, NEW s \in Seq(S), NEW t \in Seq(S), Len(s) = Len(t),
         \A j \in 1 .. Len(s) : s[j] = t[j]
  PROVE  s = t
OBVIOUS

LEMMA PromiseOfWrite ==
  ASSUME BusInv, inited, call.kind \in WriteKinds, HostStep
  PROVE  Promise!Latch \/ UNCHANGED <<Phase, Wanted, Asked, latched, got>>
<1> DEFINE n == Len(call.bytes)  k == Done(call, at)  m == Done(call, at + 1)
           w == Delivers(call)
<1>1. /\ call \in Calls /\ PinTypes /\ LogTypes /\ at # 0 /\ at' = at + 1 /\ at + 1 # 0
      /\ call' = call /\ inited' = inited /\ CallLen(call) \in Nat /\ n \in Nat
      /\ Done(call, at)' = m
  BY StepAdvances, LengthTypes, Lengths DEF BusInv, Standing
<1>2. WriteOK /\ WriteOK' /\ LogTypes'
  BY <1>1, WriteStep DEF BusInv, SessionOK
<1>3. k \in 0 .. n /\ m \in 0 .. n /\ (m = k \/ m = k + 1)
  BY <1>1, Moving DEF Moves
<1>4. /\ Len(w) = n /\ \A j \in 1 .. n : w[j] = [kind |-> call.kind, byte |-> call.bytes[j]]
  BY <1>1, WantedTypes
<1>5. /\ latched \in Seq(Cycles) /\ latched' \in Seq(Cycles) /\ Len(latched) = k /\ Len(latched') = m
      /\ \A j \in 1 .. k : latched[j] = w[j]
      /\ \A j \in 1 .. m : latched'[j] = w[j]
      /\ got = <<>> /\ got' = <<>>
  <2>1. latched \in Seq(Cycles) /\ latched' \in Seq(Cycles)
    BY <1>1, <1>2 DEF LogTypes
  <2>2. /\ Len(latched) = k /\ got = <<>>
        /\ \A j \in 1 .. k : latched[j] = [kind |-> call.kind, byte |-> call.bytes[j]]
    BY <1>2 DEF WriteOK
  <2>3. /\ Len(latched') = m /\ got' = <<>>
        /\ \A j \in 1 .. m : latched'[j] = [kind |-> call.kind, byte |-> call.bytes[j]]
    <3>1. /\ Len(latched') = Done(call, at)' /\ got' = <<>>
          /\ \A j \in 1 .. Done(call, at)' :
               latched'[j] = [kind |-> call'.kind, byte |-> call'.bytes[j]]
      BY <1>2 DEF WriteOK
    <3>2. Done(call, at)' = m /\ call' = call
      BY <1>1
    <3> QED  BY <3>1, <3>2
  <2>4. \A j \in 1 .. n : w[j] = [kind |-> call.kind, byte |-> call.bytes[j]]
    BY <1>4
  <2>5. \A j : (j \in 1 .. k => j \in 1 .. n) /\ (j \in 1 .. m => j \in 1 .. n)
    BY <1>1, <1>3
  <2> HIDE DEF n, k, m, w
  <2> QED  BY <2>1, <2>2, <2>3, <2>4, <2>5
<1>6. /\ Phase = "call" /\ Phase' = "call" /\ Wanted = w /\ Wanted' = w /\ Asked = 0 /\ Asked' = 0
  BY <1>1 DEF Phase, Wanted, Asked, WriteKinds
<1> HIDE DEF n, k, m, w
<1>7. CASE m = k
  <2>1. latched' = latched
    BY <1>3, <1>5, <1>7, SameElements
  <2> QED  BY <1>5, <1>6, <2>1
<1>8. CASE m = k + 1
  <2> DEFINE t == Append(latched, w[k + 1])
  <2>1. w[k + 1] = latched'[k + 1] /\ latched'[k + 1] \in Cycles /\ k + 1 <= n /\ k \in Nat
    BY <1>3, <1>5, <1>8
  <2>2. t \in Seq(Cycles) /\ Len(t) = k + 1 /\ \A j \in 1 .. k + 1 : t[j] = latched'[j]
    BY <1>3, <1>5, <1>8, <2>1
  <2>3. latched' = t
    <3> HIDE DEF t
    <3> QED  BY <1>3, <1>5, <1>8, <2>2, SameElements
  <2>4. Len(latched) < Len(w) /\ Len(latched) + 1 = k + 1
    BY <1>4, <1>5, <2>1
  <2>5. Promise!Latch
    BY <1>5, <1>6, <2>3, <2>4 DEF Promise!Latch, Phase, Wanted, Asked
  <2> QED  BY <2>5
<1> QED  BY <1>3, <1>7, <1>8

LEMMA PromiseOfRead ==
  ASSUME BusInv, inited, call.kind = "read", HostStep
  PROVE  Promise!Hand \/ UNCHANGED <<Phase, Wanted, Asked, latched, got>>
<1> DEFINE n == Len(call.bytes)  k == Done(call, at)  m == Done(call, at + 1)
<1>1. /\ call \in Calls /\ PinTypes /\ LogTypes /\ at # 0 /\ at' = at + 1 /\ at + 1 # 0
      /\ call' = call /\ inited' = inited /\ CallLen(call) \in Nat /\ n \in Nat
      /\ Done(call, at)' = m /\ InLoop(call, at)' = InLoop(call, at + 1)
      /\ LoopAt(call, at)' = LoopAt(call, at + 1)
  BY StepAdvances, LengthTypes, Lengths DEF BusInv, Standing
<1>2. ReadOK /\ ReadOK' /\ LogTypes'
  BY <1>1, ReadStep DEF BusInv, SessionOK
<1> DEFINE g == Len(got)  h == Len(got')
<1>3. g \in 0 .. n /\ h \in 0 .. n /\ (h = g \/ h = g + 1)
  <2>1. /\ Len(got) = IF InLoop(call, at) /\ LoopAt(call, at) = 2 THEN k + 1 ELSE k
        /\ Len(got') = IF InLoop(call, at + 1) /\ LoopAt(call, at + 1) = 2 THEN m + 1 ELSE m
    BY <1>1, <1>2 DEF ReadOK
  <2>2. /\ Moves(at, k, m, n, HeadLen(call), TailAt(call))
        /\ at <= HeadLen(call) \/ InLoop(call, at) \/ at >= TailAt(call)
        /\ at <= HeadLen(call) => ~InLoop(call, at)
        /\ at >= TailAt(call) => ~InLoop(call, at)
    BY <1>1, Moving
  <2> HIDE DEF n, k, m
  <2>3. CASE InLoop(call, at) /\ LoopAt(call, at) = 2
    BY <1>1, <2>1, <2>2, <2>3 DEF Moves
  <2>4. CASE InLoop(call, at) /\ LoopAt(call, at) # 2
    BY <1>1, <2>1, <2>2, <2>4 DEF Moves
  <2>5. CASE ~InLoop(call, at)
    BY <1>1, <2>1, <2>2, <2>5 DEF Moves
  <2> QED  BY <2>3, <2>4, <2>5
<1>4. /\ got \in Seq(Nat) /\ got' \in Seq(Nat) /\ latched = <<>> /\ latched' = <<>>
      /\ \A j \in 1 .. g : got[j] = j
      /\ \A j \in 1 .. h : got'[j] = j
  BY <1>1, <1>2, <1>3 DEF ReadOK, LogTypes
<1>5. /\ Phase = "call" /\ Phase' = "call" /\ Wanted' = Wanted /\ Asked = n /\ Asked' = n
  BY <1>1 DEF Phase, Wanted, Asked
<1> HIDE DEF n, k, m
<1>6. CASE h = g
  <2>1. got' = got
    BY <1>3, <1>4, <1>6, SameElements
  <2> QED  BY <1>4, <1>5, <2>1
<1>7. CASE h = g + 1
  <2> DEFINE t == Append(got, g + 1)
  <2>1. t \in Seq(Nat) /\ Len(t) = g + 1 /\ \A j \in 1 .. g + 1 : t[j] = j
    BY <1>3, <1>4, <1>7
  <2>2. got' = t
    <3> HIDE DEF t
    <3> QED  BY <1>3, <1>4, <1>7, <2>1, SameElements
  <2>3. Len(got) < n /\ Len(got) + 1 = g + 1
    BY <1>1, <1>3, <1>7
  <2>4. Promise!Hand
    BY <1>4, <1>5, <2>2, <2>3 DEF Promise!Hand, Phase, Wanted, Asked
  <2> QED  BY <2>4
<1> QED  BY <1>3, <1>6, <1>7

(* A start-up prepares the pins; one of them may look like a strobe.       *)
LEMMA PromiseOfInit ==
  ASSUME BusInv, call.kind = "init", HostStep
  PROVE  Promise!Stray \/ UNCHANGED <<Phase, Wanted, Asked, latched, got>>
<1>1. /\ call \in Calls /\ PinTypes /\ LogTypes /\ at # 0 /\ at' = at + 1 /\ at + 1 # 0
      /\ call' = call /\ inited' = inited /\ CallLen(call) \in Nat
  BY StepAdvances, LengthTypes DEF BusInv, Standing
<1>2. Phase' = Phase /\ Wanted' = Wanted /\ Asked' = Asked
  BY <1>1 DEF Phase, Wanted, Asked
<1>3. CASE inited
  <2>1. latched = <<>> /\ got = <<>> /\ latched' = <<>> /\ got' = <<>>
    BY <1>1, <1>3, RestedStep DEF BusInv, SessionOK
  <2> QED  BY <1>2, <2>1
<1>4. CASE ~inited
  <2>1. StartOK /\ StartOK' /\ QuietStart' /\ LogTypes'
    BY <1>1, <1>4, StartStep DEF BusInv
  <2>2. got' = got
    BY <2>1 DEF StartOK
  <2>3. latched' = latched \/ (latched = <<>> /\ Len(latched') = 1)
    <3> SUFFICES ASSUME latched' # latched
                 PROVE  latched = <<>> /\ Len(latched') = 1
      OBVIOUS
    <3>1. PackageSees
      BY DEF HostStep, SetPin, DirectPin, DirectDQ, SetDQ, ReadDQ, AwaitReady
    <3>2. /\ level["WE"] = 0
          /\ latched' = Append(latched, [kind |-> CycleKind(level), byte |-> OnBus])
      BY <3>1 DEF PackageSees, Latches
    <3>3. at \in Nat /\ ~(at > 8)
      BY <1>1, <2>1, <3>2, StepAdvances DEF StartOK
    <3>4. latched = <<>>
      BY <2>1, <3>2, <3>3 DEF StartOK
    <3> QED  BY <3>2, <3>4
  <2>4. CASE latched' # latched
    <3>1. latched'[1].kind = "data"
      BY <2>1, <2>3, <2>4 DEF QuietStart
    <3>2. Promise!Stray
      BY <1>1, <1>2, <1>4, <2>2, <2>3, <2>4, <3>1 DEF Promise!Stray, Phase, Wanted, Asked
    <3> QED  BY <3>2
  <2> QED  BY <1>2, <2>2, <2>4
<1> QED  BY <1>3, <1>4

LEMMA PromiseOfHost ==
  ASSUME BusInv, HostStep
  PROVE  [Promise!Next]_(Promise!busVars)
<1>1. call \in Calls /\ (inited \/ call.kind = "init")
  <2>1. at # 0
    BY StepAdvances, LengthTypes DEF BusInv, Standing
  <2> QED  BY <2>1 DEF BusInv, Standing
<1>2. Promise!Latch \/ Promise!Hand \/ Promise!Stray
        \/ UNCHANGED <<Phase, Wanted, Asked, latched, got>>
  BY <1>1, CallTypes, PromiseOfWrite, PromiseOfRead, PromiseOfInit
<1> QED  BY <1>2 DEF Promise!Next, Promise!busVars, Phase, Wanted, Asked

LEMMA PromiseOfReturn ==
  ASSUME BusInv, Return
  PROVE  Promise!Next
<1>1. /\ at > CallLen(call) /\ at' = 0 /\ inited' = TRUE
      /\ UNCHANGED <<level, outputs, dq, rb, call, got, latched, shown>>
  BY DEF Return
<1>2. call \in Calls /\ at \in Nat /\ CallLen(call) \in Nat /\ at # 0 /\ LogTypes
      /\ TailAt(call) \in Nat /\ TailAt(call) > HeadLen(call) /\ HeadLen(call) \in Nat
      /\ CallLen(call) >= TailAt(call) - 1
  BY <1>1, LengthTypes DEF BusInv, Standing
<1>3. Done(call, at) = Len(call.bytes) /\ ~InLoop(call, at) /\ Len(call.bytes) \in Nat
  BY <1>1, <1>2, LoopSteps, Lengths DEF InLoop
<1>4. Phase' = "idle" /\ Wanted' = Delivers(call)
      /\ Asked' = IF call.kind = "read" THEN Len(call.bytes) ELSE 0
  BY <1>1 DEF Phase, Wanted, Asked
<1>5. CASE inited
  <2>1. Phase = "call" /\ Wanted' = Wanted /\ Asked' = Asked
    BY <1>1, <1>2, <1>5 DEF Phase, Wanted, Asked
  <2>2. latched = Wanted /\ Len(got) = Asked
    <3>1. CASE call.kind \in WriteKinds
      <4>1. WriteOK /\ Asked = 0 /\ Wanted = Delivers(call)
        BY <1>2, <1>5, <3>1 DEF BusInv, SessionOK, Asked, Wanted, WriteKinds
      <4>2. /\ Delivers(call) \in Seq(Cycles) /\ latched \in Seq(Cycles)
            /\ Len(latched) = Len(Delivers(call))
            /\ \A j \in 1 .. Len(latched) : latched[j] = Delivers(call)[j]
        BY ZenonT(30), <1>2, <1>3, <3>1, <4>1, WantedTypes DEF WriteOK, LogTypes
      <4>3. latched = Delivers(call)
        BY <4>2, SameElements
      <4> QED  BY <4>1, <4>3 DEF WriteOK
    <3>2. CASE call.kind = "read"
      <4>1. ReadOK /\ Delivers(call) = <<>>
        BY <1>2, <1>5, <3>2, WantedTypes DEF BusInv, SessionOK, WriteKinds
      <4> QED  BY <1>3, <1>5, <3>2, <4>1 DEF ReadOK, Wanted, Asked
    <3>3. CASE call.kind = "init"
      <4>1. latched = <<>> /\ got = <<>> /\ Delivers(call) = <<>>
        BY <1>2, <1>5, <3>3, WantedTypes DEF BusInv, SessionOK, WriteKinds
      <4> QED  BY <1>5, <3>3, <4>1 DEF Wanted, Asked
    <3> QED  BY <1>2, <3>1, <3>2, <3>3, CallTypes
  <2>3. Promise!End
    BY <1>1, <1>4, <2>1, <2>2 DEF Promise!End, Phase, Wanted, Asked
  <2> QED  BY <2>3 DEF Promise!Next
<1>6. CASE ~inited
  <2>1. call.kind = "init" /\ Delivers(call) = <<>>
    BY <1>2, <1>6, WantedTypes DEF BusInv, WriteKinds
  <2>2. Phase = "off" /\ Wanted = <<>> /\ Asked = 0 /\ Wanted' = <<>> /\ Asked' = 0
    BY <1>4, <1>6, <2>1 DEF Phase, Wanted, Asked
  <2>3. Promise!Start
    BY <1>1, <1>4, <2>2 DEF Promise!Start, Phase, Wanted, Asked
  <2> QED  BY <2>3 DEF Promise!Next
<1> QED  BY <1>5, <1>6

LEMMA PromiseOfInvoke ==
  ASSUME BusInv, Invoke
  PROVE  Promise!Next
<1>1. /\ at = 0 /\ at' = 1 /\ call' \in Calls /\ got' = <<>> /\ latched' = <<>>
      /\ inited' = inited
  BY DEF Invoke
<1>2. CASE inited
  <2>1. Phase = "idle" /\ Phase' = "call" /\ Wanted' = Delivers(call')
        /\ Asked' = IF call'.kind = "read" THEN Len(call'.bytes) ELSE 0
    BY <1>1, <1>2 DEF Phase, Wanted, Asked
  <2>2. Delivers(call') \in Seq([kind : WriteKinds, byte : Bytes]) /\ Len(call'.bytes) \in Nat
    BY <1>1, WantedTypes, Lengths
  <2>3. Promise!Begin
    BY <1>1, <2>1, <2>2 DEF Promise!Begin, Promise!Cycle, Phase, Wanted, Asked, WriteKinds
  <2> QED  BY <2>3 DEF Promise!Next
<1>3. CASE ~inited
  <2>1. Promise!Prepare
    BY <1>1, <1>3 DEF Promise!Prepare
  <2> QED  BY <2>1 DEF Promise!Next
<1> QED  BY <1>2, <1>3

LEMMA PromiseOfEnd ==
  ASSUME BusInv, ProcessEnds
  PROVE  [Promise!Next]_(Promise!busVars)
<1>1. /\ inited' = FALSE /\ at' = 0 /\ UNCHANGED <<call, got, latched>>
  BY DEF ProcessEnds
<1>2. CASE inited
  <2>1. Promise!Die
    BY <1>1, <1>2 DEF Promise!Die
  <2> QED  BY <2>1 DEF Promise!Next
<1>3. CASE ~inited
  BY <1>1, <1>3 DEF Promise!busVars
<1> QED  BY <1>2, <1>3

(* The pin driver keeps the promise of BusCycles: the package latches the  *)
(* cycles of each call, each once and in order, and the bytes it puts out  *)
(* are taken in order (send_command, send_addresses, send_data, get_data); *)
(* each step of the pins is a step of the promise or none.                 *)
THEOREM DriverKeepsPromise ==
  Spec => KeepsBusPromise
<1>1. Init => Promise!Init
  BY DEF Init, Promise!Init
<1>2. BusInv /\ [Next]_vars => [Promise!Next]_(Promise!busVars)
  <2> SUFFICES ASSUME BusInv, [Next]_vars
               PROVE  [Promise!Next]_(Promise!busVars)
    OBVIOUS
  <2>1. CASE PackageReady \/ UNCHANGED vars
    BY <2>1 DEF PackageReady, vars, Promise!busVars
  <2> QED
    BY <2>1, NextSteps, PromiseOfHost, PromiseOfReturn, PromiseOfInvoke, PromiseOfEnd
<1> QED  BY <1>1, <1>2, BusHolds, PTL DEF Spec, KeepsBusPromise, Promise!Spec
=============================================================================
