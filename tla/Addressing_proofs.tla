-------------------------- MODULE Addressing_proofs --------------------------
(***************************************************************************)
(* For every width of a byte and every package: the address bytes that the *)
(* driver sends name the page it was asked for and no other, and what goes *)
(* with an address arrives.                                                *)
(*                                                                         *)
(* First the arithmetic: the places of a number are the powers of Byte, a  *)
(* number below Place[k] is determined by its k lowest bytes.  Then the    *)
(* invariant: whatever was last sent was built from the geometry that      *)
(* read_parameters has made of the parameter page, and from a block and a  *)
(* page inside it unless the function checks neither.                      *)
(***************************************************************************)
EXTENDS Addressing, WellFoundedInduction, SequenceTheorems, TLAPS

-----------------------------------------------------------------------------
(* Division.                                                               *)

LEMMA Quotient ==
  ASSUME NEW n \in Nat, NEW a \in Nat \ {0}
  PROVE  /\ n \div a \in Nat /\ n % a \in 0..(a - 1)
         /\ a * (n \div a) <= n /\ n < a * (n \div a) + a
         /\ n % a = n - a * (n \div a)
<1>1. n \div a \in Int /\ n % a \in 0..(a - 1)
  OBVIOUS
<1>2. a * (n \div a) <= n /\ n < a * (n \div a) + a
  OBVIOUS
<1>3. n % a = n - a * (n \div a)
  OBVIOUS
<1>4. n \div a >= 0
  <2> SUFFICES ASSUME n \div a < 0 PROVE FALSE
    BY <1>1
  <2> DEFINE d == n \div a
  <2>1. d \in Int /\ d <= -1 /\ n < a * d + a
    BY <1>1, <1>2
  <2> HIDE DEF d
  <2>2. a * d <= a * (-1)
    BY <2>1
  <2>3. a * d \in Int /\ a * (-1) = -a
    BY <2>1
  <2> QED  BY <2>1, <2>2, <2>3
<1> QED  BY <1>1, <1>2, <1>3, <1>4

LEMMA QuotientIs ==
  ASSUME NEW n \in Nat, NEW a \in Nat \ {0}, NEW q \in Nat, a * q <= n, n < a * q + a
  PROVE  n \div a = q
<1> DEFINE d == n \div a
<1>1. d \in Nat /\ a * d <= n /\ n < a * d + a
  BY Quotient
<1> HIDE DEF d
<1>2. ASSUME d < q PROVE FALSE
  <2>1. q = d + 1 + (q - d - 1) /\ q - d - 1 \in Nat
    BY <1>1, <1>2
  <2>2. a * q = a * d + a + a * (q - d - 1)
    BY <1>1, <2>1
  <2>3. a * (q - d - 1) >= 0 /\ a * (q - d - 1) \in Int /\ a * d \in Int
    BY <2>1, <1>1
  <2> QED  BY <1>1, <2>2, <2>3
<1>3. ASSUME q < d PROVE FALSE
  <2>1. d = q + 1 + (d - q - 1) /\ d - q - 1 \in Nat
    BY <1>1, <1>3
  <2>2. a * d = a * q + a + a * (d - q - 1)
    BY <1>1, <2>1
  <2>3. a * (d - q - 1) >= 0 /\ a * (d - q - 1) \in Int /\ a * q \in Int
    BY <2>1, <1>1
  <2> QED  BY <1>1, <2>2, <2>3
<1> QED  BY <1>1, <1>2, <1>3 DEF d

LEMMA Small ==
  ASSUME NEW a \in Nat \ {0}, NEW n \in 0..(a - 1)
  PROVE  n % a = n /\ n \div a = 0
OBVIOUS

(* Two divisions, one after the other, are one.                            *)
LEMMA QuotientOfQuotient ==
  ASSUME NEW n \in Nat, NEW a \in Nat \ {0}, NEW b \in Nat \ {0}
  PROVE  a * b \in Nat \ {0} /\ (n \div a) \div b = n \div (a * b)
<1> DEFINE m == n \div a
           q == m \div b
<1>1. m \in Nat /\ a * m <= n /\ n < a * m + a
  BY Quotient
<1>2. q \in Nat /\ b * q <= m /\ m < b * q + b
  BY <1>1, Quotient
<1>3. a * b \in Nat \ {0}
  OBVIOUS
<1> HIDE DEF m, q
<1>4. (a * b) * q <= n
  <2>1. a * (b * q) <= a * m
    BY <1>1, <1>2
  <2>2. (a * b) * q = a * (b * q) /\ a * m \in Int /\ a * (b * q) \in Int
    BY <1>1, <1>2
  <2> QED  BY <1>1, <2>1, <2>2
<1>5. n < (a * b) * q + a * b
  <2>1. a * (m + 1) <= a * (b * q + b)
    BY <1>1, <1>2
  <2>2. a * (m + 1) = a * m + a /\ a * (b * q + b) = (a * b) * q + a * b
    BY <1>1, <1>2
  <2>3. a * m \in Int /\ (a * b) * q \in Int /\ a * b \in Int
    BY <1>1, <1>2
  <2> QED  BY <1>1, <2>1, <2>2, <2>3
<1>6. n \div (a * b) = q
  BY <1>2, <1>3, <1>4, <1>5, QuotientIs
<1> QED  BY <1>3, <1>6 DEF m, q

-----------------------------------------------------------------------------
(* Places.                                                                 *)

LEMMA LeastNumber ==
  ASSUME NEW T, T \subseteq Nat, T # {}
  PROVE  \E x \in T : \A y \in T : x <= y
<1>1. PICK x \in T : \A y \in T : <<y, x>> \notin OpToRel(<, Nat)
  BY WFMin, NatLessThanWellFounded, Zenon
<1>2. \A y \in T : ~(y < x)
  BY <1>1, Zenon DEF OpToRel
<1> QED  BY <1>2

(* Place is the function its definition asks for: it can be built up to any length. *)
Powers(f, k) == f \in [0..k -> Nat] /\ f[0] = 1 /\ \A i \in 1..k : f[i] = Byte * f[i - 1]

LEMMA PowersExist == \A k \in Nat : \E f : Powers(f, k)
<1> DEFINE T == {k \in Nat : ~ \E f : Powers(f, k)}
<1> SUFFICES ASSUME T # {} PROVE FALSE
  OBVIOUS
<1>1. PICK k \in T : \A j \in T : k <= j
  BY LeastNumber
<1>2. k # 0
  <2> SUFFICES ASSUME k = 0 PROVE Powers([i \in 0..0 |-> 1], k)
    OBVIOUS
  <2> QED  BY DEF Powers
<1>3. PICK f : Powers(f, k - 1)
  BY <1>1, <1>2
<1>4. Powers([i \in 0..k |-> IF i = k THEN Byte * f[k - 1] ELSE f[i]], k)
  <2> DEFINE g == [i \in 0..k |-> IF i = k THEN Byte * f[k - 1] ELSE f[i]]
  <2>1. k \in Nat /\ k - 1 \in Nat /\ Byte \in Nat
    BY <1>1, <1>2, AddressingAssumption
  <2>2. f \in [0..(k - 1) -> Nat] /\ f[k - 1] \in Nat /\ Byte * f[k - 1] \in Nat
    BY <1>3, <2>1 DEF Powers
  <2>3. g[k] = Byte * f[k - 1] /\ \A i \in 0..(k - 1) : g[i] = f[i]
    <3>1. k \in 0..k
      BY <2>1
    <3>2. ASSUME NEW i \in 0..(k - 1) PROVE i \in 0..k /\ i # k
      BY <2>1
    <3> QED  BY <3>1, <3>2, Zenon
  <2>8. g \in [0..k -> Nat]
    <3>1. ASSUME NEW i \in 0..k
          PROVE  (IF i = k THEN Byte * f[k - 1] ELSE f[i]) \in Nat
      <4>1. CASE i = k
        BY <2>2, <4>1
      <4>2. CASE i # k
        <5>1. i \in 0..(k - 1)
          BY <2>1, <4>2
        <5> QED  BY <2>2, <4>2, <5>1
      <4> QED  BY <4>1, <4>2
    <3> QED  BY <3>1
  <2>4. g[0] = 1 /\ g[k] = Byte * g[k - 1]
    <3>1. 0 \in 0..(k - 1) /\ k - 1 \in 0..(k - 1)
      BY <2>1
    <3> HIDE DEF g
    <3> QED  BY <1>3, <2>3, <3>1 DEF Powers
  <2>5. ASSUME NEW i \in 1..(k - 1) PROVE g[i] = Byte * g[i - 1]
    <3>1. f[i] = Byte * f[i - 1] /\ i \in 0..(k - 1) /\ i - 1 \in 0..(k - 1)
      BY <1>3, <2>1 DEF Powers
    <3> QED  BY <2>3, <3>1
  <2> HIDE DEF g
  <2>6. \A i \in 1..k : i = k \/ i \in 1..(k - 1)
    BY <2>1
  <2>7. Powers(g, k)
    BY <2>4, <2>5, <2>6, <2>8 DEF Powers
  <2> QED  BY <2>7 DEF g
<1> QED  BY <1>1, <1>4

LEMMA Places ==
  /\ Place \in [0..15 -> Nat \ {0}] /\ Place[0] = 1
  /\ \A i \in 1..15 : Place[i] = Byte * Place[i - 1]
<1> DEFINE IsPlace(g) == g = [i \in 0..15 |-> IF i = 0 THEN 1 ELSE Byte * g[i - 1]]
<1>1. PICK f : Powers(f, 15)
  BY PowersExist
<1>2. IsPlace(f)
  BY <1>1 DEF Powers
<1>3. Place = CHOOSE g : IsPlace(g)
  BY DEF Place
<1>4. IsPlace(Place)
  BY <1>2, <1>3
<1>5. Place[0] = 1 /\ \A i \in 1..15 : Place[i] = Byte * Place[i - 1]
  BY <1>4
<1>6. Place = [i \in 0..15 |-> Place[i]]
  BY <1>4
<1> HIDE DEF IsPlace
<1> DEFINE T == {i \in Nat : i <= 15 /\ Place[i] \notin Nat \ {0}}
<1>7. T = {}
  <2> SUFFICES ASSUME T # {} PROVE FALSE
    OBVIOUS
  <2>1. PICK i \in T : \A j \in T : i <= j
    BY LeastNumber
  <2>2. i \in 1..15 /\ i - 1 \in 0..15
    BY <1>5, <2>1
  <2>3. Place[i - 1] \in Nat \ {0}
    BY <2>1, <2>2
  <2> QED  BY <1>5, <2>1, <2>2, <2>3, AddressingAssumption
<1>8. \A i \in 0..15 : Place[i] \in Nat \ {0}
  BY <1>7
<1> QED  BY <1>5, <1>6, <1>8

(* The bytes of a number: the lowest, and those of the rest of it.         *)
LEMMA BytesOfRest ==
  ASSUME NEW n \in Nat, NEW i \in 0..14
  PROVE  ByteOf(n, 0) = n % Byte /\ ByteOf(n, i + 1) = ByteOf(n \div Byte, i)
<1>1. Place[i] \in Nat \ {0} /\ Place[i + 1] = Byte * Place[i] /\ Place[0] = 1 /\ Byte \in Nat \ {0}
  BY Places, AddressingAssumption
<1>2. n \div 1 = n
  BY QuotientIs
<1>3. (n \div Byte) \div Place[i] = n \div (Byte * Place[i])
  BY <1>1, QuotientOfQuotient
<1> QED  BY <1>1, <1>2, <1>3 DEF ByteOf

(* A number below Place[k] is determined by its k lowest bytes.            *)
SameBytes(n, m, k) == \A i \in 0..(k - 1) : ByteOf(n, i) = ByteOf(m, i)
BytesTell(k) == \A n, m \in 0..(Place[k] - 1) : SameBytes(n, m, k) => n = m

LEMMA OneByteMore ==
  ASSUME NEW k \in 0..14, BytesTell(k)
  PROVE  BytesTell(k + 1)
<1> SUFFICES ASSUME NEW n \in 0..(Place[k + 1] - 1), NEW m \in 0..(Place[k + 1] - 1),
                    SameBytes(n, m, k + 1)
             PROVE  n = m
  BY DEF BytesTell
<1>1. Place[k] \in Nat \ {0} /\ Place[k + 1] = Byte * Place[k] /\ Byte \in Nat \ {0}
  BY Places, AddressingAssumption
<1>2. n \in Nat /\ m \in Nat
  BY <1>1
<1>3. n % Byte = m % Byte
  BY <1>2, BytesOfRest DEF SameBytes
<1>4. SameBytes(n \div Byte, m \div Byte, k)
  <2> SUFFICES ASSUME NEW i \in 0..(k - 1)
               PROVE  ByteOf(n \div Byte, i) = ByteOf(m \div Byte, i)
    BY DEF SameBytes
  <2>1. i \in 0..14 /\ i + 1 \in 0..(k + 1 - 1)
    OBVIOUS
  <2>2. ByteOf(n, i + 1) = ByteOf(m, i + 1)
    BY <2>1 DEF SameBytes
  <2> QED  BY <1>2, <2>1, <2>2, BytesOfRest
<1>5. ASSUME NEW x \in 0..(Place[k + 1] - 1) PROVE x \div Byte \in 0..(Place[k] - 1)
  <2> DEFINE d == x \div Byte
  <2>1. d \in Nat /\ Byte * d <= x /\ x \in Nat /\ x < Place[k + 1]
    <3>1. x \in Nat /\ x < Place[k + 1] /\ Byte \in Nat \ {0}
      BY <1>1
    <3> QED  BY <3>1, Quotient
  <2> HIDE DEF d
  <2>2. ASSUME d >= Place[k] PROVE FALSE
    <3>1. Byte * d >= Byte * Place[k]
      BY <1>1, <2>1, <2>2
    <3> QED  BY <1>1, <2>1, <3>1
  <2>3. d \in 0..(Place[k] - 1)
    BY <1>1, <2>1, <2>2
  <2> QED  BY <2>3 DEF d
<1>6. n \div Byte = m \div Byte
  BY <1>4, <1>5 DEF BytesTell
<1>7. n % Byte = n - Byte * (n \div Byte) /\ m % Byte = m - Byte * (m \div Byte)
  BY <1>1, <1>2, Quotient
<1>8. n \div Byte \in Nat
  BY <1>1, <1>2, Quotient
<1>9. Byte * (n \div Byte) \in Int
  BY <1>1, <1>8
<1> QED  BY <1>2, <1>3, <1>6, <1>7, <1>9

LEMMA BytesName == \A k \in 0..15 : BytesTell(k)
<1> DEFINE T == {k \in Nat : k <= 15 /\ ~BytesTell(k)}
<1>1. T = {}
  <2> SUFFICES ASSUME T # {} PROVE FALSE
    OBVIOUS
  <2>1. PICK k \in T : \A j \in T : k <= j
    BY LeastNumber
  <2>2. BytesTell(0)
    BY Places DEF BytesTell
  <2>3. k \in 1..15 /\ k - 1 \in 0..14 /\ (k - 1) + 1 = k
    BY <2>1, <2>2
  <2>4. BytesTell(k - 1)
    BY <2>1, <2>3
  <2>5. BytesTell((k - 1) + 1)
    BY <2>3, <2>4, OneByteMore
  <2> QED  BY <2>1, <2>3, <2>5
<1> QED  BY <1>1

-----------------------------------------------------------------------------
(* The invariant: once started the geometry is that of the package, and    *)
(* what was last sent was built from it, for a block and a page inside it  *)
(* unless the function checks neither.                                     *)

AccessCall(op, block, page, fill) ==
  [ kind |-> "access", op |-> op, block |-> block, page |-> page,
    bytes |-> IF Overruns(geometry, op) THEN <<>>
              ELSE Bytes(geometry, op, Address(geometry, block, page), fill),
    data |-> Transfer(geometry, op) ]

Accepted(op, block, page) ==
  /\ op \in Checked => InRange(geometry, op, block, page)
  /\ op \in TimedTransfers => geometry.size + geometry.spare < Word
  /\ op \in OfBlock => page = 0

CallOK ==
  \/ call = NoCall
  \/ \E op \in Ops, block \in Nat, page \in Nat, fill \in Int :
       Accepted(op, block, page) /\ call = AccessCall(op, block, page, fill)
  \/ call = [kind |-> "column", marker |-> TRUE, asked |-> geometry.size,
             bytes |-> Column(geometry.size)]
  \/ \E n \in 0..(Word - 1) :
       call = [kind |-> "column", marker |-> FALSE, asked |-> n, bytes |-> Column(n)]
  \/ \E unit \in {"address", "data"}, n \in Nat :
       call = [kind |-> "raw", unit |-> unit, said |-> n,
               sent |-> n % (IF unit = "address" THEN Byte ELSE Word)]

AddressInv ==
  /\ part \in Parts
  /\ IF started THEN geometry = Narrow(ParseGeometry(part)) ELSE call = NoCall /\ ~undefined
  /\ CallOK
  /\ ShortAddressesFit

LEMMA Widths == Word \in Nat \ {0, 1} /\ Dword \in Nat \ {0, 1} /\ Word < Dword /\ Byte < Word
<1>1. ASSUME NEW b \in Nat \ {0, 1} PROVE b * b \in Nat \ {0, 1} /\ b < b * b
  <2>1. b * b >= b * 2 /\ b * b \in Int
    OBVIOUS
  <2> QED  BY <2>1
<1>2. Word \in Nat \ {0, 1} /\ Byte < Word
  BY <1>1, AddressingAssumption DEF Word
<1> QED  BY <1>1, <1>2 DEF Dword

(* What read_parameters has stored.                                        *)
LEMMA Stored ==
  ASSUME part \in Parts, geometry = Narrow(ParseGeometry(part))
  PROVE  /\ geometry.column = part.column /\ geometry.row = part.row
         /\ part.column \in 0..15 /\ part.row \in 0..15
         /\ geometry.size = Parse(part.size, Dword - 1, Fallback.size) % Word
         /\ geometry.spare = Parse(part.spare, Word - 1, Fallback.spare) % Word
         /\ geometry.pages = Parse(part.pages, Dword - 1, Fallback.pages) % Word
         /\ geometry.blocks = Parse(part.blocks, Dword - 1, Fallback.blocks) % Word
<1>1. part \in ParameterPage
  BY AddressingAssumption
<1> QED  BY <1>1 DEF ParameterPage, Narrow, ParseGeometry

LEMMA FieldWidths ==
  ASSUME part \in Parts, geometry = Narrow(ParseGeometry(part))
  PROVE  /\ geometry.size \in 0..(Word - 1) /\ geometry.spare \in 0..(Word - 1)
         /\ geometry.pages \in 0..(Word - 1) /\ geometry.blocks \in 0..(Word - 1)
         /\ part.size \in Nat /\ part.spare \in Nat /\ part.pages \in Nat /\ part.blocks \in Nat
<1>1. part \in ParameterPage
  BY AddressingAssumption
<1>2. /\ part.size \in Nat /\ part.spare \in Nat /\ part.pages \in Nat /\ part.blocks \in Nat
      /\ Fallback.size \in Nat /\ Fallback.spare \in Nat /\ Fallback.pages \in Nat /\ Fallback.blocks \in Nat
  BY <1>1, AddressingAssumption DEF ParameterPage
<1>3. \A v \in Nat : v % Word \in 0..(Word - 1)
  BY Widths, Quotient
<1>4. ASSUME NEW v \in Nat, NEW d \in Nat, NEW ones PROVE Parse(v, ones, d) \in Nat
  BY DEF Parse
<1> QED  BY <1>2, <1>3, <1>4, Stored

LEMMA InitAddress == Init => AddressInv
BY DEF Init, AddressInv, CallOK, ShortAddressesFit

LEMMA LayoutFields ==
  ASSUME NEW g, g.column \in 0..15, g.row \in 0..15, NEW op \in Ops
  PROVE  LET l == Layouts(g)[op]
         IN  /\ l.room \in {5, 8} /\ l.from \in Nat /\ l.count \in Nat
             /\ \/ l.from + l.count <= 5
                \/ l.from + l.count = g.column + g.row
                \/ l.from + l.count = g.column + 3 /\ l.room = 8
             /\ op \notin Erasers => l.from = 0
<1> USE DEF AllCycles, Layout
<1>1. op \in {"read", "program", "partial_program", "program_tlc_subpage", "program_tlc_page",
              "erase", "partial_erase", "timed_erase", "timed_program", "timed_read",
              "device_read", "device_program", "device_program_tlc", "device_read_tlc",
              "device_erase", "device_partial_erase"}
  BY DEF Ops, Layouts
<1> QED
  BY <1>1 DEF Layouts, LegacyRead, LegacyProgram, LegacyPartialProgram, LegacyTlcSubpage,
              LegacyTlcPage, LegacyErase, LegacyPartialErase, TimedErase, TimedProgram, TimedRead,
              DeviceRead, DeviceProgram, DeviceTlcSubpage, DeviceTlcRead, DeviceErase,
              DevicePartialErase, Erasers

(* The functions whose addresses overrun send more than five cycles.       *)
LEMMA OverrunsAreLong ==
  ASSUME NEW g, g.column \in 0..15, g.row \in 0..15, NEW op \in Ops, Overruns(g, op)
  PROVE  g.column + g.row > 5
<1> DEFINE l == Layouts(g)[op]
<1>1. /\ l.room \in {5, 8} /\ l.from \in Nat /\ l.count \in Nat
      /\ \/ l.from + l.count <= 5
         \/ l.from + l.count = g.column + g.row
         \/ l.from + l.count = g.column + 3 /\ l.room = 8
  BY LayoutFields
<1>2. g.column + g.row > l.room \/ l.from + l.count > l.room
  BY DEF Overruns, WritesPast, SendsPast
<1> HIDE DEF l
<1> QED  BY <1>1, <1>2

-----------------------------------------------------------------------------
(* Its steps.                                                              *)

LEMMA ReadsPage == AddressInv /\ call = NoCall /\ read_parameters => AddressInv'
<1> SUFFICES ASSUME AddressInv, call = NoCall, read_parameters PROVE AddressInv'
  OBVIOUS
<1>1. /\ part' = part /\ geometry' = Narrow(ParseGeometry(part)) /\ started'
      /\ call' = NoCall /\ undefined' = undefined
  BY DEF read_parameters
<1>2. geometry' = Narrow(ParseGeometry(part))'
  BY <1>1 DEF Narrow, ParseGeometry
<1>3. CallOK'
  BY <1>1 DEF CallOK, NoCall
<1>4. ASSUME undefined' PROVE geometry'.column + geometry'.row > 5
  <2>1. geometry.column + geometry.row > 5
    BY <1>1, <1>4 DEF AddressInv, ShortAddressesFit
  <2>2. geometry = Narrow(ParseGeometry(part))
    BY <1>1, <1>4 DEF AddressInv
  <2> QED  BY <1>1, <2>1, <2>2
<1> QED  BY <1>1, <1>2, <1>3, <1>4 DEF AddressInv, ShortAddressesFit

LEMMA Accesses ==
  ASSUME AddressInv, started, NEW op \in Ops, NEW block \in Nat, NEW page \in Nat,
         Access(op, block, page)
  PROVE  AddressInv'
<1>1. UNCHANGED <<part, geometry, started>> /\ undefined' = Overruns(geometry, op)
  BY DEF Access
<1>2. PICK fill \in 0..(Byte - 1) : call' = AccessCall(op, block, page, fill)
  BY DEF Access, AccessCall
<1>3. AccessCall(op, block, page, fill) = AccessCall(op, block, page, fill)' 
  BY <1>1 DEF AccessCall, Overruns, WritesPast, SendsPast, Layouts, Bytes, Address, Transfer
<1>4. Accepted(op, block, page)'
  BY <1>1 DEF Access, Accepted, InRange
<1>5. fill \in Int
  BY AddressingAssumption
<1>6. CallOK'
  BY <1>2, <1>3, <1>4, <1>5 DEF CallOK
<1>7. ASSUME undefined' PROVE geometry.column + geometry.row > 5
  <2>1. geometry.column \in 0..15 /\ geometry.row \in 0..15
    BY Stored DEF AddressInv
  <2>2. Overruns(geometry, op)
    BY <1>1, <1>7
  <2> QED  BY <2>1, <2>2, OverrunsAreLong
<1> QED  BY <1>1, <1>6, <1>7 DEF AddressInv, ShortAddressesFit, Narrow, ParseGeometry

LEMMA OtherCalls ==
  ASSUME AddressInv, UNCHANGED <<part, geometry, started, undefined>>, CallOK',
         started \/ call' = NoCall
  PROVE  AddressInv'
BY DEF AddressInv, ShortAddressesFit, Narrow, ParseGeometry

LEMMA AddressHolds == Spec => []AddressInv
<1>1. AddressInv /\ [Next]_vars => AddressInv'
  <2> SUFFICES ASSUME AddressInv, [Next]_vars PROVE AddressInv'
    OBVIOUS
  <2>1. CASE call = NoCall /\ read_parameters
    BY <2>1, ReadsPage
  <2>2. CASE Return
    BY <2>2, OtherCalls DEF Return, CallOK, NoCall
  <2>3. ASSUME started, NEW op \in Ops, NEW block \in 0..(geometry.blocks - 1 + Beyond),
               NEW page \in 0..(geometry.pages - 1 + Beyond), Access(op, block, page)
        PROVE  AddressInv'
    <3>1. geometry.blocks \in Nat /\ geometry.pages \in Nat /\ Beyond \in Nat
      BY <2>3, FieldWidths, Widths, AddressingAssumption DEF AddressInv
    <3>2. block \in Nat /\ page \in Nat
      BY <3>1
    <3> QED  BY <2>3, <3>2, Accesses
  <2>4. ASSUME started, NEW block \in 0..(geometry.blocks - 1), MarkerColumn(block)
        PROVE  AddressInv'
    <3>1. CallOK'
      BY <2>4 DEF MarkerColumn, CallOK, Column
    <3> QED  BY <2>4, <3>1, OtherCalls DEF MarkerColumn
  <2>5. ASSUME started, NEW n \in 0..(Word - 1), RawChangeColumn(n)
        PROVE  AddressInv'
    <3>1. CallOK'
      BY <2>5 DEF RawChangeColumn, CallOK, Column
    <3> QED  BY <2>5, <3>1, OtherCalls DEF RawChangeColumn
  <2>6. ASSUME started, NEW unit \in {"address", "data"}, NEW n \in 1..MaxTokens, RawSend(unit, n)
        PROVE  AddressInv'
    <3>1. CallOK'
      BY <2>6 DEF RawSend, CallOK
    <3> QED  BY <2>6, <3>1, OtherCalls DEF RawSend
  <2>7. CASE UNCHANGED vars
    <3>1. CallOK
      BY DEF AddressInv
    <3>2. part' = part /\ geometry' = geometry /\ call' = call
      BY <2>7 DEF vars
    <3>3. ASSUME NEW op \in Ops, NEW block \in Nat, NEW page \in Nat, NEW fill \in Int,
                 Accepted(op, block, page), call = AccessCall(op, block, page, fill)
          PROVE  CallOK'
      <4>1. call' = AccessCall(op, block, page, fill)' /\ Accepted(op, block, page)'
        BY <3>2, <3>3 DEF AccessCall, Overruns, WritesPast, SendsPast, Layouts, Bytes, Address, Transfer,
                          Accepted, InRange
      <4> QED  BY <4>1 DEF CallOK
    <3>4. CallOK'
      BY <3>1, <3>2, <3>3 DEF CallOK, NoCall, Column
    <3> QED  BY <2>7, <3>4, OtherCalls DEF vars, AddressInv
  <2> QED  BY <2>1, <2>2, <2>3, <2>4, <2>5, <2>6, <2>7 DEF Next
<1> QED  BY <1>1, InitAddress, PTL DEF Spec

-----------------------------------------------------------------------------
(* The theorems.                                                           *)

(* ShortAddressesFit: no function writes or reads past its address buffer  *)
(* while the package has up to five address cycles, whatever their split   *)
(* (to_col_row_address and its callers).                                   *)
THEOREM ShortAddressesAreSafe == Spec => []ShortAddressesFit
<1>1. AddressInv => ShortAddressesFit
  BY DEF AddressInv
<1> QED  BY <1>1, AddressHolds, PTL

LEMMA ColumnIsNumber ==
  ASSUME NEW n \in 0..(Word - 1)
  PROVE  Column(n)[1] + Byte * Column(n)[2] = n
<1> DEFINE low == n % Byte
           high == n \div Byte
<1>1. n \in Nat /\ Byte \in Nat \ {0}
  BY Widths, AddressingAssumption
<1>2. high \in Nat /\ low \in Nat /\ low = n - Byte * high /\ Byte * high <= n
  <2>1. high \in Nat /\ low \in 0..(Byte - 1)
    BY <1>1, Quotient
  <2>2. low = n - Byte * high /\ Byte * high <= n
    BY <1>1, Quotient
  <2> QED  BY <1>1, <2>1, <2>2
<1>3. ByteOf(n, 0) = low /\ ByteOf(n, 1) = ByteOf(high, 0)
  BY <1>1, BytesOfRest
<1>4. ByteOf(high, 0) = high % Byte
  BY <1>2, BytesOfRest
<1> HIDE DEF low, high
<1>5. high < Byte
  <2>1. ASSUME high >= Byte PROVE FALSE
    <3>1. Byte * high >= Byte * Byte
      BY <1>1, <1>2, <2>1
    <3> QED  BY <1>1, <1>2, <3>1, Widths DEF Word
  <2> QED  BY <1>1, <1>2, <2>1
<1>6. high % Byte = high
  BY <1>1, <1>2, <1>5, Small
<1>7. Column(n)[1] = low /\ Column(n)[2] = high
  BY <1>3, <1>4, <1>6 DEF Column
<1>8. Byte * high \in Int
  BY <1>1, <1>2
<1> QED  BY <1>1, <1>2, <1>7, <1>8

(* A width cuts a number, and never adds to it.                            *)
LEMMA Cut ==
  ASSUME NEW n \in Nat, NEW a \in Nat \ {0}
  PROVE  n % a \in Nat /\ n % a <= n /\ n % a < a /\ (n < a => n % a = n)
<1>1. n \div a \in Nat /\ n % a = n - a * (n \div a) /\ n % a \in 0..(a - 1)
  BY Quotient
<1>2. a * (n \div a) >= 0 /\ a * (n \div a) \in Int
  BY <1>1
<1>3. n < a => n % a = n
  BY Small
<1> QED  BY <1>1, <1>2, <1>3

LEMMA StoredLength ==
  ASSUME NEW size \in Nat, NEW spare \in Nat, NEW width \in Nat \ {0},
         NEW sum, sum = (size % width) + (spare % width)
  PROVE  /\ sum \in Nat /\ sum <= size + spare
         /\ sum % width <= size + spare
         /\ size + spare < width => sum = size + spare /\ sum % width = sum
<1> DEFINE low == size % width
           high == spare % width
<1>1. /\ low \in Nat /\ low <= size /\ (size < width => low = size)
      /\ high \in Nat /\ high <= spare /\ (spare < width => high = spare)
  BY Cut
<1>0. sum = low + high
  OBVIOUS
<1> HIDE DEF low, high
<1>2. sum \in Nat /\ sum <= size + spare /\ (size + spare < width => sum = size + spare)
  BY <1>0, <1>1
<1>3. sum % width \in Nat /\ sum % width <= sum /\ (sum < width => sum % width = sum)
  BY <1>2, Cut
<1>4. sum % width <= size + spare /\ (size + spare < width => sum % width = sum)
  BY <1>2, <1>3
<1> QED  BY <1>2, <1>4

LEMMA Thirds == \A n \in Nat : n % 3 = 0 => 3 * (n \div 3) = n /\ n \div 3 <= n
OBVIOUS

(* What read_parameters makes of a page that says something.               *)
LEMMA StoredFields ==
  ASSUME AddressInv, started, Answers
  PROVE  /\ part.size \in Nat /\ part.spare \in Nat
         /\ geometry.size = part.size % Word /\ geometry.spare = part.spare % Word
         /\ part.pages \in Nat \ {0} /\ part.blocks \in Nat
         /\ geometry.pages = part.pages % Word /\ geometry.blocks = part.blocks % Word
<1>1. geometry = Narrow(ParseGeometry(part)) /\ part \in Parts
  BY DEF AddressInv
<1> QED  BY <1>1, FieldWidths, Stored DEF Answers, Parse

(* LengthsAndColumnsArrive: a whole page moves with its spare area, the column sent   *)
(* is the column asked for, and a raw command sends every byte it is given, while the *)
(* lengths fit the widths they are passed on in, and never more than was asked        *)
(* (program_page and its like, is_bad_block, raw-change-column, raw-address,          *)
(* raw-send-data).                                                                    *)
THEOREM LengthsArrive == Spec => []LengthsAndColumnsArrive
<1>1. ASSUME AddressInv PROVE LengthsAndColumnsArrive
  <2>0. CASE call = NoCall
    BY <2>0 DEF LengthsAndColumnsArrive, NoCall
  <2> SUFFICES ASSUME call # NoCall PROVE LengthsAndColumnsArrive
    BY <2>0
  <2> started /\ geometry = Narrow(ParseGeometry(part)) /\ part \in Parts
    BY <1>1 DEF AddressInv
  <2>f. Word \in Nat \ {0} /\ Byte \in Nat \ {0}
    BY Widths, AddressingAssumption
  <2>1. ASSUME NEW op \in Ops, NEW block \in Nat, NEW page \in Nat, NEW fill \in Int,
               Accepted(op, block, page), call = AccessCall(op, block, page, fill)
        PROVE  LengthsAndColumnsArrive
    <3>1. call.kind = "access" /\ call.op = op /\ call.data = Transfer(geometry, op)
      BY <2>1 DEF AccessCall
    <3> SUFFICES ASSUME op \in WholePage
                 PROVE  /\ Answers => LET total == part.size + part.spare
                                      IN  IF op = "program_tlc_page"
                                          THEN /\ call.data <= total
                                               /\ total < Word => call.data = total \/ 3 * call.data = total
                                          ELSE Arrives(call.data, total, Word)
                        /\ op \in TimedTransfers => call.data = geometry.size + geometry.spare
      BY <3>1 DEF LengthsAndColumnsArrive
    <3>2. call.data = Piece(op, geometry.size + geometry.spare)
      BY <3>1 DEF Transfer
    <3>3. ASSUME op \in TimedTransfers PROVE call.data = geometry.size + geometry.spare
      <4>1. geometry.size \in Nat /\ geometry.spare \in Nat
        BY <2>f, FieldWidths
      <4> DEFINE sum == geometry.size + geometry.spare
      <4>2. sum \in Nat /\ sum < Word /\ op # "program_tlc_page"
        BY <2>1, <3>3, <4>1 DEF Accepted, TimedTransfers
      <4>3. call.data = sum % Word
        BY <3>2, <4>2 DEF Piece
      <4> HIDE DEF sum
      <4>4. call.data = sum
        BY <2>f, <4>2, <4>3, Cut
      <4> QED  BY <4>4 DEF sum
    <3>4. ASSUME Answers
          PROVE  LET total == part.size + part.spare
                 IN  IF op = "program_tlc_page"
                     THEN /\ call.data <= total
                          /\ total < Word => call.data = total \/ 3 * call.data = total
                     ELSE Arrives(call.data, total, Word)
      <4> DEFINE total == part.size + part.spare
                 sum == geometry.size + geometry.spare
      <4>1. /\ part.size \in Nat /\ part.spare \in Nat
            /\ geometry.size = part.size % Word /\ geometry.spare = part.spare % Word
        BY <1>1, <3>4, StoredFields
      <4>a. sum = (part.size % Word) + (part.spare % Word)
        BY <4>1
      <4> HIDE DEF sum
      <4>2. /\ sum \in Nat /\ sum <= total /\ sum % Word <= total
            /\ total < Word => sum = total /\ sum % Word = sum
        BY <2>f, <4>1, <4>a, StoredLength
      <4>3. total \in Nat
        BY <4>1
      <4>4. call.data = Piece(op, sum)
        BY <3>2 DEF sum
      <4> HIDE DEF total
      <4>5. CASE op = "program_tlc_page" /\ sum % 3 = 0
        <5>1. call.data = sum \div 3
          BY <4>4, <4>5 DEF Piece
        <5>2. 3 * (sum \div 3) = sum /\ sum \div 3 <= sum /\ sum \div 3 \in Int
          BY <4>2, <4>5, Thirds
        <5>3. call.data <= total /\ (total < Word => 3 * call.data = total)
          BY <4>2, <4>3, <5>1, <5>2
        <5> QED  BY <4>5, <5>3 DEF total
      <4>6. CASE ~(op = "program_tlc_page" /\ sum % 3 = 0)
        <5>1. call.data = sum % Word
          BY <4>4, <4>6 DEF Piece
        <5>2. call.data <= total /\ (total < Word => call.data = total)
          BY <4>2, <5>1
        <5> QED  BY <5>2 DEF total, Arrives
      <4> QED  BY <4>5, <4>6
    <3> QED  BY <3>3, <3>4
  <2>2. ASSUME call = [kind |-> "column", marker |-> TRUE, asked |-> geometry.size,
                       bytes |-> Column(geometry.size)]
        PROVE  LengthsAndColumnsArrive
    <3>1. geometry.size \in 0..(Word - 1)
      BY FieldWidths
    <3>2. Column(geometry.size)[1] + Byte * Column(geometry.size)[2] = geometry.size
      BY <3>1, ColumnIsNumber
    <3>3. Answers => Arrives(geometry.size, part.size, Word)
      BY <1>1, <2>f, StoredFields, Cut DEF Arrives
    <3> QED  BY <2>2, <3>2, <3>3 DEF LengthsAndColumnsArrive
  <2>3. ASSUME NEW n \in 0..(Word - 1),
               call = [kind |-> "column", marker |-> FALSE, asked |-> n, bytes |-> Column(n)]
        PROVE  LengthsAndColumnsArrive
    BY <2>3, ColumnIsNumber DEF LengthsAndColumnsArrive
  <2>4. ASSUME NEW unit \in {"address", "data"}, NEW n \in Nat,
               call = [kind |-> "raw", unit |-> unit, said |-> n,
                       sent |-> n % (IF unit = "address" THEN Byte ELSE Word)]
        PROVE  LengthsAndColumnsArrive
    <3> DEFINE width == IF unit = "address" THEN Byte ELSE Word
    <3>1. width \in Nat \ {0}
      BY <2>f
    <3>2. Arrives(n % width, n, width)
      BY <3>1, Cut DEF Arrives
    <3> QED  BY <2>4, <3>2 DEF LengthsAndColumnsArrive
  <2> QED  BY <1>1, <2>1, <2>2, <2>3, <2>4 DEF AddressInv, CallOK
<1> QED  BY <1>1, AddressHolds, PTL

-----------------------------------------------------------------------------
(* The page an address names.                                              *)

LEMMA SameLayouts ==
  ASSUME NEW g, NEW h, g.column = h.column, g.row = h.row, NEW op
  PROVE  Layouts(g)[op] = Layouts(h)[op] /\ Overruns(g, op) = Overruns(h, op)
<1>1. Layouts(g) = Layouts(h)
  BY DEF Layouts, LegacyRead, LegacyProgram, LegacyPartialProgram, LegacyTlcSubpage,
         LegacyTlcPage, LegacyErase, LegacyPartialErase, TimedErase, TimedProgram, TimedRead,
         DeviceRead, DeviceProgram, DeviceTlcSubpage, DeviceTlcRead, DeviceErase, DevicePartialErase, AllCycles, Layout
<1> QED  BY <1>1 DEF Overruns, WritesPast, SendsPast

(* The page asked for is one of the package, and its number fits 32 bits.  *)
LEMMA AskedFits ==
  ASSUME NEW pages \in 1..(Word - 1), NEW all \in Nat, NEW blocks \in 0..(Word - 1), blocks <= all,
         NEW block \in 0..(blocks - 1), NEW page \in 0..(pages - 1)
  PROVE  LET asked == block * pages + page
         IN  asked \in Nat /\ asked < pages * all /\ asked % Dword = asked
<1> DEFINE asked == block * pages + page
<1>1. block \in Nat /\ page \in Nat /\ pages \in Nat /\ block + 1 <= all /\ block + 1 <= Word /\ page < pages
  BY Widths
<1>2. block * pages \in Nat
  BY <1>1
<1>3. asked \in Nat
  BY <1>1, <1>2
<1>4. asked < (block + 1) * pages /\ (block + 1) * pages \in Int
  BY <1>1, <1>2
<1>5. (block + 1) * pages <= all * pages /\ all * pages = pages * all /\ pages * all \in Int
  BY <1>1
<1>6. (block + 1) * pages <= Word * Word
  <2>1. (block + 1) * pages <= Word * pages /\ Word * pages \in Int
    BY <1>1, Widths
  <2>2. Word * pages <= Word * Word /\ Word * Word \in Int
    BY <1>1, Widths
  <2> QED  BY <1>4, <2>1, <2>2
<1> HIDE DEF asked
<1>7. asked < pages * all
  BY <1>3, <1>4, <1>5
<1>8. asked \in 0..(Dword - 1)
  BY <1>3, <1>4, <1>6, Widths DEF Dword
<1>9. asked % Dword = asked
  BY <1>8, Small, Widths
<1> QED  BY <1>3, <1>7, <1>9 DEF asked

(* The row bytes the package takes are those of the page asked for.        *)
LEMMA RowBytesSent ==
  ASSUME part \in Parts, geometry = Narrow(ParseGeometry(part)),
         NEW op \in Ops, NEW block \in Nat, NEW page \in Nat, NEW fill \in Int,
         call = AccessCall(op, block, page, fill), Serves(op),
         NEW i \in 1..part.row
  PROVE  /\ i <= Len(RowBytes(call))
         /\ RowBytes(call)[i] = ByteOf((block * geometry.pages + page) % Dword, i - 1)
<1> DEFINE l == Layouts(part)[op]
           address == Address(geometry, block, page)
           bytes == Bytes(geometry, op, address, fill)
           column == part.column
           row == part.row
<1>1. column \in 0..15 /\ row \in 0..15 /\ geometry.column = column /\ geometry.row = row
  BY Stored
<1>2. l.from \in Nat /\ l.count \in Nat /\ (op \notin Erasers => l.from = 0)
  BY <1>1, LayoutFields
<1>3. Layouts(geometry)[op] = l /\ ~Overruns(geometry, op)
  BY <1>1, SameLayouts DEF Serves
<1>4. IF op \in Erasers THEN row <= l.count /\ l.from = column ELSE column + row <= l.count
  BY DEF Serves
<1>5. call.bytes = bytes /\ call.op = op
  BY <1>3 DEF AccessCall
<1>6. /\ address = [j \in 1..(column + row) |->
                      IF j <= column THEN 0
                      ELSE ByteOf((block * geometry.pages + page) % Dword, j - column - 1)]
      /\ Len(address) = column + row
  BY <1>1 DEF Address
<1>7. i \in Nat /\ 1 <= i /\ i <= row
  BY <1>1
<1>8. address[column + i] = ByteOf((block * geometry.pages + page) % Dword, i - 1)
  <2> DEFINE number == (block * geometry.pages + page) % Dword
  <2> HIDE DEF number, column, row, address
  <2>1. address = [j \in 1..(column + row) |-> IF j <= column THEN 0 ELSE ByteOf(number, j - column - 1)]
    BY <1>6 DEF number
  <2> DEFINE k == column + i
  <2>3. k \in 1..(column + row) /\ ~(k <= column) /\ k - column - 1 = i - 1
    BY <1>1, <1>7
  <2> HIDE DEF k
  <2>4. address[k] = ByteOf(number, k - column - 1)
    BY <2>1, <2>3
  <2>5. address[column + i] = ByteOf(number, i - 1)
    BY <2>3, <2>4 DEF k
  <2> QED  BY <2>5 DEF number
<1> DEFINE rest == IF op = "partial_erase" THEN fill ELSE 0
<1>9. /\ bytes = [j \in 1..l.count |-> IF l.from + j <= Len(address) THEN address[l.from + j] ELSE rest]
      /\ Len(bytes) = l.count
  BY <1>2, <1>3 DEF Bytes
<1> HIDE DEF l, address, bytes, column, row, rest
<1>10. CASE op \in Erasers
  <2>1. RowBytes(call) = bytes
    BY <1>5, <1>10 DEF RowBytes
  <2>2. i \in 1..l.count /\ l.from + i = column + i /\ column + i <= Len(address)
    BY SMTT(30), <1>1, <1>2, <1>4, <1>6, <1>7, <1>10
  <2>3. bytes[i] = address[column + i]
    BY <1>9, <2>2
  <2> QED  BY <1>2, <1>8, <1>9, <1>7, <2>1, <2>2, <2>3
<1>11. CASE op \notin Erasers
  <2>1. RowBytes(call) = SubSeq(bytes, column + 1, l.count)
    BY <1>5, <1>9, <1>11 DEF RowBytes, column
  <2>2. column + i \in 1..l.count /\ l.from + (column + i) = column + i /\ column + i <= Len(address)
    BY <1>1, <1>2, <1>4, <1>6, <1>7, <1>11
  <2>3. bytes[column + i] = address[column + i]
    BY <1>9, <2>2
  <2> DEFINE S == {bytes[j] : j \in 1..l.count}
             first == column + 1
             last == l.count
  <2>4. first \in Int /\ last \in Int /\ first <= last /\ \A j \in first..last : bytes[j] \in S
    <3>1. \A j \in first..last : j \in 1..l.count
      BY <1>1, <1>2
    <3>2. \A j \in first..last : bytes[j] \in S
      BY <3>1
    <3>3. first \in Int /\ last \in Int /\ first <= last
      BY <1>1, <1>2, <1>7, <2>2
    <3> QED  BY <3>2, <3>3
  <2>5. /\ Len(SubSeq(bytes, column + 1, l.count)) = l.count - column
        /\ SubSeq(bytes, column + 1, l.count)[i] = bytes[column + i]
    <3>1. i \in 1..(last - first + 1) /\ last - first + 1 = l.count - column /\ first + i - 1 = column + i
      BY SMTT(30), <1>1, <1>2, <1>7, <2>2
    <3> HIDE DEF S, first, last
    <3>2. /\ Len(SubSeq(bytes, first, last)) = last - first + 1
          /\ \A j \in 1..(last - first + 1) : SubSeq(bytes, first, last)[j] = bytes[first + j - 1]
      BY <2>4, SubSeqProperties
    <3> QED  BY <3>1, <3>2 DEF first, last
  <2>6. i <= l.count - column
    BY <1>1, <1>2, <2>2, <1>7
  <2> QED  BY <1>8, <2>1, <2>3, <2>5, <2>6
<1> QED  BY <1>10, <1>11

(* The whole of a block and a page inside the geometry.                    *)
LEMMA InsideFits ==
  ASSUME AddressInv, started, Answers, NEW op \in Ops, NEW block \in Nat, NEW page \in Nat,
         op \in OfBlock => page = 0, InRange(geometry, op, block, page)
  PROVE  LET number == block * geometry.pages + page
         IN  number < part.pages * part.blocks /\ number < Dword
<1> DEFINE pages == geometry.pages
           number == block * pages + page
<1>1. /\ part.pages \in Nat \ {0} /\ part.blocks \in Nat
      /\ pages = part.pages % Word /\ geometry.blocks = part.blocks % Word
  BY StoredFields
<1>2. Word \in Nat \ {0} /\ Dword \in Nat \ {0}
  BY Widths
<1>3. /\ pages \in Nat /\ pages <= part.pages /\ pages < Word
      /\ geometry.blocks \in Nat /\ geometry.blocks <= part.blocks /\ geometry.blocks < Word
  BY <1>1, <1>2, Cut
<1>4. block \in 0..(geometry.blocks - 1) /\ (page \in 0..(pages - 1) \/ page = 0)
  BY DEF InRange
<1> HIDE DEF pages
<1>5. part.pages * part.blocks \in Nat /\ part.blocks >= 1
  BY <1>1, <1>3, <1>4
<1>6. CASE pages = 0
  <2>1. number = 0
    BY <1>4, <1>6
  <2>2. part.pages * part.blocks >= 1
    <3>1. part.pages * part.blocks >= part.pages * 1
      BY <1>1, <1>5
    <3> QED  BY <1>1, <1>5, <3>1
  <2> QED  BY <1>2, <1>5, <2>1, <2>2 DEF pages
<1>7. CASE pages # 0
  <2>1. pages \in 1..(Word - 1) /\ geometry.blocks \in 0..(Word - 1) /\ page \in 0..(pages - 1)
    BY <1>2, <1>3, <1>4, <1>7
  <2> DEFINE all == part.blocks
             blocks == geometry.blocks
  <2>a. /\ all \in Nat /\ blocks \in 0..(Word - 1) /\ blocks <= all
        /\ block \in 0..(blocks - 1)
    BY <1>1, <1>3, <1>4, <2>1
  <2> HIDE DEF all, blocks
  <2>2. number \in Nat /\ number < pages * all /\ number % Dword = number
    BY <2>1, <2>a, AskedFits
  <2>3. pages * all <= part.pages * all /\ pages * all \in Int /\ part.pages * all \in Int
    BY <1>1, <1>3, <2>a
  <2> HIDE DEF number
  <2>4. number < part.pages * part.blocks
    BY <2>2, <2>3 DEF all
  <2>5. number < Dword
    BY <1>2, <2>2, Cut
  <2> QED  BY <2>4, <2>5 DEF number, pages
<1> QED  BY <1>6, <1>7

(* ReachesTheAskedPage: whatever the function, the block and the page, and whatever   *)
(* the 16-bit fields have cut off, the address sent names the page asked for and no   *)
(* other, for every width of a byte and every package of a shape the function is      *)
(* written for (to_col_row_address and the functions that send its bytes).            *)
THEOREM AddressesReachThePage == Spec => []ReachesTheAskedPage
<1>1. ASSUME AddressInv PROVE ReachesTheAskedPage
  <2> DEFINE number == call.block * geometry.pages + call.page
             inside == number < part.pages * part.blocks
  <2> SUFFICES ASSUME call.kind = "access", Answers, Serves(call.op)
               PROVE  /\ (call.op \in Unchecked => InRange(geometry, call.op, call.block, call.page))
                           => inside
                      /\ inside /\ number < Dword => Reached(call) = {number}
                      /\ part.pages < Word => number = call.block * part.pages + call.page
    BY DEF ReachesTheAskedPage
  <2>1. PICK op \in Ops, block \in Nat, page \in Nat, fill \in Int :
          Accepted(op, block, page) /\ call = AccessCall(op, block, page, fill)
    BY <1>1 DEF AddressInv, CallOK, NoCall
  <2>2. started /\ geometry = Narrow(ParseGeometry(part)) /\ part \in Parts
    BY <1>1, <2>1 DEF AddressInv, NoCall, AccessCall
  <2>3. call.op = op /\ call.block = block /\ call.page = page
    BY <2>1 DEF AccessCall
  <2>4. /\ part.pages \in Nat \ {0} /\ part.blocks \in Nat /\ Word \in Nat \ {0}
        /\ geometry.pages = part.pages % Word /\ geometry.pages \in Nat
    BY <1>1, <2>2, StoredFields, FieldWidths, Widths
  <2>5. part.pages < Word => number = block * part.pages + page
    BY <2>3, <2>4, Cut
  <2>6. ASSUME op \in Unchecked => InRange(geometry, op, block, page) PROVE inside
    <3>1. InRange(geometry, op, block, page) /\ (op \in OfBlock => page = 0)
      BY <2>1, <2>6 DEF Accepted, Unchecked
    <3> QED  BY <1>1, <2>2, <2>3, <3>1, InsideFits
  <2>7. ASSUME inside, number < Dword PROVE Reached(call) = {number}
    <3> DEFINE row == part.row
    <3>1. number = block * geometry.pages + page /\ number \in Nat
      BY <2>3, <2>4
    <3>2. row \in 0..15 /\ Place[row] \in Nat \ {0} /\ part.pages * part.blocks <= Place[row]
      BY <2>2, Stored, Places DEF Answers
    <3>3. part.pages * part.blocks \in Int
      BY <2>4
    <3>4. number % Dword = number
      BY <2>7, <3>1, Cut, Widths
    <3>5. \A i \in 1..row : i <= Len(RowBytes(call)) /\ RowBytes(call)[i] = ByteOf(number, i - 1)
      <4> SUFFICES ASSUME NEW i \in 1..row
                   PROVE  i <= Len(RowBytes(call)) /\ RowBytes(call)[i] = ByteOf(number, i - 1)
        OBVIOUS
      <4>1. Serves(op)
        BY <2>3
      <4>2. /\ i <= Len(RowBytes(call))
            /\ RowBytes(call)[i] = ByteOf((block * geometry.pages + page) % Dword, i - 1)
        BY <2>1, <2>2, <4>1, RowBytesSent
      <4> QED  BY <3>1, <3>4, <4>2
    <3> HIDE DEF number, row
    <3>6. number \in 0..(Place[row] - 1)
      BY <2>7, <3>1, <3>2, <3>3
    <3>7. Reached(call) = {m \in 0..(Place[row] - 1) :
                             \A i \in 1..row : ByteOf(number, i - 1) = ByteOf(m, i - 1)}
      BY <3>5 DEF Reached, row
    <3>8. ASSUME NEW m \in 0..(Place[row] - 1),
                 \A i \in 1..row : ByteOf(number, i - 1) = ByteOf(m, i - 1)
          PROVE  m = number
      <4>1. SameBytes(number, m, row)
        <5> SUFFICES ASSUME NEW j \in 0..(row - 1) PROVE ByteOf(number, j) = ByteOf(m, j)
          BY DEF SameBytes
        <5>1. j + 1 \in 1..row /\ (j + 1) - 1 = j
          BY <3>2
        <5> QED  BY <3>8, <5>1
      <4> QED  BY <3>2, <3>6, <4>1, BytesName DEF BytesTell
    <3> QED  BY <3>6, <3>7, <3>8
  <2> QED  BY <2>3, <2>5, <2>6, <2>7
<1> QED  BY <1>1, AddressHolds, PTL
=============================================================================
