----------------------------- MODULE Addressing -----------------------------
(***************************************************************************)
(* From the parameter page to the bytes on the bus: read_parameters stores *)
(* the geometry of the package in 16-bit fields, to_col_row_address turns  *)
(* a block and a page into address bytes, and each of the functions that   *)
(* address the array sends a part of them: some as many as the geometry    *)
(* says, some always five, some always three.  The package (external)      *)
(* takes the bytes it needs.                                               *)
(*                                                                         *)
(* A byte has Byte values here instead of 256, and the other widths follow *)
(* from it; the number of bytes of an address and of a buffer is the real  *)
(* one.                                                                    *)
(***************************************************************************)
EXTENDS Integers, Sequences

CONSTANTS
  Byte,       \* the number of values of a byte
  Parts,      \* the packages: what their parameter pages say
  Fallback,   \* the sizes taken for a field that is all zeros or all ones
  Beyond,     \* bound: how far past the geometry a function that checks nothing is called
  MaxTokens   \* bound: values given to a raw command

Word  == Byte * Byte
Dword == Word * Word

\* The fields of a parameter page: 32, 16, and for the cycles 4 bits.
ParameterPage ==
  [size : 0..(Dword - 1), spare : 0..(Word - 1), pages : 0..(Dword - 1), blocks : 0..(Dword - 1),
   column : 0..15, row : 0..15]

ASSUME AddressingAssumption ==
  /\ Byte \in Nat \ {0, 1}
  /\ Beyond \in Nat /\ MaxTokens \in Nat
  /\ Parts \subseteq ParameterPage
  /\ Fallback \in [size : 0..(Dword - 1), spare : 0..(Word - 1),
                   pages : 0..(Dword - 1), blocks : 0..(Dword - 1)]

VARIABLES
  part,      \* the package in the socket
  geometry,  \* the num_... fields of onfi_interface
  started,   \* get_started has returned: the parameter page has been read
  call,      \* the last thing sent to the package
  undefined  \* an address was written or read past its buffer

vars == <<part, geometry, started, call, undefined>>

NoCall == [kind |-> "none"]

-----------------------------------------------------------------------------
(* The parameter page.                                                     *)

Parse(v, ones, default) == IF v \in {0, ones} THEN default ELSE v

ParseGeometry(p) ==
  [ size   |-> Parse(p.size, Dword - 1, Fallback.size),
    spare  |-> Parse(p.spare, Word - 1, Fallback.spare),
    pages  |-> Parse(p.pages, Dword - 1, Fallback.pages),
    blocks |-> Parse(p.blocks, Dword - 1, Fallback.blocks),
    column |-> p.column,
    row    |-> p.row ]

Narrow(g) ==
  [g EXCEPT !.size = @ % Word, !.spare = @ % Word, !.pages = @ % Word, !.blocks = @ % Word]

read_parameters ==
  /\ geometry' = Narrow(ParseGeometry(part))
  /\ started' = TRUE
  /\ call' = NoCall
  /\ UNCHANGED <<part, undefined>>

-----------------------------------------------------------------------------
(* Addresses.                                                              *)

\* What byte i (from 0) of a number stands for, least significant first: one shift by
\* eight bits more than the byte before it.
Place[i \in 0..15] == IF i = 0 THEN 1 ELSE Byte * Place[i - 1]
ByteOf(n, i) == (n \div Place[i]) % Byte

(* Mutant: the row bytes leave most significant first.                     *)
AddressMsb(g, block, page) ==
  [i \in 1..(g.column + g.row) |->
     IF i <= g.column THEN 0
     ELSE ByteOf((block * g.pages + page) % Dword, g.column + g.row - i)]

\* to_col_row_address: zeros for the column, then the page number over the
\* whole device, computed in 32 bits.
Address(g, block, page) ==
  [i \in 1..(g.column + g.row) |->
     IF i <= g.column THEN 0
     ELSE ByteOf((block * g.pages + page) % Dword, i - g.column - 1)]

Layout(room, from, count) == [room |-> room, from |-> from, count |-> count]

\* For each function that addresses the array: the length of the buffer it gives
\* to to_col_row_address, the first byte it sends and how many it sends.
AllCycles(g) == Layout(8, 0, g.column + g.row)

LegacyRead(g)           == AllCycles(g)
LegacyProgram(g)        == Layout(8, 0, 5)
LegacyPartialProgram(g) == Layout(5, 0, 5)
LegacyTlcSubpage(g)     == Layout(5, 0, 5)
LegacyTlcPage(g)        == Layout(5, 0, 5)
LegacyErase(g)          == Layout(8, 2, 3)
(* Mutant: the row starts at the fourth byte.                              *)
LegacyPartialEraseFar(g) == Layout(5, 3, 3)
LegacyPartialErase(g)   == Layout(5, 2, 3)
TimedErase(g)           == Layout(8, g.column, g.row)
TimedProgram(g)         == AllCycles(g)
TimedRead(g)            == AllCycles(g)
DeviceRead(g)           == AllCycles(g)
DeviceProgram(g)        == Layout(8, 0, 5)
DeviceTlcSubpage(g)     == Layout(8, 0, 5)
DeviceTlcRead(g)        == AllCycles(g)
DeviceErase(g)          == Layout(8, g.column, 3)
DevicePartialErase(g)   == Layout(8, g.column, 3)

\* The functions above by name.
Layouts(g) ==
  [ read |-> LegacyRead(g), program |-> LegacyProgram(g),
    partial_program |-> LegacyPartialProgram(g),
    program_tlc_subpage |-> LegacyTlcSubpage(g), program_tlc_page |-> LegacyTlcPage(g),
    erase |-> LegacyErase(g), partial_erase |-> LegacyPartialErase(g),
    timed_erase |-> TimedErase(g), timed_program |-> TimedProgram(g), timed_read |-> TimedRead(g),
    device_read |-> DeviceRead(g), device_program |-> DeviceProgram(g),
    device_program_tlc |-> DeviceTlcSubpage(g), device_read_tlc |-> DeviceTlcRead(g),
    device_erase |-> DeviceErase(g), device_partial_erase |-> DevicePartialErase(g) ]

Ops == DOMAIN Layouts([column |-> 2, row |-> 3])
Erasers == {"erase", "partial_erase", "timed_erase", "device_erase", "device_partial_erase"}
OfBlock == {"erase", "timed_erase", "device_erase"}
TimedTransfers == {"timed_program", "timed_read"}
WholePage == {"program", "partial_program", "program_tlc_subpage", "program_tlc_page",
              "device_read", "device_program", "device_program_tlc", "device_read_tlc"}
             \cup TimedTransfers

\* Who looks at the block and the page: the timed functions, and the commands that use
\* NandDevice. The functions of onfi_interface, and those of NandDevice that no command
\* uses, take what they are given.
Checked == {"timed_erase", "device_read", "device_program", "device_erase"} \cup TimedTransfers
Unchecked == Ops \ Checked

\* to_col_row_address fills all cycles of the geometry, whatever the buffer; then
\* send_addresses takes as many bytes as it is told.
WritesPast(g, op) == g.column + g.row > Layouts(g)[op].room
SendsPast(g, op)  == Layouts(g)[op].from + Layouts(g)[op].count > Layouts(g)[op].room
Overruns(g, op)   == WritesPast(g, op) \/ SendsPast(g, op)

\* The buffers start as zeros, but for partial_erase_block's, which starts as
\* anything.
Bytes(g, op, address, fill) ==
  LET l == Layouts(g)[op]
      rest == IF op = "partial_erase" THEN fill ELSE 0
  IN  [i \in 1..l.count |->
         IF l.from + i <= Len(address) THEN address[l.from + i] ELSE rest]

\* The bytes of data that follow the address: a page with its spare area, cut to 16 bits;
\* program_page_tlc_toshiba gives each of its three subpages a third if it can.
Piece(op, total) == IF op = "program_tlc_page" /\ total % 3 = 0 THEN total \div 3 ELSE total % Word

(* Mutant: the spare area is left out of the length.                       *)
TransferMain(g, op) == IF op \in WholePage THEN Piece(op, g.size) ELSE 0
Transfer(g, op) == IF op \in WholePage THEN Piece(op, g.size + g.spare) ELSE 0

\* ensure_block_in_range, ensure_page_in_range and their like.
InRange(g, op, block, page) ==
  block \in 0..(g.blocks - 1) /\ (op \notin OfBlock => page \in 0..(g.pages - 1))

\* The timed functions throw for a length that does not fit 16 bits.
Access(op, block, page) ==
  /\ op \in Checked => InRange(geometry, op, block, page)
  /\ op \in TimedTransfers => geometry.size + geometry.spare < Word
  /\ op \in OfBlock => page = 0
  /\ \E fill \in 0..(Byte - 1) :
       call' = [ kind |-> "access", op |-> op, block |-> block, page |-> page,
                 bytes |-> IF Overruns(geometry, op) THEN <<>>
                           ELSE Bytes(geometry, op, Address(geometry, block, page), fill),
                 data |-> Transfer(geometry, op) ]
  /\ undefined' = Overruns(geometry, op)
  /\ UNCHANGED <<part, geometry, started>>

\* The two bytes of a column.
Column(n) == <<ByteOf(n, 0), ByteOf(n, 1)>>

\* is_bad_block, as scan-bad-blocks uses it: the first byte of the spare area of the
\* block's first page.
MarkerColumn(block) ==
  /\ block \in 0..(geometry.blocks - 1)
  /\ ~Overruns(geometry, "read")
  /\ call' = [kind |-> "column", marker |-> TRUE, asked |-> geometry.size,
              bytes |-> Column(geometry.size)]
  /\ UNCHANGED <<part, geometry, started, undefined>>

RawChangeColumn(n) ==
  /\ n \in 0..(Word - 1)
  /\ call' = [kind |-> "column", marker |-> FALSE, asked |-> n, bytes |-> Column(n)]
  /\ UNCHANGED <<part, geometry, started, undefined>>

\* raw-address and raw-send-data say how many values they were given and pass
\* the number on as a byte and as a word.
RawSend(unit, n) ==
  /\ n > 0
  /\ call' = [kind |-> "raw", unit |-> unit, said |-> n,
              sent |-> n % (IF unit = "address" THEN Byte ELSE Word)]
  /\ UNCHANGED <<part, geometry, started, undefined>>

\* Commands run one at a time.
Return == call # NoCall /\ call' = NoCall /\ UNCHANGED <<part, geometry, started, undefined>>

-----------------------------------------------------------------------------
\* Before the start-up every field is zero and no command is accepted.
Init ==
  /\ part \in Parts
  /\ geometry = [size |-> 0, spare |-> 0, pages |-> 0, blocks |-> 0, column |-> 0, row |-> 0]
  /\ started = FALSE
  /\ call = NoCall
  /\ undefined = FALSE

Next ==
  /\ ~undefined
  /\ \/ call = NoCall /\ read_parameters
     \/ Return
     \/ /\ started /\ call = NoCall
        /\ \/ \E op \in Ops, block \in 0..(geometry.blocks - 1 + Beyond),
                 page \in 0..(geometry.pages - 1 + Beyond) : Access(op, block, page)
           \/ \E block \in 0..(geometry.blocks - 1) : MarkerColumn(block)
           \/ \E n \in 0..(Word - 1) : RawChangeColumn(n)
           \/ \E unit \in {"address", "data"}, n \in 1..MaxTokens : RawSend(unit, n)

Spec == Init /\ [][Next]_vars

-----------------------------------------------------------------------------
(* The package (external): it takes as many column and row bytes as its    *)
(* parameter page says, ignores bytes beyond them, and a row byte it was   *)
(* not given may be anything.                                              *)

RowBytes(c) ==
  IF c.op \in Erasers THEN c.bytes
  ELSE SubSeq(c.bytes, part.column + 1, Len(c.bytes))

Reached(c) ==
  {row \in 0..(Place[part.row] - 1) :
     \A i \in 1..part.row : i <= Len(RowBytes(c)) => RowBytes(c)[i] = ByteOf(row, i - 1)}

\* A parameter page that says something and whose cycles can name every page.
Answers == /\ part.size \notin {0, Dword - 1} /\ part.spare \notin {0, Word - 1}
           /\ part.pages \notin {0, Dword - 1} /\ part.blocks \notin {0, Dword - 1}
           /\ part.pages * part.blocks <= Place[part.row]

\* The address shapes a function is written for: three row bytes, five bytes
\* in all, the buffer's length; two columns where the row starts at byte 2.
Serves(op) ==
  LET l == Layouts(part)[op]
  IN  /\ ~Overruns(part, op)
      /\ IF op \in Erasers THEN part.row <= l.count /\ l.from = part.column
         ELSE part.column + part.row <= l.count

\* Whatever the function, and whatever the 16-bit fields have cut off: a block and a
\* page that the bounds checks accept (or that the caller of a function without them
\* keeps inside the geometry) are one page of the package, and the address sent names
\* that page and no other, for every package of a shape the function is written for; it
\* is the page asked for unless the number of pages of a block has been cut. A page
\* behind the end of its block is a page of a later block, as far as the package goes.
ReachesTheAskedPage ==
  (call.kind = "access" /\ Answers /\ Serves(call.op)) =>
     LET number == call.block * geometry.pages + call.page
         inside == number < part.pages * part.blocks
     IN  /\ (call.op \in Unchecked => InRange(geometry, call.op, call.block, call.page)) => inside
         /\ inside /\ number < Dword => Reached(call) = {number}
         /\ part.pages < Word => number = call.block * part.pages + call.page

\* What is moved of a length that was asked for: a width it is passed on in may cut it,
\* but never add to it.
Arrives(moved, asked, width) == moved <= asked /\ (asked < width => moved = asked)

\* What goes with an address arrives. A whole-page transfer moves the page and its
\* spare area (program_page_tlc_toshiba in three pieces), for every package whose page
\* with its spare area has a length of 16 bits, and never more than that; the timed
\* functions move the page of the geometry or nothing. The column the package takes is
\* the one asked for, and the bad-block check reads the first spare byte of every package
\* whose page has a length of 16 bits. A raw command sends every byte it is given, as
\* long as their number fits the width it is passed on in, and never reads behind them.
LengthsAndColumnsArrive ==
  /\ call.kind = "access" /\ call.op \in WholePage =>
       /\ Answers => LET total == part.size + part.spare
                     IN  IF call.op = "program_tlc_page"
                         THEN /\ call.data <= total
                              /\ total < Word => call.data = total \/ 3 * call.data = total
                         ELSE Arrives(call.data, total, Word)
       /\ call.op \in TimedTransfers => call.data = geometry.size + geometry.spare
  /\ call.kind = "column" =>
       LET column == call.bytes[1] + Byte * call.bytes[2]
       IN  IF call.marker THEN Answers => Arrives(column, part.size, Word)
           ELSE column = call.asked
  /\ call.kind = "raw" =>
       Arrives(call.sent, call.said, IF call.unit = "address" THEN Byte ELSE Word)

\* include/onfi/address.hpp:10: "out must point to a buffer large enough to hold
\* (column_cycles+row_cycles) bytes", which holds in every function for every
\* package with up to five address cycles, two of them for the column.
ShortAddressesFit == undefined => geometry.column + geometry.row > 5
=============================================================================
