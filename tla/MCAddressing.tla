---------------------------- MODULE MCAddressing ----------------------------
(***************************************************************************)
(* Bytes of four values, so that a word has 16 and a double word 256.  The *)
(* packages: the usual shape (two column and three row bytes), one whose   *)
(* page, blocks or spare area overflow a word, one to four row bytes, one  *)
(* column byte, a page size of more than one byte, and an empty socket     *)
(* that reads as ones or as zeros.                                         *)
(***************************************************************************)
EXTENDS Addressing

Part(size, spare, pages, blocks, column, row) ==
  [size |-> size, spare |-> spare, pages |-> pages, blocks |-> blocks,
   column |-> column, row |-> row]

MCParts ==
  { Part(8, 2, 4, 5, 2, 3),
    Part(6, 3, 3, 15, 2, 3),
    Part(8, 2, 3, 18, 2, 3),
    Part(16, 2, 4, 4, 2, 3),
    Part(12, 9, 2, 2, 2, 3),
    Part(8, 1, 2, 2, 2, 1),
    Part(8, 1, 5, 3, 2, 2),
    Part(8, 2, 5, 14, 2, 4),
    Part(3, 1, 3, 4, 1, 3),
    Part(8, 1, 4, 4, 4, 4),
    Part(8, 2, 18, 3, 2, 3),
    Part(8, 2, 16, 3, 2, 3),
    Part(255, 15, 255, 255, 15, 15),
    Part(0, 0, 0, 0, 0, 0) }

MCFallback == [size |-> 7, spare |-> 1, pages |-> 2, blocks |-> 2]
=============================================================================
