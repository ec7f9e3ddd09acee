----------------------------- MODULE MCNandBus ------------------------------
(***************************************************************************)
(* NandBus on small instances: two bytes beside 0x00, calls of up to       *)
(* MaxBytes bytes.                                                         *)
(***************************************************************************)
EXTENDS NandBus

CONSTANTS x00, xAA

TwoBytes == {x00, xAA}
=============================================================================
