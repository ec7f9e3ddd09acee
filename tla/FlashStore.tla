----------------------------- MODULE FlashStore -----------------------------
(***************************************************************************)
(* What a user of the driver is promised about the flash array: it changes *)
(* only through a write somebody asked for, a write takes place at most    *)
(* once, in one step, on the page or block it names, and success is only   *)
(* reported for a write that took place.  A write whose caller was told    *)
(* nothing, or an error, may or may not take place, even after the caller  *)
(* is gone.                                                                *)
(***************************************************************************)
CONSTANTS Blocks, Pages, Data

VARIABLES
  array,      \* contents of each page
  asked,      \* the write the last call asked for, {} if it was no write
  pending,    \* the write that may still take place (at most one)
  took,       \* the write asked for took place completely
  reply       \* what the last call was told

storeVars == <<array, asked, pending, took, reply>>

Row     == Blocks \X Pages
Request == [job : {"erase", "program"}, row : Row, data : Data \cup {"none"}]

Cells(w) == IF w.job = "erase" THEN {r \in Row : r[1] = w.row[1]} ELSE {w.row}

Done(w) == [r \in Row |->
  IF r \notin Cells(w) THEN array[r]
  ELSE IF w.job = "erase" THEN "erased"
  ELSE IF array[r] \in {"erased", w.data} THEN w.data ELSE "corrupt"]

Spoilt(w) == [r \in Row |-> IF r \in Cells(w) THEN "corrupt" ELSE array[r]]

Init ==
  /\ array \in [Row -> Data \cup {"erased"}]
  /\ asked = {} /\ pending = {} /\ took = FALSE /\ reply = "none"

(* A call begins; a write call leaves its request pending. *)
Ask ==
  /\ \/ asked' = {} /\ UNCHANGED pending
     \/ \E w \in Request : pending = {} /\ asked' = {w} /\ pending' = {w}
  /\ took' = FALSE /\ reply' = "pending"
  /\ UNCHANGED array

(* The pending write reaches the cells, completely or not. *)
Apply ==
  \E w \in pending :
    /\ \/ array' = Done(w) /\ took' = (asked = {w})
       \/ array' = Spoilt(w) /\ UNCHANGED took
    /\ pending' = {}
    /\ UNCHANGED <<asked, reply>>

(* The call ends; what has not reached the cells may be given up. *)
Answer ==
  /\ reply' \in {"success", "failure", "none", "thrown"}
  /\ reply' = "success" => asked = {} \/ took
  /\ pending' \in {pending, {}}
  /\ UNCHANGED <<array, asked, took>>

Next == Ask \/ Apply \/ Answer

Spec == Init /\ [][Next]_storeVars
=============================================================================
