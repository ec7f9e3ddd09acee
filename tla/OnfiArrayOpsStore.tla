------------------------- MODULE OnfiArrayOpsStore --------------------------
(***************************************************************************)
(* OnfiArrayOps keeps the promise of FlashStore.  The write a call asks    *)
(* for is pending from the start of the call until the confirm command     *)
(* hands it to the target, and then for as long as the target works on it, *)
(* with or without the caller.                                             *)
(***************************************************************************)
EXTENDS OnfiArrayOps

Asked == IF JobOf(call) \in Writes
         THEN {Write(JobOf(call), call.row, call.data)} ELSE {}

BeforeConfirm ==
  \E i \in at .. Len(Phases(call)) : at # 0 /\ Phases(call)[i] = "confirm"

Pending == IF activity \in Writes THEN {Write(activity, addr, reg)}
           ELSE IF BeforeConfirm THEN Asked ELSE {}

(* A write under way is the one its call asked for and confirmed, or was   *)
(* left behind by a process that ended.                                    *)
OneWriteAtATime == activity \in Writes =>
  Asked = {} \/ (~BeforeConfirm /\ Asked = {Write(activity, addr, reg)})

Store == INSTANCE FlashStore WITH
           asked   <- Asked,
           pending <- Pending,
           took    <- Asked # {} /\ Asked \subseteq applied,
           reply   <- verdict

(* The array changes only by the writes that were asked for, each at most  *)
(* once, on the cells it names, whatever the process and the target do in  *)
(* between, and no call is told of success before its write took place.    *)
KeepsStorePromise == Store!Spec
=============================================================================
