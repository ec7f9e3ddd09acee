----------------------------- MODULE NandTarget -----------------------------
(***************************************************************************)
(* The NAND package on the other end of the bus, as far as the driver in   *)
(* src/ can tell: one target (CE#), one operation at a time, an R/B# line, *)
(* a status register, an address register and a page register.             *)
(*                                                                         *)
(* The package is not code of the repository.  Its behaviour is taken from *)
(* how src/ uses it (which commands it sends, what it expects of R/B#, of  *)
(* WP# and of the status byte).                                            *)
(***************************************************************************)
CONSTANTS
  Blocks,     \* erase blocks
  Pages,      \* pages of a block
  Data,       \* page contents a host may program
  LateBusy    \* operations whose R/B# falls only after the host's next look
              \* at the line (tWB longer than that look)

Row     == Blocks \X Pages
Content == Data \cup {"erased", "corrupt"}
Writes  == {"erase", "program"}
Jobs    == Writes \cup {"read", "reset", "identify", "feature", "refused"}

ASSUME TargetAssumption ==
  /\ Blocks # {} /\ Pages # {}
  /\ {"erased", "corrupt"} \cap Data = {}
  /\ LateBusy \subseteq Jobs

VARIABLES
  array,      \* what the cells of each page hold
  activity,   \* the job under way, "none" when the target is idle
  rb,         \* R/B#: TRUE is high, ready
  srFail,     \* FAIL bit (0x01) of the status register
  setup,      \* the job the last setup command announced
  addr,       \* address register
  reg,        \* page register
  out         \* what a data-output cycle would return

targetVars == <<array, activity, rb, srFail, setup, addr, reg, out>>

TargetTypeOK ==
  /\ array \in [Row -> Content]
  /\ activity \in Jobs \cup {"none"}
  /\ rb \in BOOLEAN
  /\ srFail \in BOOLEAN
  /\ setup \in Writes \cup {"read", "none"}
  /\ addr \in Row
  /\ reg \in Content
  /\ out \in {"none", "status", "id", "page"}

TargetInit ==
  /\ array \in [Row -> Data \cup {"erased"}]
  /\ activity = "none" /\ rb = TRUE /\ srFail = FALSE
  /\ setup = "none" /\ addr \in Row /\ reg = "erased" /\ out = "none"

Idle == activity = "none"

-----------------------------------------------------------------------------
(* Bus cycles the host drives.  While a job runs the target ignores every  *)
(* command but READ STATUS and RESET.                                      *)

Begin(job) ==
  /\ activity' = job
  /\ rb' = (job \in LateBusy)

CmdSetup(job) ==                                       \* 0x60, 0x80, 0x00
  \/ Idle /\ setup' = job
          /\ out' = (IF job = "read" THEN "page" ELSE "none")
          /\ UNCHANGED <<array, activity, rb, srFail, addr, reg>>
  \/ ~Idle /\ UNCHANGED targetVars

LatchRow(row) ==                               \* address cycles of a setup
  \/ Idle /\ addr' = row /\ UNCHANGED <<array, activity, rb, srFail, setup, reg, out>>
  \/ ~Idle /\ UNCHANGED targetVars

LatchRowAndData(row, data) ==            \* address and data-input cycles
  \/ Idle /\ addr' = row /\ reg' = data
          /\ UNCHANGED <<array, activity, rb, srFail, setup, out>>
  \/ ~Idle /\ UNCHANGED targetVars

(* 0xD0, 0x10, 0x30.  With WP# low a write is refused: R/B# may pulse, the *)
(* cells keep what they hold and FAIL stays clear.                         *)
CmdConfirm(job, wp) ==
  \/ /\ Idle /\ setup = job
     /\ IF job \in Writes /\ wp = 0
        THEN \/ Begin("refused")
             \/ activity' = "none" /\ rb' = TRUE
        ELSE Begin(job)
     /\ srFail' = (srFail /\ (job \notin Writes \/ wp = 1))
     /\ setup' = "none"
     /\ UNCHANGED <<array, addr, reg, out>>
  \/ /\ ~(Idle /\ setup = job)
     /\ UNCHANGED targetVars

CmdStatus ==                                                        \* 0x70
  /\ out' = "status"
  /\ UNCHANGED <<array, activity, rb, srFail, setup, addr, reg>>

(* The pages a write under way will have touched. *)
Touched == CASE activity = "erase"   -> {r \in Row : r[1] = addr[1]}
             [] activity = "program" -> {addr}
             [] OTHER                -> {}

Damaged == [r \in Row |-> IF r \in Touched THEN "corrupt" ELSE array[r]]

CmdReset ==                                     \* 0xFF aborts what is under way
  /\ array' = Damaged
  /\ Begin("reset")
  /\ setup' = "none" /\ out' = "none"
  /\ UNCHANGED <<srFail, addr, reg>>

(* READ ID, UNIQUE ID and PARAMETER PAGE ("identify"), SET FEATURES.       *)
CmdQuery(job) ==
  \/ Idle /\ Begin(job) /\ setup' = "none"
          /\ out' = (IF job = "identify" THEN "id" ELSE out)
          /\ UNCHANGED <<array, srFail, addr, reg>>
  \/ ~Idle /\ UNCHANGED targetVars

-----------------------------------------------------------------------------
(* What the target does on its own. *)

RbFalls ==
  /\ ~Idle /\ rb
  /\ rb' = FALSE
  /\ UNCHANGED <<array, activity, srFail, setup, addr, reg, out>>

(* Programming only clears bits: a page that is not erased ends up with a  *)
(* mixture unless it already held the same data.                           *)
Written == [r \in Row |->
  IF r \notin Touched THEN array[r]
  ELSE IF activity = "erase" THEN "erased"
  ELSE IF array[r] \in {"erased", reg} THEN reg ELSE "corrupt"]

Completes(pass) ==
  /\ ~Idle /\ ~rb
  /\ pass \/ activity \in Writes
  /\ rb' = TRUE /\ activity' = "none"
  /\ array' = IF pass THEN Written ELSE Damaged
  /\ srFail' = CASE activity \in Writes             -> ~pass
                 [] activity \in {"reset", "read"}  -> FALSE
                 [] OTHER                           -> srFail
  /\ reg' = IF activity = "read" THEN array[addr] ELSE reg
  /\ UNCHANGED <<setup, addr, out>>
=============================================================================
