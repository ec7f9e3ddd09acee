------------------------------- MODULE BlockOps -------------------------------
(* The commands that work on whole pages and blocks (onfi_commands.cpp) through
   NandDevice (src/src/onfi/device.cpp): what they do to the array one page at a
   time, which of the package's answers they look at, and what they tell the
   user. A command is planned as the sequence of its steps; between two steps the
   process may be killed. The wait and the status of one operation are the
   subject of OnfiArrayOps: here a step is over when it returns.

   A page has a byte of main area and a byte of spare area, and a byte is 0
   (0x00), 2 (0xFF, erased) or 1, some value between: programming only clears
   bits, so the least of old and new is what is stored. *)
EXTENDS Integers, Sequences, SequencesExt, FiniteSetsExt

CONSTANTS
  NumBlocks, NumPages,   \* geometry: blocks of the chip, pages of a block
  Arrays,                \* contents of the array to start from
  Commands,              \* the commands users and scripts may give
  MaxCommands            \* bound on the commands of one behaviour

Blocks == 0..(NumBlocks - 1)
Pages == 0..(NumPages - 1)
Bytes == 0..2
Cells == [1..2 -> Bytes]
Erased == <<2, 2>>

VARIABLES
  cells,    \* the array: block -> page -> <<main byte, spare byte>>
  fail,     \* SR[0] of the last operation
  protected, \* WP# is low, as a function that drives it has left it
  cmd,      \* the command running or last run, {} before the first
  todo,     \* its steps still to do
  data,     \* its buffer: the bytes it programs
  ok,       \* no verification has failed, no bad block been seen
  out,      \* the bytes it has written to its output
  exit,     \* "running", "0", "1", "2", "error" (an exception), "crash", "killed"
  before,   \* history: the array when it started
  failed,   \* history: blocks and pages on which an operation of it failed
  issued    \* history: number of commands so far

vars == <<cells, fail, protected, cmd, todo, data, ok, out, exit, before, failed, issued>>

-----------------------------------------------------------------------------
(* Arguments. pages is the list of --pages, All without it; input is the
   contents of --input, None without it, Unreadable when read_file cannot open it;
   file is the file of --output: "none" without it, "good", or "bad" when it cannot
   be written. *)
All == <<-1>>
None == <<-1>>
Unreadable == <<-2>>

Total(c) == IF c.spare THEN 2 ELSE 1
PagesOf(c) == IF c.pages = All THEN [i \in 1..NumPages |-> i - 1] ELSE c.pages
EraseCount(c) == Min({c.count, NumBlocks - c.start})

PageCommands == {"program-page", "verify-page", "read-page"}
Operations == PageCommands \cup {"program-block", "verify-block", "read-block",
                                 "erase-block", "erase-chip", "scan", "scan-all"}

(* What the handlers read off the command line: --page is one number, program-page
   requires --input. *)
Given(c) ==
  /\ c \in [op : Operations, block : Int, pages : Seq(Nat) \cup {All}, spare : BOOLEAN,
            input : Seq(Bytes) \cup {None, Unreadable}, pad : BOOLEAN, verify : BOOLEAN,
            random : BOOLEAN, start : Int, count : Int, file : {"none", "good", "bad"}]
  /\ c.op \in PageCommands => c.pages # All /\ Len(c.pages) = 1
  /\ c.op = "program-page" => c.input # None

ASSUME BlockAssumption ==
  /\ NumBlocks \in Nat /\ NumPages \in Nat \ {0}
  /\ Arrays \subseteq [Blocks -> [Pages -> Cells]]
  /\ \A c \in Commands : Given(c)

Programs(c) == c.op \in {"program-page", "program-block"}
Verifies(c) == c.op \in {"verify-page", "verify-block"}
Reads(c) == c.op \in {"read-page", "read-block"}

(* the checks of a handler before it touches the device *)
Refused(c) ==
  IF c.op = "erase-chip" THEN c.start \notin Blocks \/ c.count <= 0
  ELSE \/ c.op # "scan-all" /\ c.block \notin Blocks
       \/ c.pages # All /\ (c.pages = <<>> \/ ~(ToSet(c.pages) \subseteq Pages))
       \/ c.op = "program-block" /\ c.verify /\ c.random
       \/ c.input = Unreadable /\ (Programs(c) \/ Verifies(c))
       \/ /\ c.input # None /\ Programs(c)
          /\ Len(c.input) > Total(c) \/ (Len(c.input) < Total(c) /\ ~c.pad)
       \/ c.input # None /\ Verifies(c) /\ Len(c.input) # Total(c)

Padded(c) == [i \in 1..Total(c) |-> IF i <= Len(c.input) THEN c.input[i] ELSE 2]

(* program_block: the pattern, or random bytes other than 0xFF; the first spare
   byte stays 0xFF *)
Buffers(c) ==
  IF c.op = "program-page" \/ c.input # None THEN {Padded(c)}
  ELSE {[i \in 1..Total(c) |-> IF i = 1 THEN v ELSE 2] : v \in IF c.random THEN {0, 1} ELSE {0}}

(* Mutant: the pattern of verify_program_block is that of an erased page *)
ExpectedErased(c) ==
  CASE c.input = None                  -> [i \in 1..Total(c) |-> 2]
    [] c.input # None /\ Verifies(c)   -> c.input
    [] OTHER                           -> Padded(c)

(* what verify_program_page and verify_program_block compare with *)
Expected(c) ==
  CASE c.input = None                  -> [i \in 1..Total(c) |-> 0]
    [] c.input # None /\ Verifies(c)   -> c.input
    [] OTHER                           -> Padded(c)

-----------------------------------------------------------------------------
(* The steps of each command *)
Step(do, block, page) == [do |-> do, block |-> block, page |-> page]
OnPages(do, c, pages) == [i \in DOMAIN pages |-> Step(do, c.block, pages[i])]
Status == <<Step("status", 0, 0)>>

ChipSteps(c, count) ==
  [i \in 1..2*count |-> IF i % 2 = 1 THEN Step("erase", c.start + (i \div 2), 0) ELSE Status[1]]

(* Mutant: offset <= count *)
EraseChipPlanLong(c) == ChipSteps(c, Min({EraseCount(c) + 1, NumBlocks - c.start}))
EraseChipPlan(c) == ChipSteps(c, EraseCount(c))

(* std::sort: the list in ascending order *)
Sorted(pages) ==
  {s \in {[i \in DOMAIN pages |-> pages[place[i]]] :
            place \in Bijection(DOMAIN pages, DOMAIN pages)} :
     \A i, j \in DOMAIN s : i < j => s[i] <= s[j]}

Compares(c, pages) == IF c.verify THEN OnPages("verify", c, pages) ELSE <<>>

(* Mutant: the pages after the first are not verified *)
ProgramPlansOnce(c) ==
  {OnPages("program", c, s) \o Status \o Compares(c, SubSeq(PagesOf(c), 1, 1)) :
     s \in Sorted(PagesOf(c))}

(* program_block sorts the list, verify_program_block does not *)
ProgramPlans(c) ==
  {OnPages("program", c, s) \o Status \o Compares(c, PagesOf(c)) : s \in Sorted(PagesOf(c))}

(* Mutant: read_block sorts the list, as program_block does *)
ReadPlanSorted(c) == OnPages("read", c, SortSeq(PagesOf(c), <))
ReadPlan(c) == OnPages("read", c, PagesOf(c))

EraseBlockPlan(c) == <<Step("erase", c.block, 0)>> \o Status
VerifyPlan(c) == OnPages("verify", c, PagesOf(c))
ScanOnePlan(c) == <<Step("mark", c.block, 0)>>
ScanAllPlan == [b \in 1..NumBlocks |-> Step("mark", b - 1, 0)]

Plans(c) ==
  CASE c.op = "erase-block" -> {EraseBlockPlan(c)}
    [] c.op = "erase-chip"  -> {EraseChipPlan(c)}
    [] c.op = "scan"        -> {ScanOnePlan(c)}
    [] c.op = "scan-all"    -> {ScanAllPlan}
    [] Programs(c)          -> ProgramPlans(c)
    [] Verifies(c)          -> {VerifyPlan(c)}
    [] Reads(c)             -> {ReadPlan(c)}

-----------------------------------------------------------------------------
Init ==
  /\ cells \in Arrays /\ fail = FALSE /\ protected = FALSE
  /\ cmd = {} /\ todo = <<>> /\ data = <<>> /\ ok = TRUE /\ out = <<>> /\ exit = "0"
  /\ before = cells /\ failed = {} /\ issued = 0

The == CHOOSE c \in cmd : TRUE
Running == exit = "running"

(* NandDevice never moves WP#; what a script or an application has called before, a
   timed function for one, may have left it low (OnfiArrayOps). *)
Begin ==
  /\ ~Running /\ issued < MaxCommands
  /\ \E c \in Commands :
       /\ cmd' = {c}
       /\ IF Refused(c)
            THEN exit' = "error" /\ todo' = <<>> /\ data' = <<>>
            ELSE /\ exit' = "running" /\ todo' \in Plans(c)
                 /\ data' \in IF Programs(c) THEN Buffers(c) ELSE {<<>>}
  /\ ok' = TRUE /\ out' = <<>> /\ before' = cells /\ failed' = {} /\ issued' = issued + 1
  /\ protected' \in BOOLEAN
  /\ UNCHANGED <<cells, fail>>

Doing(do) == Running /\ todo # <<>> /\ Head(todo).do = do
At == Head(todo)
NextStep == todo' = Tail(todo) /\ UNCHANGED <<protected, cmd, data, before, issued>>

(* an operation the package refuses without FAIL, passes, or fails with or without
   effect *)
Outcome(block, page) ==
  \/ /\ protected /\ fail' = FALSE /\ UNCHANGED <<cells, failed>>
  \/ /\ ~protected /\ fail' = FALSE /\ UNCHANGED failed
     /\ cells' = [cells EXCEPT ![At.block] = block]
  \/ /\ ~protected /\ fail' = TRUE /\ failed' = failed \cup {<<At.block, page>>}
     /\ cells' \in {cells, [cells EXCEPT ![At.block] = block]}

EraseBlock ==
  /\ Doing("erase") /\ NextStep
  /\ Outcome([p \in Pages |-> Erased], 0)
  /\ UNCHANGED <<ok, out, exit>>

Programmed(page) == [i \in 1..2 |-> IF i <= Len(data) THEN Min({page[i], data[i]}) ELSE page[i]]

ProgramPage ==
  /\ Doing("program") /\ NextStep
  /\ Outcome([cells[At.block] EXCEPT ![At.page] = Programmed(@)], At.page)
  /\ UNCHANGED <<ok, out, exit>>

(* Mutant: a failed block does not stop the command *)
CheckStatusGoesOn ==
  /\ Doing("status") /\ NextStep
  /\ ok' = (ok /\ ~fail)
  /\ UNCHANGED <<cells, fail, out, exit, failed>>

(* Mutant: the inverse of the FAIL bit *)
CheckStatusInverted ==
  /\ Doing("status") /\ UNCHANGED <<protected, cmd, data, before, issued>>
  /\ IF fail THEN todo' = Tail(todo) /\ UNCHANGED exit ELSE exit' = "1" /\ todo' = <<>>
  /\ UNCHANGED <<cells, fail, ok, out, failed>>

CheckStatus ==
  /\ Doing("status") /\ UNCHANGED <<protected, cmd, data, before, issued>>
  /\ IF fail THEN exit' = "1" /\ todo' = <<>> ELSE todo' = Tail(todo) /\ UNCHANGED exit
  /\ UNCHANGED <<cells, fail, ok, out, failed>>

Read(b, p) == SubSeq(cells[b][p], 1, Total(The))

(* verify-page hands the null pointer on when there is no --input *)
NoReference == The.op = "verify-page" /\ The.input = None
VerifyPage ==
  /\ Doing("verify") /\ NextStep
  /\ IF NoReference
       THEN exit' = "crash" /\ UNCHANGED ok
       ELSE ok' = (ok /\ Read(At.block, At.page) = Expected(The)) /\ UNCHANGED exit
  /\ UNCHANGED <<cells, fail, out, failed>>

(* read_block ends each page with a newline, 0x0A, read_page does not *)
Newline == IF The.op = "read-block" THEN <<10>> ELSE <<>>
Lost == The.file = "bad"
ReadPage ==
  /\ Doing("read") /\ NextStep
  /\ out' = IF Lost THEN out ELSE out \o Read(At.block, At.page) \o Newline
  /\ UNCHANGED <<cells, fail, ok, exit, failed>>

(* is_bad_block: the first spare byte of the first page *)
IsBad(b) == cells[b][0][2] = 0
ScanBlock ==
  /\ Doing("mark") /\ NextStep
  /\ ok' = (ok /\ ~IsBad(At.block))
  /\ out' = IF IsBad(At.block) THEN Append(out, At.block) ELSE out
  /\ UNCHANGED <<cells, fail, exit, failed>>

(* read_page_command looks at what write_file returns; a FileDataSink says nothing *)
Unsaved == The.op = "read-page" /\ Lost
Finish ==
  /\ Running /\ todo = <<>>
  /\ exit' = IF ok /\ ~Unsaved THEN "0" ELSE IF Programs(The) THEN "2" ELSE "1"
  /\ UNCHANGED <<cells, fail, protected, cmd, todo, data, ok, out, before, failed, issued>>

Killed ==
  /\ Running /\ exit' = "killed" /\ todo' = <<>>
  /\ UNCHANGED <<cells, fail, protected, cmd, data, ok, out, before, failed, issued>>

Next == Begin \/ EraseBlock \/ ProgramPage \/ CheckStatus \/ VerifyPage \/ ReadPage
        \/ ScanBlock \/ Finish \/ Killed

Spec == Init /\ [][Next]_vars

-----------------------------------------------------------------------------
(* The pages a command is asked to change, from its arguments alone *)
EraseBlocks(c) ==
  CASE c.op = "erase-block" -> {c.block}
    [] c.op = "erase-chip"  -> {b \in Blocks : c.start <= b /\ b < c.start + c.count}
    [] OTHER                -> {}
AskedToChange(c) ==
  IF Programs(c) THEN {c.block} \X ToSet(PagesOf(c)) ELSE EraseBlocks(c) \X Pages

(* A command that exits with 0 has done what its name says, whatever was in the
   array and whatever a command killed before it has left there: the pages
   verified (after --verify or by a verify command) hold the bytes expected, the
   scan has seen no bad block and, when WP# was high, the blocks are erased, the
   page holds what programming over its old contents gives. Nothing is said of
   program-block without --verify, which misses the failure of any page but its
   last (SuccessMeansNoFailure), and of an erase-block, erase-chip or program-page
   that WP# has refused: the package answers it without FAIL. *)
ExitZeroMeansDone ==
  exit = "0" /\ cmd # {} =>
    /\ protected \/ \A b \in EraseBlocks(The) : \A p \in Pages : cells[b][p] = Erased
    /\ The.op = "program-page" /\ ~protected =>
         \A p \in ToSet(PagesOf(The)) : \A i \in 1..2 :
           cells[The.block][p][i] = IF i <= Total(The)
                                      THEN Min({before[The.block][p][i], Padded(The)[i]})
                                      ELSE before[The.block][p][i]
    /\ Verifies(The) \/ (Programs(The) /\ The.verify) =>
         \A p \in ToSet(PagesOf(The)) : Read(The.block, p) = Expected(The)
    /\ The.op = "scan-all" => \A b \in Blocks : ~IsBad(b)

(* A command complains (exit 1 or 2) only when an operation of it failed, the
   array differs from what it compares with, or its page could not be saved. *)
ComplaintsAreReal ==
  exit \in {"1", "2"} =>
    \/ failed # {} \/ Unsaved
    \/ /\ Programs(The) \/ Verifies(The)
       /\ \E p \in ToSet(PagesOf(The)) : Read(The.block, p) # Expected(The)
    \/ The.op = "scan" /\ IsBad(The.block)
    \/ The.op = "scan-all" /\ out # <<>> /\ ToSet(out) = {b \in Blocks : IsBad(b)}

(* erase-chip stops at the block that fails: the blocks before it are erased and
   those behind it as they were. *)
EraseChipStopsAtFailure ==
  exit = "1" /\ The.op = "erase-chip" =>
    \E b \in EraseBlocks(The) :
      /\ failed = {<<b, 0>>}
      /\ \A other \in EraseBlocks(The) \ {b} :
           IF other < b THEN \A p \in Pages : cells[other][p] = Erased
                        ELSE cells[other] = before[other]

(* What is read is what the pages hold, in the order of the list, and read-page
   does not exit with 0 when it could not save it. *)
ReadsInOrder ==
  exit = "0" /\ cmd # {} /\ Reads(The) /\ (The.op = "read-page" \/ ~Lost) =>
    LET width == Total(The)
        stride == width + Len(Newline)
    IN /\ Len(out) = stride * Len(PagesOf(The))
       /\ \A i \in DOMAIN PagesOf(The) : \A k \in 1..width :
            out[(i - 1) * stride + k] = cells[The.block][PagesOf(The)[i]][k]

(* --verify is honest about what it covers: when program-block or program-page
   without --include-spare exits with 2 on an erased block, an operation has failed
   or WP# has refused the writes (the pattern that program_block writes and the one
   that verify_program_block expects agree on the main area). *)
VerifyFindsRealFaults ==
  exit = "2" /\ ~The.spare /\ (\A p \in Pages : before[The.block][p] = Erased)
    => failed # {} \/ protected

(* No step of a command changes a page it was not asked to change, and a command
   that was not asked to program or erase changes none. *)
OnlyAskedPagesChange ==
  [][\A b \in Blocks, p \in Pages :
       cells'[b][p] # cells[b][p] => cmd # {} /\ <<b, p>> \in AskedToChange(The)]_vars

-----------------------------------------------------------------------------
(* Documented: onfi_commands.cpp *)

(* "Program block successful.": no page of it has failed *)
SuccessMeansNoFailure == exit = "0" => failed = {}
=============================================================================
