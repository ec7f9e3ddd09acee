--------------------------- MODULE BlockOps_proofs ---------------------------
(* Proofs about the commands on pages and blocks, for any geometry, any contents
   of the array and any commands: what a running command has still to do and what
   it has done make up the array, the answers it has seen and its output; when it
   ends, the properties of BlockOps follow. *)
EXTENDS BlockOps, SequenceTheorems, TLAPS

-----------------------------------------------------------------------------
(* The invariant. *)

ErasesBlocks(c) == c.op \in {"erase-block", "erase-chip"}
ScansMarks(c) == c.op \in {"scan", "scan-all"}
Compare(c) == Verifies(c) \/ (Programs(c) /\ c.verify)

StepKinds == {"erase", "program", "status", "verify", "read", "mark"}
Steps == [do : StepKinds, block : Int, page : Int]
StatusStep == Step("status", 0, 0)
Left == ToSet(todo)

(* erased, unless WP# has refused it *)
Cleared(b) == protected \/ \A p \in Pages : cells[b][p] = Erased

(* the erase commands: a count of blocks from a first one, a status after each *)
First(c) == IF c.op = "erase-block" THEN c.block ELSE c.start
Count(c) == IF c.op = "erase-block" THEN 1 ELSE EraseCount(c)
EraseStep(c, i) == IF i % 2 = 1 THEN Step("erase", First(c) + (i \div 2), 0) ELSE StatusStep

EraseRun(c) ==
  LET d == 2 * Count(c) - Len(todo)
  IN /\ d \in 0..(2 * Count(c)) /\ ok
     /\ \A i \in 1..Len(todo) : todo[i] = EraseStep(c, d + i)
     /\ d % 2 = 0 => failed = {}
     /\ d % 2 = 1 => IF fail THEN ~protected /\ failed = {<<First(c) + (d \div 2), 0>>}
                     ELSE failed = {} /\ Cleared(First(c) + (d \div 2))
     /\ \A b \in Blocks : First(c) <= b /\ b < First(c) + (d \div 2) => Cleared(b)
     /\ \A b \in Blocks : b >= First(c) + ((d + 1) \div 2) => cells[b] = before[b]

(* the program commands: first the pages, then the status, then the comparisons *)
StepsOn(do, c) == {Step(do, c.block, p) : p \in ToSet(PagesOf(c))}
InOrder ==
  \A i, j \in 1..Len(todo) : i < j =>
    /\ todo[j].do = "program" => todo[i].do = "program"
    /\ todo[j].do = "status" => todo[i].do = "program"

Over(c, p) == Programmed(before[c.block][p])

ProgramRun(c) ==
  /\ Left \subseteq StepsOn("program", c) \cup {StatusStep} \cup StepsOn("verify", c)
  /\ ~c.verify => Left \cap StepsOn("verify", c) = {}
  /\ InOrder
  /\ Left \cap StepsOn("program", c) # {} => StatusStep \in Left
  /\ data \in Buffers(c)
  /\ \A p \in Pages : cells[c.block][p] \in {before[c.block][p], Over(c, p)}
  /\ \A p \in ToSet(PagesOf(c)) :
       Step("program", c.block, p) \in Left \/ failed # {} \/ protected \/ cells[c.block][p] = Over(c, p)
  /\ c.op = "program-page" => \A p \in ToSet(PagesOf(c)) :
       Step("program", c.block, p) \in Left \/ fail \/ protected \/ cells[c.block][p] = Over(c, p)
  /\ StatusStep \in Left \/ ~fail
  /\ (fail => failed # {}) \/ (todo # <<>> /\ todo[1].do = "program")

(* comparisons, of a verify command or after a program command *)
Agrees(c, p) == SubSeq(cells[c.block][p], 1, Total(c)) = Expected(c)

CompareRun(c) ==
  /\ Verifies(c) => Left \subseteq StepsOn("verify", c)
  /\ ok \/ /\ Compare(c) /\ StatusStep \notin Left
           /\ \E p \in ToSet(PagesOf(c)) : ~Agrees(c, p)
  /\ ok /\ Compare(c) => \A p \in ToSet(PagesOf(c)) :
       Step("verify", c.block, p) \in Left \/ (StatusStep \notin Left /\ Agrees(c, p))

(* the read commands: a stride of bytes for each page read *)
Stride(c) == Total(c) + IF c.op = "read-block" THEN 1 ELSE 0

ReadRun(c) ==
  LET d == Len(PagesOf(c)) - Len(todo)
  IN /\ d \in 0..Len(PagesOf(c)) /\ ok
     /\ \A i \in 1..Len(todo) : todo[i] = Step("read", c.block, PagesOf(c)[d + i])
     /\ c.file # "bad" =>
          /\ out \in Seq(Int) /\ Len(out) = Stride(c) * d
          /\ \A i \in 1..d : \A k \in 1..Total(c) :
               out[(i - 1) * Stride(c) + k] = cells[c.block][PagesOf(c)[i]][k]

ScanRun(c) ==
  /\ c.op = "scan" => todo \in {<<>>, <<Step("mark", c.block, 0)>>} /\ (ok \/ IsBad(c.block))
  /\ c.op = "scan-all" =>
       LET d == NumBlocks - Len(todo)
       IN /\ d \in 0..NumBlocks /\ out \in Seq(Int)
          /\ \A i \in 1..Len(todo) : todo[i] = Step("mark", d + i - 1, 0)
          /\ ToSet(out) = {b \in Blocks : b < d /\ IsBad(b)}
          /\ ok <=> out = <<>>

RunInv(c) ==
  /\ ErasesBlocks(c) => EraseRun(c)
  /\ Programs(c) => ProgramRun(c)
  /\ Programs(c) \/ Verifies(c) => CompareRun(c)
  /\ Reads(c) => ReadRun(c)
  /\ ScansMarks(c) => ScanRun(c)

TypesOK ==
  /\ cells \in [Blocks -> [Pages -> Cells]] /\ before \in [Blocks -> [Pages -> Cells]]
  /\ fail \in BOOLEAN /\ protected \in BOOLEAN /\ ok \in BOOLEAN /\ todo \in Seq(Steps)
  /\ cmd = {} \/ \E c \in Commands : cmd = {c}
  /\ Running => cmd # {} /\ ~Refused(The)

Kept == /\ ExitZeroMeansDone /\ ComplaintsAreReal /\ EraseChipStopsAtFailure
        /\ ReadsInOrder /\ VerifyFindsRealFaults

BlockInv == TypesOK /\ (Running => RunInv(The)) /\ Kept

-----------------------------------------------------------------------------
(* Lemmas about the arguments and the steps left. *)

LEMMA MinOfTwo ==
  ASSUME NEW a \in Int, NEW b \in Int
  PROVE  Min({a, b}) = IF a <= b THEN a ELSE b
BY DEF Min

LEMMA TheIs ==
  ASSUME NEW c, cmd = {c}
  PROVE  The = c
BY DEF The

LEMMA GivenTypes ==
  ASSUME NEW c \in Commands
  PROVE  /\ c.op \in Operations /\ c.block \in Int /\ c.pages \in Seq(Int)
         /\ c.spare \in BOOLEAN /\ c.input \in Seq(Int) /\ (c.input \notin {None, Unreadable} => c.input \in Seq(Bytes))
         /\ c.start \in Int /\ c.count \in Int
         /\ c.verify \in BOOLEAN /\ c.random \in BOOLEAN
         /\ c.op \in PageCommands => c.pages # All /\ Len(c.pages) = 1
         /\ c.op = "program-page" => c.input # None
         /\ NumBlocks \in Nat /\ NumPages \in Nat \ {0}
<1>1. Given(c) /\ NumBlocks \in Nat /\ NumPages \in Nat \ {0}
  BY BlockAssumption
<1>2. /\ c.op \in Operations /\ c.block \in Int /\ c.pages \in Seq(Nat) \cup {All}
      /\ c.spare \in BOOLEAN /\ c.input \in Seq(Bytes) \cup {None, Unreadable}
      /\ c.start \in Int /\ c.count \in Int /\ c.verify \in BOOLEAN /\ c.random \in BOOLEAN
  BY <1>1 DEF Given
<1>3. All \in Seq(Int) /\ None \in Seq(Int) /\ Unreadable \in Seq(Int)
  <2>1. <<-1>> \in Seq(Int) /\ <<-2>> \in Seq(Int)
    BY EmptySeq
  <2> QED  BY <2>1 DEF All, None, Unreadable
<1>4. c.pages \in Seq(Int)
  BY <1>2, <1>3, SeqMonotonic, Nat \subseteq Int
<1>5. c.input \in Seq(Int)
  <2>1. Bytes \subseteq Int
    BY DEF Bytes
  <2> QED  BY <1>2, <1>3, <2>1, SeqMonotonic
<1> QED  BY <1>1, <1>2, <1>4, <1>5 DEF Given

OnList(c) == Programs(c) \/ Verifies(c) \/ Reads(c)

LEMMA ListTypes ==
  ASSUME NEW c \in Commands, OnList(c), ~Refused(c)
  PROVE  /\ PagesOf(c) \in Seq(Pages) /\ Len(PagesOf(c)) \in Nat /\ Len(PagesOf(c)) >= 1
         /\ ToSet(PagesOf(c)) \subseteq Pages
         /\ \A i \in 1..Len(PagesOf(c)) : PagesOf(c)[i] \in ToSet(PagesOf(c))
         /\ DOMAIN PagesOf(c) = 1..Len(PagesOf(c))
         /\ c.block \in Blocks
<1>1. c.block \in Blocks
  BY DEF Refused, OnList, Programs, Verifies, Reads
<1>2. c.op # "erase-chip"
  BY DEF OnList, Programs, Verifies, Reads
<1>3. CASE c.pages = All
  <2> DEFINE l == [i \in 1..NumPages |-> i - 1]
  <2>1. PagesOf(c) = l
    BY <1>3 DEF PagesOf
  <2>2. NumPages \in Nat \ {0}
    BY BlockAssumption
  <2>3. \A i \in 1..NumPages : i - 1 \in Pages
    BY <2>2 DEF Pages
  <2>4. l \in [1..NumPages -> Pages]
    BY <2>3
  <2> HIDE DEF l
  <2>5. l \in Seq(Pages) /\ Len(l) = NumPages
    BY <2>2, <2>4
  <2> QED  BY <1>1, <2>1, <2>2, <2>5, LenProperties DEF ToSet
<1>4. CASE c.pages # All
  <2>1. PagesOf(c) = c.pages /\ c.pages \in Seq(Int)
    BY <1>4, GivenTypes DEF PagesOf
  <2>2. c.pages # <<>> /\ ToSet(c.pages) \subseteq Pages
    BY <1>2, <1>4 DEF Refused
  <2>3. Len(c.pages) \in Nat /\ DOMAIN c.pages = 1..Len(c.pages) /\ Len(c.pages) >= 1
    BY <2>1, <2>2, LenProperties, EmptySeq
  <2>4. \A i \in 1..Len(c.pages) : c.pages[i] \in ToSet(c.pages)
    BY <2>3 DEF ToSet
  <2>5. c.pages \in [1..Len(c.pages) -> Pages]
    BY <2>1, <2>2, <2>3, <2>4, LenProperties
  <2>6. c.pages \in Seq(Pages)
    BY <2>3, <2>5
  <2> QED  BY <1>1, <2>1, <2>2, <2>3, <2>4, <2>6
<1> QED  BY <1>3, <1>4

LEMMA TakeStep ==
  ASSUME todo \in Seq(Steps), todo # <<>>, todo' = Tail(todo)
  PROVE  /\ todo' \in Seq(Steps) /\ Len(todo) \in Nat /\ Len(todo) >= 1
         /\ Len(todo') = Len(todo) - 1 /\ Len(todo') \in Nat
         /\ \A i \in 1..Len(todo') : todo'[i] = todo[i + 1]
         /\ Head(todo) = todo[1] /\ todo[1] \in Steps
         /\ Left = {todo[1]} \cup Left' /\ todo[1] \in Left
<1>1. /\ todo' \in Seq(Steps) /\ Len(todo) \in Nat \ {0} /\ Len(todo') = Len(todo) - 1
      /\ \A i \in 1..Len(todo') : todo'[i] = todo[i + 1]
  BY HeadTailProperties, EmptySeq
<1>2. Head(todo) = todo[1] /\ todo[1] \in Steps
  BY <1>1, ElementOfSeq
<1>3. Left = {todo[i] : i \in 1..Len(todo)} /\ Left' = {todo'[i] : i \in 1..Len(todo')}
  BY <1>1, LenProperties DEF Left, ToSet
<1>4. Left = {todo[1]} \cup Left'
  <2>1. ASSUME NEW x \in Left  PROVE x \in {todo[1]} \cup Left'
    <3>1. PICK i \in 1..Len(todo) : x = todo[i]
      BY <1>3
    <3>2. CASE i # 1
      <4>1. i - 1 \in 1..Len(todo') /\ todo'[i - 1] = todo[i]
        BY <1>1, <3>2
      <4> QED  BY <1>3, <3>1, <4>1
    <3> QED  BY <3>1, <3>2
  <2>2. ASSUME NEW x \in {todo[1]} \cup Left'  PROVE x \in Left
    <3>1. CASE x = todo[1]
      BY <1>1, <1>3, <3>1
    <3>2. CASE x \in Left'
      <4>1. PICK i \in 1..Len(todo') : x = todo'[i]
        BY <1>3, <3>2
      <4>2. i + 1 \in 1..Len(todo) /\ todo'[i] = todo[i + 1]
        BY <1>1, <4>1
      <4> QED  BY <1>3, <4>1, <4>2
    <3> QED  BY <2>2, <3>1, <3>2
  <2> QED  BY <2>1, <2>2
<1> QED  BY <1>1, <1>2, <1>4

-----------------------------------------------------------------------------
(* Plans. *)

LEMMA StepFields ==
  \A do, b, p : Step(do, b, p).do = do /\ Step(do, b, p).block = b /\ Step(do, b, p).page = p
BY DEF Step

LEMMA OnPagesTypes ==
  ASSUME NEW c, c.block \in Int, NEW do \in StepKinds, NEW pages \in Seq(Int)
  PROVE  /\ OnPages(do, c, pages) \in Seq(Steps)
         /\ Len(OnPages(do, c, pages)) = Len(pages) /\ Len(pages) \in Nat
         /\ \A i \in 1..Len(pages) : OnPages(do, c, pages)[i] = Step(do, c.block, pages[i])
         /\ ToSet(OnPages(do, c, pages)) = {Step(do, c.block, p) : p \in ToSet(pages)}
<1> DEFINE s == [i \in 1..Len(pages) |-> Step(do, c.block, pages[i])]
<1>1. DOMAIN pages = 1..Len(pages) /\ Len(pages) \in Nat
  BY LenProperties
<1>2. OnPages(do, c, pages) = s
  BY <1>1 DEF OnPages
<1>3. \A i \in 1..Len(pages) : pages[i] \in Int /\ Step(do, c.block, pages[i]) \in Steps
  BY <1>1, ElementOfSeq DEF Step, Steps
<1>4. s \in [1..Len(pages) -> Steps] /\ DOMAIN s = 1..Len(pages)
  BY <1>3
<1>5. \A i \in 1..Len(pages) : s[i] = Step(do, c.block, pages[i])
  OBVIOUS
<1> HIDE DEF s
<1>6. s \in Seq(Steps) /\ Len(s) = Len(pages)
  BY <1>1, <1>4
<1>7. ToSet(s) = {Step(do, c.block, p) : p \in ToSet(pages)}
  BY <1>1, <1>4, <1>5 DEF ToSet
<1> QED  BY <1>1, <1>2, <1>5, <1>6, <1>7

LEMMA SortedTypes ==
  ASSUME NEW pages \in Seq(Int), NEW s \in Sorted(pages)
  PROVE  s \in Seq(Int) /\ Len(s) = Len(pages) /\ ToSet(s) = ToSet(pages)
<1>1. DOMAIN pages = 1..Len(pages) /\ Len(pages) \in Nat
  BY LenProperties
<1> DEFINE D == 1..Len(pages)
<1>2. PICK place \in Bijection(D, D) : s = [i \in D |-> pages[place[i]]]
  BY <1>1 DEF Sorted
<1>3. place \in [D -> D] /\ \A y \in D : \E x \in D : place[x] = y
  BY <1>2 DEF Bijection, Injection, Surjection, IsInjective
<1>4. s \in [D -> Int] /\ DOMAIN s = D
  <2>1. \A i \in D : pages[i] \in Int
    BY <1>1, ElementOfSeq
  <2> QED  BY <1>2, <1>3, <2>1
<1>5. \A i \in D : s[i] = pages[place[i]]
  BY <1>2
<1>6. s \in Seq(Int) /\ Len(s) = Len(pages)
  BY <1>1, <1>4
<1>7. ToSet(s) = ToSet(pages)
  <2>1. ToSet(s) = {s[i] : i \in D} /\ ToSet(pages) = {pages[i] : i \in D}
    BY <1>1, <1>4 DEF ToSet
  <2>2. \A i \in D : \E j \in D : s[i] = pages[j]
    BY <1>3, <1>5
  <2>3. \A j \in D : \E i \in D : s[i] = pages[j]
    <3> SUFFICES ASSUME NEW j \in D  PROVE \E i \in D : s[i] = pages[j]
      OBVIOUS
    <3>1. PICK i \in D : place[i] = j
      BY <1>3
    <3>2. s[i] = pages[j]
      BY <1>5, <3>1
    <3> QED  BY <3>2
  <2> QED  BY ZenonT(30), <2>1, <2>2, <2>3
<1> QED  BY <1>6, <1>7

LEMMA ConcatSet ==
  ASSUME NEW S, NEW s \in Seq(S), NEW t \in Seq(S)
  PROVE  ToSet(s \o t) = ToSet(s) \cup ToSet(t)
<1>1. /\ s \o t \in Seq(S) /\ Len(s \o t) = Len(s) + Len(t)
      /\ \A i \in 1..(Len(s) + Len(t)) : (s \o t)[i] = IF i <= Len(s) THEN s[i] ELSE t[i - Len(s)]
      /\ Len(s) \in Nat /\ Len(t) \in Nat
  BY ConcatProperties, LenProperties
<1>2. /\ ToSet(s) = {s[i] : i \in 1..Len(s)} /\ ToSet(t) = {t[i] : i \in 1..Len(t)}
      /\ ToSet(s \o t) = {(s \o t)[i] : i \in 1..(Len(s) + Len(t))}
  BY <1>1, LenProperties DEF ToSet
<1>3. \A i \in 1..Len(s) : s[i] = (s \o t)[i] /\ i \in 1..(Len(s) + Len(t))
  BY <1>1
<1>4. \A i \in 1..Len(t) : t[i] = (s \o t)[Len(s) + i] /\ Len(s) + i \in 1..(Len(s) + Len(t))
  BY <1>1
<1>5. \A i \in 1..(Len(s) + Len(t)) : \/ i \in 1..Len(s) /\ (s \o t)[i] = s[i]
                                      \/ i - Len(s) \in 1..Len(t) /\ (s \o t)[i] = t[i - Len(s)]
  BY <1>1
<1> HIDE DEF ToSet
<1> QED  BY SMTT(30), <1>2, <1>3, <1>4, <1>5

(* The plan of an erase command is a status after each erase, at least once. *)
LEMMA ErasePlan ==
  ASSUME NEW c \in Commands, ErasesBlocks(c), ~Refused(c), NEW plan \in Plans(c)
  PROVE  /\ plan \in Seq(Steps) /\ Count(c) \in Nat \ {0} /\ Len(plan) = 2 * Count(c)
         /\ \A i \in 1..Len(plan) : plan[i] = EraseStep(c, i)
<1>1. c.block \in Int /\ c.start \in Int /\ c.count \in Int /\ NumBlocks \in Nat
  BY GivenTypes
<1>2. CASE c.op = "erase-block"
  <2> DEFINE a == Step("erase", c.block, 0)
  <2>1. plan = <<a>> \o <<StatusStep>>
    BY <1>2 DEF Plans, EraseBlockPlan, Status, StatusStep, Programs, Verifies, Reads
  <2>2. a \in Steps /\ StatusStep \in Steps
    BY <1>1 DEF Step, Steps, StepKinds, StatusStep
  <2> DEFINE s == <<a>>
             t == <<StatusStep>>
  <2>3. s \in Seq(Steps) /\ t \in Seq(Steps) /\ Len(s) = 1 /\ Len(t) = 1 /\ s[1] = a /\ t[1] = StatusStep
    BY <2>2
  <2> HIDE DEF s, t
  <2>4. /\ s \o t \in Seq(Steps) /\ Len(s \o t) = 2
        /\ \A i \in 1..2 : (s \o t)[i] = IF i <= 1 THEN s[i] ELSE t[i - 1]
    BY <2>3, ConcatProperties
  <2>5. plan = s \o t
    BY <2>1 DEF s, t
  <2>6. plan[1] = a /\ plan[2] = StatusStep
    BY <2>3, <2>4, <2>5
  <2>7. Count(c) = 1 /\ First(c) = c.block
    BY <1>2 DEF Count, First
  <2>8. EraseStep(c, 1) = a /\ EraseStep(c, 2) = StatusStep
    <3>1. 1 % 2 = 1 /\ 1 \div 2 = 0 /\ 2 % 2 = 0
      OBVIOUS
    <3>2. c.block + 0 = c.block
      BY <1>1
    <3> QED  BY <2>7, <3>1, <3>2 DEF EraseStep
  <2> HIDE DEF a
  <2>9. \A i \in 1..2 : i = 1 \/ i = 2
    OBVIOUS
  <2> QED  BY <2>4, <2>5, <2>6, <2>7, <2>8, <2>9
<1>3. CASE c.op = "erase-chip"
  <2>1. c.start \in Blocks /\ ~(c.count <= 0)
    BY <1>3 DEF Refused
  <2>2. EraseCount(c) \in Nat \ {0}
    <3>1. c.count > 0 /\ NumBlocks - c.start > 0 /\ NumBlocks - c.start \in Int
      BY <1>1, <2>1 DEF Blocks
    <3>2. EraseCount(c) = IF c.count <= NumBlocks - c.start THEN c.count ELSE NumBlocks - c.start
      BY <1>1, <3>1, MinOfTwo DEF EraseCount
    <3> QED  BY <1>1, <3>1, <3>2
  <2>3. Count(c) = EraseCount(c) /\ First(c) = c.start
    BY <1>3 DEF Count, First
  <2> DEFINE f(i) == IF i % 2 = 1 THEN Step("erase", c.start + (i \div 2), 0) ELSE Status[1]
             s == [i \in 1..2 * EraseCount(c) |-> f(i)]
  <2>4. plan = s
    BY <1>3 DEF Plans, EraseChipPlan, ChipSteps, Programs, Verifies, Reads
  <2>5. Status[1] = StatusStep /\ StatusStep \in Steps
    BY DEF Status, StatusStep, Step, Steps, StepKinds
  <2>6. \A i \in 1..2 * EraseCount(c) : f(i) = EraseStep(c, i) /\ f(i) \in Steps
    <3> SUFFICES ASSUME NEW i \in 1..2 * EraseCount(c)  PROVE f(i) = EraseStep(c, i) /\ f(i) \in Steps
      OBVIOUS
    <3>1. i \div 2 \in Int /\ c.start + (i \div 2) \in Int
      BY <1>1, <2>2
    <3>2. Step("erase", c.start + (i \div 2), 0) \in Steps
      BY <3>1 DEF Step, Steps, StepKinds
    <3> QED  BY <2>3, <2>5, <3>2 DEF EraseStep
  <2>7. \A i \in 1..2 * EraseCount(c) : s[i] = f(i)
    OBVIOUS
  <2>8. s \in [1..2 * EraseCount(c) -> Steps]
    BY <2>6
  <2> HIDE DEF s, f
  <2>9. s \in Seq(Steps) /\ Len(s) = 2 * EraseCount(c)
    BY <2>2, <2>8
  <2> QED  BY <2>2, <2>3, <2>4, <2>6, <2>7, <2>9
<1> QED  BY <1>2, <1>3 DEF ErasesBlocks

(* The plan of a verify or a read command is its list, in the order given. *)
LEMMA ListPlan ==
  ASSUME NEW c \in Commands, Verifies(c) \/ Reads(c), ~Refused(c), NEW plan \in Plans(c),
         NEW do, do = IF Verifies(c) THEN "verify" ELSE "read"
  PROVE  /\ plan \in Seq(Steps) /\ Len(plan) = Len(PagesOf(c))
         /\ \A i \in 1..Len(plan) : plan[i] = Step(do, c.block, PagesOf(c)[i])
         /\ ToSet(plan) = StepsOn(do, c)
<1>1. c.block \in Int /\ do \in StepKinds
  BY GivenTypes DEF StepKinds
<1>2. PagesOf(c) \in Seq(Int)
  <2>1. Pages \subseteq Int /\ PagesOf(c) \in Seq(Pages)
    BY ListTypes DEF Pages, OnList
  <2> QED  BY <2>1, SeqMonotonic
<1>3. plan = OnPages(do, c, PagesOf(c))
  BY DEF Plans, VerifyPlan, ReadPlan, Verifies, Reads, Programs
<1> QED  BY <1>1, <1>2, <1>3, OnPagesTypes DEF StepsOn

(* The plan of a program command: its pages in ascending order, a status, and with
   --verify the list in the order given. *)
LEMMA ProgramPlan ==
  ASSUME NEW c \in Commands, Programs(c), ~Refused(c), NEW plan \in Plans(c)
  PROVE  /\ plan \in Seq(Steps)
         /\ ToSet(plan) = StepsOn("program", c) \cup {StatusStep}
                          \cup (IF c.verify THEN StepsOn("verify", c) ELSE {})
         /\ Len(plan) > Len(PagesOf(c))
         /\ \A i \in 1..Len(plan) : plan[i].do = IF i <= Len(PagesOf(c)) THEN "program" ELSE
                                      IF i = Len(PagesOf(c)) + 1 THEN "status" ELSE "verify"
<1>1. c.block \in Int /\ {"program", "verify", "status"} \subseteq StepKinds /\ c.verify \in BOOLEAN
  BY GivenTypes DEF StepKinds
<1>2. PagesOf(c) \in Seq(Int)
  <2>1. Pages \subseteq Int /\ PagesOf(c) \in Seq(Pages)
    BY ListTypes DEF Pages, OnList
  <2> QED  BY <2>1, SeqMonotonic
<1>3. PICK s \in Sorted(PagesOf(c)) :
        plan = OnPages("program", c, s) \o Status \o Compares(c, PagesOf(c))
  BY DEF Plans, ProgramPlans, Programs, Verifies, Reads
<1>4. s \in Seq(Int) /\ Len(s) = Len(PagesOf(c)) /\ ToSet(s) = ToSet(PagesOf(c))
  BY <1>2, SortedTypes
<1> DEFINE n == Len(s)
           p == OnPages("program", c, s)
           v == Compares(c, PagesOf(c))
<1>5. /\ p \in Seq(Steps) /\ Len(p) = n /\ n \in Nat /\ \A i \in 1..n : p[i].do = "program"
      /\ ToSet(p) = StepsOn("program", c)
  <2>1. /\ p \in Seq(Steps) /\ Len(p) = n /\ n \in Nat
        /\ \A i \in 1..n : p[i] = Step("program", c.block, s[i])
        /\ ToSet(p) = {Step("program", c.block, q) : q \in ToSet(s)}
    BY <1>1, <1>4, OnPagesTypes
  <2>2. \A i \in 1..n : p[i].do = "program"
    BY <2>1, StepFields
  <2>3. ToSet(p) = StepsOn("program", c)
    BY <1>4, <2>1 DEF StepsOn
  <2> QED  BY <2>1, <2>2, <2>3
<1>6. /\ v \in Seq(Steps) /\ Len(v) \in Nat /\ \A i \in 1..Len(v) : v[i].do = "verify"
      /\ ToSet(v) = IF c.verify THEN StepsOn("verify", c) ELSE {}
  <2>1. CASE c.verify
    <3>1. v = OnPages("verify", c, PagesOf(c))
      BY <2>1 DEF Compares
    <3>2. /\ v \in Seq(Steps) /\ Len(v) = Len(PagesOf(c)) /\ Len(v) \in Nat
          /\ \A i \in 1..Len(v) : v[i] = Step("verify", c.block, PagesOf(c)[i])
          /\ ToSet(v) = {Step("verify", c.block, q) : q \in ToSet(PagesOf(c))}
      BY <1>1, <1>2, <3>1, OnPagesTypes
    <3>3. \A i \in 1..Len(v) : v[i].do = "verify"
      BY <3>2, StepFields
    <3>4. ToSet(v) = StepsOn("verify", c)
      BY <3>2 DEF StepsOn
    <3> QED  BY <2>1, <3>2, <3>3, <3>4
  <2>2. CASE ~c.verify
    <3>1. v = <<>>
      BY <2>2 DEF Compares
    <3>2. ToSet(v) = {}
      BY <3>1 DEF ToSet
    <3> QED  BY <2>2, <3>1, <3>2, EmptySeq
  <2> QED  BY <2>1, <2>2
<1>7. /\ Status \in Seq(Steps) /\ Len(Status) = 1 /\ Status[1] = StatusStep /\ StatusStep.do = "status"
      /\ ToSet(Status) = {StatusStep}
  <2>1. StatusStep \in Steps /\ StatusStep.do = "status" /\ Status = <<StatusStep>>
    BY DEF StatusStep, Step, Steps, StepKinds, Status
  <2>2. Status \in Seq(Steps) /\ Len(Status) = 1 /\ Status[1] = StatusStep
    BY <2>1
  <2>3. DOMAIN Status = 1..1
    BY <2>2, LenProperties
  <2>4. ToSet(Status) = {StatusStep}
    BY <2>2, <2>3 DEF ToSet
  <2> QED  BY <2>1, <2>2, <2>4
<1> HIDE DEF p, v
<1> DEFINE ps == p \o Status
<1>8. /\ ps \in Seq(Steps) /\ Len(ps) = n + 1
      /\ \A i \in 1..(n + 1) : ps[i] = IF i <= n THEN p[i] ELSE Status[i - n]
      /\ ToSet(ps) = ToSet(p) \cup {StatusStep}
  <2>1. /\ ps \in Seq(Steps) /\ Len(ps) = Len(p) + Len(Status)
        /\ \A i \in 1..(Len(p) + Len(Status)) : ps[i] = IF i <= Len(p) THEN p[i] ELSE Status[i - Len(p)]
    BY SMTT(30), <1>5, <1>7, ConcatProperties
  <2>2. ToSet(ps) = ToSet(p) \cup ToSet(Status)
    BY <1>5, <1>7, ConcatSet
  <2> HIDE DEF ps
  <2> QED  BY <1>5, <1>7, <2>1, <2>2
<1>9. plan = ps \o v
  BY <1>3 DEF p, v
<1> HIDE DEF ps
<1>10. /\ plan \in Seq(Steps) /\ Len(plan) = n + 1 + Len(v)
       /\ \A i \in 1..(n + 1 + Len(v)) : plan[i] = IF i <= n + 1 THEN ps[i] ELSE v[i - (n + 1)]
       /\ ToSet(plan) = ToSet(ps) \cup ToSet(v)
  <2>1. /\ plan \in Seq(Steps) /\ Len(plan) = Len(ps) + Len(v)
        /\ \A i \in 1..(Len(ps) + Len(v)) : plan[i] = IF i <= Len(ps) THEN ps[i] ELSE v[i - Len(ps)]
    BY <1>6, <1>8, <1>9, ConcatProperties
  <2>2. ToSet(plan) = ToSet(ps) \cup ToSet(v)
    BY <1>6, <1>8, <1>9, ConcatSet
  <2> QED  BY <1>5, <1>6, <1>8, <2>1, <2>2
<1>11. ToSet(plan) = StepsOn("program", c) \cup {StatusStep} \cup (IF c.verify THEN StepsOn("verify", c) ELSE {})
  BY <1>5, <1>6, <1>8, <1>10
<1>12. ASSUME NEW i \in 1..Len(plan)
       PROVE  plan[i].do = IF i <= n THEN "program" ELSE IF i = n + 1 THEN "status" ELSE "verify"
  <2>1. CASE i <= n
    <3>1. i \in 1..n /\ i \in 1..(n + 1) /\ i \in 1..(n + 1 + Len(v)) /\ i <= n + 1
      BY <1>5, <1>6, <1>10, <2>1
    <3>2. plan[i] = p[i]
      BY <1>8, <1>10, <2>1, <3>1
    <3> QED  BY <1>5, <2>1, <3>1, <3>2
  <2>2. CASE i = n + 1
    <3>1. i \in 1..(n + 1) /\ i \in 1..(n + 1 + Len(v)) /\ ~(i <= n) /\ i - n = 1
      BY <1>5, <1>6, <1>10, <2>2
    <3>2. plan[i] = Status[1]
      BY <1>8, <1>10, <2>2, <3>1
    <3> QED  BY <1>7, <2>2, <3>1, <3>2
  <2>3. CASE i > n + 1
    <3>1. /\ i - (n + 1) \in 1..Len(v) /\ i \in 1..(n + 1 + Len(v))
          /\ ~(i <= n) /\ ~(i <= n + 1) /\ i # n + 1
      BY <1>5, <1>6, <1>10, <2>3
    <3>2. plan[i] = v[i - (n + 1)]
      BY <1>10, <3>1
    <3> QED  BY <1>6, <3>1, <3>2
  <2> QED  BY <1>5, <1>10, <2>1, <2>2, <2>3
<1>13. Len(plan) > n /\ n = Len(PagesOf(c))
  BY <1>4, <1>5, <1>6, <1>10
<1> QED  BY <1>10, <1>11, <1>12, <1>13

LEMMA ScanPlan ==
  ASSUME NEW c \in Commands, ScansMarks(c), NEW plan \in Plans(c)
  PROVE  /\ plan \in Seq(Steps)
         /\ c.op = "scan" => plan = <<Step("mark", c.block, 0)>>
         /\ c.op = "scan-all" => /\ Len(plan) = NumBlocks
                                 /\ \A i \in 1..NumBlocks : plan[i] = Step("mark", i - 1, 0)
<1>1. c.block \in Int /\ NumBlocks \in Nat
  BY GivenTypes
<1>2. CASE c.op = "scan"
  <2>1. plan = <<Step("mark", c.block, 0)>>
    BY <1>2 DEF Plans, ScanOnePlan, Programs, Verifies, Reads
  <2>2. Step("mark", c.block, 0) \in Steps
    BY <1>1 DEF Step, Steps, StepKinds
  <2> QED  BY <1>2, <2>1, <2>2
<1>3. CASE c.op = "scan-all"
  <2> DEFINE s == [b \in 1..NumBlocks |-> Step("mark", b - 1, 0)]
  <2>1. plan = s
    BY <1>3 DEF Plans, ScanAllPlan, Programs, Verifies, Reads
  <2>2. \A b \in 1..NumBlocks : Step("mark", b - 1, 0) \in Steps
    BY <1>1 DEF Step, Steps, StepKinds
  <2>3. s \in [1..NumBlocks -> Steps] /\ \A i \in 1..NumBlocks : s[i] = Step("mark", i - 1, 0)
    BY <2>2
  <2> HIDE DEF s
  <2>4. s \in Seq(Steps) /\ Len(s) = NumBlocks
    BY <1>1, <2>3
  <2> QED  BY <1>3, <2>1, <2>3, <2>4
<1> QED  BY <1>2, <1>3 DEF ScansMarks

-----------------------------------------------------------------------------
(* A command that begins. *)

Begins(c) ==
  /\ cmd' = {c} /\ todo' \in Plans(c) /\ data' \in (IF Programs(c) THEN Buffers(c) ELSE {<<>>})
  /\ ok' = TRUE /\ out' = <<>> /\ before' = cells /\ failed' = {}
  /\ UNCHANGED <<cells, fail>>

LEMMA EraseBegins ==
  ASSUME NEW c \in Commands, ErasesBlocks(c), ~Refused(c), Begins(c)
  PROVE  EraseRun(c)'
<1>1. /\ todo' \in Seq(Steps) /\ Count(c) \in Nat \ {0} /\ Len(todo') = 2 * Count(c)
      /\ \A i \in 1..Len(todo') : todo'[i] = EraseStep(c, i)
  BY ErasePlan DEF Begins
<1> DEFINE d == 2 * Count(c) - Len(todo')
<1>2. d = 0 /\ d \in 0..(2 * Count(c)) /\ d % 2 = 0 /\ d \div 2 = 0 /\ (d + 1) \div 2 = 0
  <2>1. d = 0
    BY <1>1
  <2> HIDE DEF d
  <2> QED  BY <1>1, <2>1
<1>3. \A i \in 1..Len(todo') : todo'[i] = EraseStep(c, d + i)
  BY <1>1, <1>2
<1>4. failed' = {} /\ ok' /\ before' = cells'
  BY DEF Begins
<1>5. First(c) \in Int
  BY GivenTypes DEF First
<1>6. \A b \in Blocks : ~(First(c) <= b /\ b < First(c) + (d \div 2))
  BY <1>2, <1>5, GivenTypes DEF Blocks
<1> HIDE DEF d
<1>7. d % 2 # 1
  BY <1>2
<1> QED  BY <1>2, <1>3, <1>4, <1>6, <1>7 DEF EraseRun, d

LEMMA ReadBegins ==
  ASSUME NEW c \in Commands, Reads(c), ~Refused(c), Begins(c)
  PROVE  ReadRun(c)'
<1>1. /\ todo' \in Seq(Steps) /\ Len(todo') = Len(PagesOf(c))
      /\ \A i \in 1..Len(todo') : todo'[i] = Step("read", c.block, PagesOf(c)[i])
  BY ListPlan DEF Begins, Verifies, Reads
<1>2. Len(PagesOf(c)) \in Nat
  BY ListTypes DEF OnList
<1> DEFINE d == Len(PagesOf(c)) - Len(todo')
<1>3. d = 0 /\ d \in 0..Len(PagesOf(c))
  BY <1>1, <1>2
<1>4. \A i \in 1..Len(todo') : todo'[i] = Step("read", c.block, PagesOf(c)[d + i])
  BY <1>1, <1>2, <1>3
<1>5. ok' /\ out' = <<>>
  BY DEF Begins
<1>6. Stride(c) \in Int
  BY DEF Stride, Total
<1>7. out' \in Seq(Int) /\ Len(out') = Stride(c) * d
  BY <1>3, <1>5, <1>6, EmptySeq
<1>8. \A i \in 1..d : FALSE
  BY <1>3
<1> QED  BY <1>3, <1>4, <1>5, <1>7, <1>8 DEF ReadRun

LEMMA ScanBegins ==
  ASSUME NEW c \in Commands, ScansMarks(c), Begins(c)
  PROVE  ScanRun(c)'
<1>1. /\ c.op = "scan" => todo' = <<Step("mark", c.block, 0)>>
      /\ c.op = "scan-all" => /\ Len(todo') = NumBlocks
                              /\ \A i \in 1..NumBlocks : todo'[i] = Step("mark", i - 1, 0)
  BY ScanPlan DEF Begins
<1>2. ok' = TRUE /\ out' = <<>> /\ NumBlocks \in Nat
  BY GivenTypes DEF Begins
<1>3. ASSUME c.op = "scan-all"
      PROVE  LET d == NumBlocks - Len(todo')
             IN /\ d \in 0..NumBlocks /\ out' \in Seq(Int)
                /\ \A i \in 1..Len(todo') : todo'[i] = Step("mark", d + i - 1, 0)
                /\ ToSet(out') = {b \in Blocks : b < d /\ IsBad(b)'}
                /\ ok' <=> out' = <<>>
  <2> DEFINE d == NumBlocks - Len(todo')
  <2>1. d = 0 /\ d \in 0..NumBlocks
    BY <1>1, <1>2, <1>3
  <2>2. \A i \in 1..Len(todo') : todo'[i] = Step("mark", d + i - 1, 0)
    BY <1>1, <1>2, <1>3, <2>1
  <2>3. ToSet(out') = {}
    BY <1>2 DEF ToSet
  <2>4. {b \in Blocks : b < d /\ IsBad(b)'} = {}
    BY <1>2, <2>1 DEF Blocks
  <2> QED  BY <1>2, <2>1, <2>2, <2>3, <2>4, EmptySeq
<1> QED  BY <1>1, <1>2, <1>3 DEF ScanRun

LEMMA CompareBegins ==
  ASSUME NEW c \in Commands, Programs(c) \/ Verifies(c), ~Refused(c), Begins(c)
  PROVE  CompareRun(c)'
<1>1. ok'
  BY DEF Begins
<1>2. CASE Verifies(c)
  <2>1. ToSet(todo') = StepsOn("verify", c)
    BY <1>2, ListPlan DEF Begins
  <2>2. \A p \in ToSet(PagesOf(c)) : Step("verify", c.block, p) \in ToSet(todo')
    BY <2>1 DEF StepsOn
  <2> QED  BY <1>1, <2>1, <2>2 DEF CompareRun, Left
<1>3. CASE Programs(c)
  <2>1. ~Verifies(c)
    BY <1>3 DEF Programs, Verifies
  <2>2. ASSUME Compare(c), NEW p \in ToSet(PagesOf(c))  PROVE Step("verify", c.block, p) \in ToSet(todo')
    <3>1. c.verify
      BY <2>1, <2>2 DEF Compare
    <3>2. StepsOn("verify", c) \subseteq ToSet(todo')
      BY <1>3, <3>1, ProgramPlan DEF Begins
    <3> QED  BY <2>2, <3>2 DEF StepsOn
  <2> QED  BY <1>1, <2>1, <2>2 DEF CompareRun, Left
<1> QED  BY <1>2, <1>3

LEMMA ProgramBegins ==
  ASSUME NEW c \in Commands, Programs(c), ~Refused(c), Begins(c)
  PROVE  ProgramRun(c)'
<1>1. /\ todo' \in Seq(Steps)
      /\ Left' = StepsOn("program", c) \cup {StatusStep} \cup (IF c.verify THEN StepsOn("verify", c) ELSE {})
      /\ Len(todo') > Len(PagesOf(c))
      /\ \A i \in 1..Len(todo') : todo'[i].do = IF i <= Len(PagesOf(c)) THEN "program" ELSE
                                    IF i = Len(PagesOf(c)) + 1 THEN "status" ELSE "verify"
  BY ProgramPlan DEF Begins, Left
<1>2. c.verify \in BOOLEAN /\ c.block \in Int
  BY GivenTypes
<1>3. Len(PagesOf(c)) \in Nat /\ Len(PagesOf(c)) >= 1 /\ Len(todo') \in Nat
  BY <1>1, ListTypes, LenProperties DEF OnList
<1>4. /\ Left' \subseteq StepsOn("program", c) \cup {StatusStep} \cup StepsOn("verify", c)
      /\ StatusStep \in Left'
      /\ \A p \in ToSet(PagesOf(c)) : Step("program", c.block, p) \in Left'
  BY <1>1 DEF StepsOn
<1>5. ~c.verify => Left' \cap StepsOn("verify", c) = {}
  <2> SUFFICES ASSUME ~c.verify, NEW p \in ToSet(PagesOf(c)), Step("verify", c.block, p) \in Left'
               PROVE  FALSE
    BY DEF StepsOn
  <2>1. Step("verify", c.block, p).do = "verify" /\ StatusStep.do = "status"
    BY StepFields DEF StatusStep
  <2>2. \A x \in StepsOn("program", c) : x.do = "program"
    BY StepFields DEF StepsOn
  <2> QED  BY <1>1, <2>1, <2>2
<1>6. InOrder'
  <2>1. ASSUME NEW i \in 1..Len(todo'), NEW j \in 1..Len(todo'), i < j
        PROVE  /\ todo'[j].do = "program" => todo'[i].do = "program"
               /\ todo'[j].do = "status" => todo'[i].do = "program"
    BY <1>1, <1>3, <2>1
  <2> QED  BY <2>1 DEF InOrder
<1>7. data' \in Buffers(c)
  BY DEF Begins
<1>8. \A p \in Pages : cells'[c.block][p] = before'[c.block][p]
  BY DEF Begins
<1>9. todo' # <<>> /\ todo'[1].do = "program"
  <2>1. 1 \in 1..Len(todo')
    BY <1>1, <1>3
  <2> QED  BY <1>1, <1>3, <2>1, EmptySeq
<1> QED  BY <1>4, <1>5, <1>6, <1>7, <1>8, <1>9 DEF ProgramRun

LEMMA RunBegins ==
  ASSUME NEW c \in Commands, ~Refused(c), Begins(c)
  PROVE  RunInv(c)' /\ todo' \in Seq(Steps)
<1>1. todo' \in Plans(c)
  BY DEF Begins
<1>2. RunInv(c)'
  BY EraseBegins, ProgramBegins, CompareBegins, ReadBegins, ScanBegins DEF RunInv
<1>3. c.op \in Operations
  BY GivenTypes
<1>4. ErasesBlocks(c) \/ ScansMarks(c) \/ Programs(c) \/ Verifies(c) \/ Reads(c)
  BY <1>3 DEF Operations, PageCommands, ErasesBlocks, ScansMarks, Programs, Verifies, Reads
<1>5. todo' \in Seq(Steps)
  BY <1>1, <1>4, ErasePlan, ScanPlan, ProgramPlan, ListPlan
<1> QED  BY <1>2, <1>5

-----------------------------------------------------------------------------
(* The steps of the erase commands. *)

Runs(c) == cmd = {c} /\ ~Refused(c) /\ TypesOK /\ Running

EraseDone(c) == 2 * Count(c) - Len(todo)

LEMMA EraseTypes ==
  ASSUME NEW c \in Commands, ErasesBlocks(c), ~Refused(c)
  PROVE  /\ First(c) \in Int /\ Count(c) \in Nat \ {0} /\ NumBlocks \in Nat
         /\ \A b \in Int : First(c) <= b /\ b < First(c) + Count(c) <=> b \in EraseBlocks(c)
         /\ EraseBlocks(c) \subseteq Blocks
<1>1. c.block \in Int /\ c.start \in Int /\ c.count \in Int /\ NumBlocks \in Nat
  BY GivenTypes
<1>2. CASE c.op = "erase-block"
  <2>1. c.block \in Blocks
    BY <1>2 DEF Refused
  <2>2. First(c) = c.block /\ Count(c) = 1 /\ EraseBlocks(c) = {c.block}
    BY <1>2 DEF First, Count, EraseBlocks
  <2> QED  BY <1>1, <2>1, <2>2
<1>3. CASE c.op = "erase-chip"
  <2>1. c.start \in Blocks /\ ~(c.count <= 0)
    BY <1>3 DEF Refused
  <2>2. /\ First(c) = c.start /\ Count(c) = EraseCount(c)
        /\ EraseBlocks(c) = {b \in Blocks : c.start <= b /\ b < c.start + c.count}
    BY <1>3 DEF First, Count, EraseBlocks
  <2>3. c.start \in Int /\ c.start >= 0 /\ NumBlocks - c.start > 0
    BY <1>1, <2>1 DEF Blocks
  <2>4. Count(c) = IF c.count <= NumBlocks - c.start THEN c.count ELSE NumBlocks - c.start
    BY <1>1, <2>2, <2>3, MinOfTwo DEF EraseCount
  <2>5. \A b \in Int : First(c) <= b /\ b < First(c) + Count(c) <=> b \in EraseBlocks(c)
    BY <1>1, <2>1, <2>2, <2>3, <2>4 DEF Blocks
  <2> QED  BY <1>1, <2>1, <2>2, <2>3, <2>4, <2>5
<1> QED  BY <1>2, <1>3 DEF ErasesBlocks

LEMMA EraseAt ==
  ASSUME NEW c \in Commands, ErasesBlocks(c), Runs(c), EraseRun(c), todo # <<>>
  PROVE  \E k \in Nat :
           /\ k < Count(c) /\ First(c) + k \in EraseBlocks(c)
           /\ \A b \in Blocks : First(c) <= b /\ b < First(c) + k => Cleared(b)
           /\ \/ /\ todo[1] = Step("erase", First(c) + k, 0) /\ EraseDone(c) = 2 * k
                 /\ failed = {} /\ \A b \in Blocks : b >= First(c) + k => cells[b] = before[b]
              \/ /\ todo[1] = StatusStep /\ EraseDone(c) = 2 * k + 1
                 /\ IF fail THEN ~protected /\ failed = {<<First(c) + k, 0>>}
                    ELSE failed = {} /\ Cleared(First(c) + k)
                 /\ \A b \in Blocks : b >= First(c) + k + 1 => cells[b] = before[b]
<1> DEFINE d == EraseDone(c)
<1>1. Len(todo) \in Nat /\ Len(todo) >= 1
  BY EmptySeq DEF Runs, TypesOK
<1>2. Count(c) \in Nat \ {0} /\ First(c) \in Int
  BY EraseTypes DEF Runs
<1>3. d \in 0..(2 * Count(c)) /\ todo[1] = EraseStep(c, d + 1)
  BY <1>1, <1>2 DEF EraseRun, EraseDone
<1>4. d < 2 * Count(c)
  BY <1>1, <1>2 DEF EraseDone
<1>5. /\ d % 2 = 0 => failed = {}
      /\ d % 2 = 1 => IF fail THEN ~protected /\ failed = {<<First(c) + (d \div 2), 0>>}
                      ELSE failed = {} /\ Cleared(First(c) + (d \div 2))
      /\ \A b \in Blocks : First(c) <= b /\ b < First(c) + (d \div 2) => Cleared(b)
      /\ \A b \in Blocks : b >= First(c) + ((d + 1) \div 2) => cells[b] = before[b]
  BY DEF EraseRun, EraseDone
<1> HIDE DEF d
<1> DEFINE k == d \div 2
<1>6. k \in Nat /\ k < Count(c) /\ (d = 2 * k \/ d = 2 * k + 1)
  BY <1>2, <1>3, <1>4
<1>7. First(c) + k \in EraseBlocks(c)
  BY <1>2, <1>6, EraseTypes DEF Runs
<1>8. CASE d = 2 * k
  <2>1. (d + 1) % 2 = 1 /\ (d + 1) \div 2 = k /\ d % 2 = 0
    BY <1>6, <1>8
  <2>2. todo[1] = Step("erase", First(c) + k, 0)
    BY <1>3, <2>1 DEF EraseStep
  <2>3. failed = {} /\ \A b \in Blocks : b >= First(c) + k => cells[b] = before[b]
    BY <1>5, <2>1
  <2> QED  BY <1>5, <1>6, <1>7, <1>8, <2>2, <2>3 DEF d
<1>9. CASE d = 2 * k + 1
  <2>1. (d + 1) % 2 = 0 /\ (d + 1) \div 2 = k + 1 /\ d % 2 = 1 /\ First(c) + (k + 1) = First(c) + k + 1
    BY SMTT(30), <1>2, <1>6, <1>9
  <2>2. todo[1] = StatusStep
    BY <1>3, <2>1 DEF EraseStep
  <2>3. /\ IF fail THEN ~protected /\ failed = {<<First(c) + k, 0>>}
           ELSE failed = {} /\ Cleared(First(c) + k)
        /\ \A b \in Blocks : b >= First(c) + k + 1 => cells[b] = before[b]
    BY <1>5, <2>1
  <2> QED  BY <1>5, <1>6, <1>7, <1>9, <2>2, <2>3 DEF d
<1> QED  BY <1>6, <1>8, <1>9

(* Taking a step leaves the plan a step further. *)
LEMMA EraseLeft ==
  ASSUME NEW c \in Commands, ErasesBlocks(c), Runs(c), EraseRun(c), todo # <<>>, todo' = Tail(todo)
  PROVE  /\ EraseDone(c)' = EraseDone(c) + 1 /\ EraseDone(c) \in Nat /\ EraseDone(c) < 2 * Count(c)
         /\ \A i \in 1..Len(todo') : todo'[i] = EraseStep(c, EraseDone(c)' + i)
<1>1. /\ Len(todo) \in Nat /\ Len(todo) >= 1 /\ Len(todo') = Len(todo) - 1
      /\ \A i \in 1..Len(todo') : todo'[i] = todo[i + 1]
  BY TakeStep DEF Runs, TypesOK
<1>2. Count(c) \in Nat \ {0}
  BY EraseTypes DEF Runs
<1>3. /\ EraseDone(c) \in 0..(2 * Count(c))
      /\ \A i \in 1..Len(todo) : todo[i] = EraseStep(c, EraseDone(c) + i)
  BY DEF EraseRun, EraseDone
<1>4. EraseDone(c) = 2 * Count(c) - Len(todo) /\ EraseDone(c)' = 2 * Count(c) - Len(todo')
  BY DEF EraseDone
<1>5. EraseDone(c)' = EraseDone(c) + 1 /\ EraseDone(c) < 2 * Count(c)
  BY <1>1, <1>2, <1>4
<1>6. ASSUME NEW i \in 1..Len(todo')  PROVE todo'[i] = EraseStep(c, EraseDone(c)' + i)
  <2>1. i + 1 \in 1..Len(todo) /\ EraseDone(c) + (i + 1) = EraseDone(c)' + i
    BY <1>1, <1>3, <1>5
  <2> QED  BY <1>1, <1>3, <2>1
<1> QED  BY <1>3, <1>5, <1>6

LEMMA EraseErases ==
  ASSUME NEW c \in Commands, ErasesBlocks(c), Runs(c), EraseRun(c), EraseBlock
  PROVE  EraseRun(c)'
<1>1. todo # <<>> /\ todo' = Tail(todo) /\ At.do = "erase" /\ At = todo[1]
  BY TakeStep DEF EraseBlock, Doing, NextStep, Runs, TypesOK, At
<1>2. PICK k \in Nat :
        /\ k < Count(c) /\ First(c) + k \in EraseBlocks(c)
        /\ \A b \in Blocks : First(c) <= b /\ b < First(c) + k => Cleared(b)
        /\ todo[1] = Step("erase", First(c) + k, 0) /\ EraseDone(c) = 2 * k
        /\ failed = {} /\ \A b \in Blocks : b >= First(c) + k => cells[b] = before[b]
  <2>1. StatusStep.do = "status"
    BY StepFields DEF StatusStep
  <2> QED  BY <1>1, <2>1, EraseAt
<1> DEFINE f == First(c) + k
           d == EraseDone(c)'
<1>3. /\ d = 2 * k + 1 /\ \A i \in 1..Len(todo') : todo'[i] = EraseStep(c, d + i)
  BY <1>1, <1>2, EraseLeft
<1>4. First(c) \in Int /\ Count(c) \in Nat \ {0} /\ f \in Blocks /\ f \in Int /\ NumBlocks \in Nat
  BY <1>2, EraseTypes DEF Runs
<1>5. At.block = f
  BY <1>1, <1>2, StepFields
<1>6. /\ cells \in [Blocks -> [Pages -> Cells]]
      /\ \/ protected /\ fail' = FALSE /\ failed' = {} /\ cells' = cells
         \/ /\ fail' = FALSE /\ failed' = {} /\ cells' = [cells EXCEPT ![f] = [p \in Pages |-> Erased]]
         \/ /\ ~protected /\ fail' = TRUE /\ failed' = {<<f, 0>>}
            /\ cells' \in {cells, [cells EXCEPT ![f] = [p \in Pages |-> Erased]]}
      /\ ok' = ok /\ before' = before /\ protected' = protected
  BY <1>2, <1>5 DEF EraseBlock, Outcome, NextStep, Runs, TypesOK
<1> HIDE DEF f, d
<1>7. \A b \in Blocks : b # f => cells'[b] = cells[b]
  BY <1>6
<1>8. IF fail' THEN ~protected' /\ failed' = {<<f, 0>>} ELSE failed' = {} /\ Cleared(f)'
  BY <1>4, <1>6 DEF Cleared
<1>9. \A b \in Blocks : First(c) <= b /\ b < f => Cleared(b)'
  <2> SUFFICES ASSUME NEW b \in Blocks, First(c) <= b, b < f  PROVE Cleared(b)'
    OBVIOUS
  <2>1. Cleared(b) /\ b # f
    BY <1>2, <1>4 DEF Blocks, f
  <2> QED  BY <1>6, <1>7, <2>1 DEF Cleared
<1>10. \A b \in Blocks : b >= f + 1 => cells'[b] = before'[b]
  <2> SUFFICES ASSUME NEW b \in Blocks, b >= f + 1  PROVE cells'[b] = before'[b]
    OBVIOUS
  <2>1. cells[b] = before[b] /\ b # f
    BY <1>2, <1>4 DEF Blocks, f
  <2> QED  BY <1>6, <1>7, <2>1
<1>11. d \in 0..(2 * Count(c)) /\ d % 2 = 1 /\ d % 2 # 0 /\ d \div 2 = k /\ (d + 1) \div 2 = k + 1
  BY <1>2, <1>3, <1>4
<1>12. f = First(c) + k /\ f + 1 = First(c) + (k + 1)
  BY <1>4 DEF f
<1>13. ok'
  BY <1>6 DEF EraseRun
<1>14. d = 2 * Count(c) - Len(todo')
  BY DEF d, EraseDone
<1>15. \A b \in Blocks : First(c) <= b /\ b < First(c) + (d \div 2) => Cleared(b)'
  BY <1>9, <1>11, <1>12
<1>16. \A b \in Blocks : b >= First(c) + ((d + 1) \div 2) => cells'[b] = before'[b]
  BY <1>10, <1>11, <1>12
<1>17. IF fail' THEN ~protected' /\ failed' = {<<First(c) + (d \div 2), 0>>}
       ELSE failed' = {} /\ (protected' \/ \A p \in Pages : cells'[First(c) + (d \div 2)][p] = Erased)
  <2>1. First(c) + (d \div 2) = f
    BY <1>11, <1>12
  <2> QED  BY <1>8, <2>1 DEF Cleared
<1>18. \A b \in Blocks : First(c) <= b /\ b < First(c) + (d \div 2)
         => protected' \/ \A p \in Pages : cells'[b][p] = Erased
  BY <1>15 DEF Cleared
<1>19. d \in 0..(2 * Count(c)) /\ ok' /\ (d % 2 # 0)
  BY <1>11, <1>13
<1> QED  BY <1>3, <1>14, <1>16, <1>17, <1>18, <1>19 DEF EraseRun, Cleared

LEMMA EraseAnswered ==
  ASSUME NEW c \in Commands, ErasesBlocks(c), Runs(c), EraseRun(c), CheckStatus, ~fail
  PROVE  EraseRun(c)'
<1>1. todo # <<>> /\ todo' = Tail(todo) /\ At.do = "status" /\ At = todo[1]
  BY TakeStep DEF CheckStatus, Doing, Runs, TypesOK, At
<1>2. PICK k \in Nat :
        /\ k < Count(c) /\ First(c) + k \in EraseBlocks(c)
        /\ \A b \in Blocks : First(c) <= b /\ b < First(c) + k => Cleared(b)
        /\ EraseDone(c) = 2 * k + 1 /\ failed = {} /\ Cleared(First(c) + k)
        /\ \A b \in Blocks : b >= First(c) + k + 1 => cells[b] = before[b]
  <2>1. \A b : Step("erase", b, 0).do = "erase"
    BY StepFields
  <2> QED  BY <1>1, <2>1, EraseAt
<1> DEFINE d == EraseDone(c)'
<1>3. /\ d = 2 * k + 2 /\ \A i \in 1..Len(todo') : todo'[i] = EraseStep(c, d + i)
  BY SMTT(30), <1>1, <1>2, EraseLeft
<1>4. First(c) \in Int /\ Count(c) \in Nat \ {0}
  BY EraseTypes DEF Runs
<1>5. UNCHANGED <<cells, fail, protected, ok, failed, before>>
  BY DEF CheckStatus
<1> HIDE DEF d
<1>6. /\ d \in 0..(2 * Count(c)) /\ d % 2 = 0 /\ d % 2 # 1 /\ d \div 2 = k + 1 /\ (d + 1) \div 2 = k + 1
      /\ First(c) + (k + 1) = First(c) + k + 1
  BY <1>2, <1>3, <1>4
<1>7. \A b \in Blocks : First(c) <= b /\ b < First(c) + (d \div 2) => Cleared(b)'
  <2> SUFFICES ASSUME NEW b \in Blocks, First(c) <= b, b < First(c) + (k + 1)  PROVE Cleared(b)'
    BY <1>6
  <2>1. b < First(c) + k \/ b = First(c) + k
    BY <1>4, GivenTypes DEF Blocks
  <2>2. Cleared(b)
    BY <1>2, <2>1
  <2> QED  BY <1>5, <2>2 DEF Cleared
<1>8. \A b \in Blocks : b >= First(c) + ((d + 1) \div 2) => cells'[b] = before'[b]
  BY <1>2, <1>5, <1>6
<1>9. ok' /\ failed' = {}
  BY <1>2, <1>5 DEF EraseRun
<1>10. d = 2 * Count(c) - Len(todo')
  BY DEF d, EraseDone
<1> QED  BY <1>3, <1>6, <1>7, <1>8, <1>9, <1>10 DEF EraseRun

(* A status that fails ends the command there: the blocks before it are erased,
   those behind it as they were. *)
LEMMA EraseFails ==
  ASSUME NEW c \in Commands, ErasesBlocks(c), Runs(c), EraseRun(c), CheckStatus, fail
  PROVE  /\ failed # {}
         /\ \E b \in EraseBlocks(c) :
              /\ failed = {<<b, 0>>}
              /\ \A other \in EraseBlocks(c) \ {b} :
                   IF other < b THEN \A p \in Pages : cells[other][p] = Erased
                                ELSE cells[other] = before[other]
<1>1. todo # <<>> /\ At.do = "status" /\ At = todo[1]
  <2>1. todo # <<>> /\ Head(todo) = todo[1] /\ At.do = "status"
    BY EmptySeq DEF CheckStatus, Doing, Runs, TypesOK, At
  <2> QED  BY <2>1 DEF At
<1>2. PICK k \in Nat :
        /\ k < Count(c) /\ First(c) + k \in EraseBlocks(c)
        /\ \A b \in Blocks : First(c) <= b /\ b < First(c) + k => Cleared(b)
        /\ ~protected /\ failed = {<<First(c) + k, 0>>}
        /\ \A b \in Blocks : b >= First(c) + k + 1 => cells[b] = before[b]
  <2>1. \A b : Step("erase", b, 0).do = "erase"
    BY StepFields
  <2> QED  BY <1>1, <2>1, EraseAt
<1>3. First(c) \in Int /\ EraseBlocks(c) \subseteq Blocks /\ Blocks \subseteq Int
  BY EraseTypes, GivenTypes DEF Runs, Blocks
<1>4. ASSUME NEW other \in EraseBlocks(c) \ {First(c) + k}
      PROVE  IF other < First(c) + k THEN \A p \in Pages : cells[other][p] = Erased
                                     ELSE cells[other] = before[other]
  <2>1. other \in Int /\ other \in Blocks /\ First(c) <= other /\ other # First(c) + k
    BY <1>3, EraseTypes DEF Runs
  <2>2. other < First(c) + k \/ other >= First(c) + k + 1
    BY <1>3, <2>1
  <2> QED  BY <1>2, <2>1, <2>2 DEF Cleared
<1> QED  BY <1>2, <1>4

LEMMA EraseEnds ==
  ASSUME NEW c \in Commands, ErasesBlocks(c), Runs(c), EraseRun(c), todo = <<>>
  PROVE  ok /\ \A b \in EraseBlocks(c) : Cleared(b)
<1>1. 2 * Count(c) - Len(todo) = 2 * Count(c) /\ Count(c) \in Nat
  BY EraseTypes, EmptySeq DEF Runs
<1>2. /\ ok /\ \A b \in Blocks : First(c) <= b /\ b < First(c) + ((2 * Count(c)) \div 2) => Cleared(b)
  BY <1>1 DEF EraseRun
<1>3. (2 * Count(c)) \div 2 = Count(c)
  BY <1>1
<1>4. ASSUME NEW b \in EraseBlocks(c)  PROVE Cleared(b)
  <2>1. b \in Blocks /\ b \in Int
    BY EraseTypes, GivenTypes DEF Runs, Blocks
  <2>2. First(c) <= b /\ b < First(c) + Count(c)
    BY <2>1, EraseTypes DEF Runs
  <2> QED  BY <1>2, <1>3, <2>1, <2>2
<1> QED  BY <1>2, <1>4

-----------------------------------------------------------------------------
(* The steps of the read and the scan commands. *)

LEMMA ReadsOne ==
  ASSUME NEW c \in Commands, Reads(c), Runs(c), ReadRun(c), todo # <<>>
  PROVE  LET d == Len(PagesOf(c)) - Len(todo)
         IN  d \in Nat /\ d + 1 \in 1..Len(PagesOf(c)) /\ todo[1] = Step("read", c.block, PagesOf(c)[d + 1])
<1>1. Len(todo) \in Nat /\ Len(todo) >= 1
  BY EmptySeq DEF Runs, TypesOK
<1>2. Len(PagesOf(c)) \in Nat
  BY ListTypes DEF Runs, OnList
<1> QED  BY <1>1, <1>2 DEF ReadRun

LEMMA CellIs ==
  ASSUME NEW c \in Commands, TypesOK, NEW b \in Blocks, NEW p \in Pages
  PROVE  LET r == SubSeq(cells[b][p], 1, Total(c))
         IN  /\ cells[b][p] \in Cells /\ Total(c) \in 1..2
             /\ r \in Seq(Int) /\ Len(r) = Total(c) /\ \A k \in 1..Total(c) : r[k] = cells[b][p][k]
<1>1. Total(c) \in 1..2
  BY DEF Total
<1>2. cells[b][p] \in Cells
  BY DEF TypesOK
<1>3. \A k \in 1..Total(c) : cells[b][p][k] \in Int
  BY <1>1, <1>2 DEF Cells, Bytes
<1> DEFINE r == SubSeq(cells[b][p], 1, Total(c))
<1>4. /\ r \in Seq(Int) /\ Len(r) = IF 1 <= Total(c) THEN Total(c) - 1 + 1 ELSE 0
      /\ \A i \in 1..(Total(c) - 1 + 1) : r[i] = cells[b][p][1 + i - 1]
  <2>1. Total(c) \in Int /\ 1 \in Int
    BY <1>1
  <2> QED  BY <1>3, <2>1, SubSeqProperties
<1> HIDE DEF r
<1>5. /\ Len(r) = Total(c) /\ \A k \in 1..Total(c) : r[k] = cells[b][p][k]
  <2>1. Total(c) - 1 + 1 = Total(c) /\ 1 <= Total(c) /\ \A k \in 1..Total(c) : 1 + k - 1 = k
    BY <1>1
  <2> QED  BY <1>4, <2>1
<1> QED  BY <1>1, <1>2, <1>4, <1>5 DEF r

LEMMA ReadContinues ==
  ASSUME NEW c \in Commands, Reads(c), Runs(c), ReadRun(c), ReadPage
  PROVE  ReadRun(c)'
<1> DEFINE n == Len(PagesOf(c))
           d == n - Len(todo)
           w == Total(c)
           st == Stride(c)
           r == SubSeq(cells[c.block][PagesOf(c)[d + 1]], 1, w)
           nl == IF c.op = "read-block" THEN <<10>> ELSE <<>>
<1>1. todo # <<>> /\ todo' = Tail(todo)
  BY DEF ReadPage, Doing, NextStep
<1>2. /\ todo \in Seq(Steps) /\ Len(todo) \in Nat /\ Len(todo) >= 1 /\ Len(todo') = Len(todo) - 1
      /\ \A i \in 1..Len(todo') : todo'[i] = todo[i + 1]
      /\ Head(todo) = todo[1]
  BY <1>1, TakeStep DEF Runs, TypesOK
<1>3. d \in Nat /\ d + 1 \in 1..n /\ n \in Nat /\ todo[1] = Step("read", c.block, PagesOf(c)[d + 1])
  BY <1>1, ReadsOne, ListTypes DEF Runs, OnList
<1>4. n - Len(todo') = d + 1
  BY <1>2, <1>3
<1>5. The = c /\ At.block = c.block /\ At.page = PagesOf(c)[d + 1]
  <2>1. The = c /\ At = todo[1]
    BY <1>2, TheIs DEF Runs, At
  <2> HIDE DEF d
  <2> QED  BY <1>3, <2>1, StepFields
<1>6. PagesOf(c)[d + 1] \in Pages /\ c.block \in Blocks
  BY <1>3, ListTypes DEF Runs, OnList
<1>7. /\ w \in 1..2 /\ r \in Seq(Int) /\ Len(r) = w
      /\ \A k \in 1..w : r[k] = cells[c.block][PagesOf(c)[d + 1]][k]
  BY <1>6, CellIs DEF Runs
<1>8. out' = IF c.file = "bad" THEN out ELSE (out \o r) \o nl
  BY <1>5 DEF ReadPage, Lost, Newline, Read
<1>9. nl \in Seq(Int) /\ Len(nl) \in 0..1 /\ st = w + Len(nl)
  <2>1. <<10>> \in Seq(Int) /\ Len(<<10>>) = 1
    OBVIOUS
  <2> QED  BY <2>1, EmptySeq DEF Stride
<1>10. cells' = cells /\ ok' = ok /\ ok
  BY DEF ReadPage, ReadRun
<1> HIDE DEF r, nl, st, w, n
<1>11. \A i \in 1..Len(todo') : todo'[i] = Step("read", c.block, PagesOf(c)[(n - Len(todo')) + i])
  <2> SUFFICES ASSUME NEW i \in 1..Len(todo')
               PROVE  todo'[i] = Step("read", c.block, PagesOf(c)[(n - Len(todo')) + i])
    OBVIOUS
  <2>1. i + 1 \in 1..Len(todo) /\ d + (i + 1) = (n - Len(todo')) + i
    BY <1>2, <1>3
  <2>2. todo[i + 1] = Step("read", c.block, PagesOf(c)[d + (i + 1)])
    BY <2>1 DEF ReadRun, n
  <2> QED  BY <1>2, <2>1, <2>2
<1>12. ASSUME c.file # "bad"
       PROVE  /\ out' \in Seq(Int) /\ Len(out') = st * (d + 1)
              /\ \A i \in 1..(d + 1) : \A k \in 1..w :
                   out'[(i - 1) * st + k] = cells'[c.block][PagesOf(c)[i]][k]
  <2>1. /\ out \in Seq(Int) /\ Len(out) = st * d
        /\ \A i \in 1..d : \A k \in 1..w : out[(i - 1) * st + k] = cells[c.block][PagesOf(c)[i]][k]
    BY <1>12 DEF ReadRun, n, w, st
  <2>2. st \in 1..3 /\ w <= st
    <3>1. w \in Int /\ (w = 1 \/ w = 2) /\ (Len(nl) = 0 \/ Len(nl) = 1)
      BY <1>7, <1>9
    <3>2. st = w + Len(nl)
      BY <1>9
    <3>3. st = 1 \/ st = 2 \/ st = 3
      <4>1. CASE w = 1 /\ Len(nl) = 0
        BY <3>2, <4>1
      <4>2. CASE w = 1 /\ Len(nl) = 1
        BY <3>2, <4>2
      <4>3. CASE w = 2 /\ Len(nl) = 0
        BY <3>2, <4>3
      <4>4. CASE w = 2 /\ Len(nl) = 1
        BY <3>2, <4>4
      <4> QED  BY <3>1, <4>1, <4>2, <4>3, <4>4
    <3>4. w <= st
      <4>1. CASE Len(nl) = 0
        BY <3>1, <3>2, <4>1
      <4>2. CASE Len(nl) = 1
        BY <3>1, <3>2, <4>2
      <4> QED  BY <3>1, <4>1, <4>2
    <3> QED  BY <3>3, <3>4
  <2> DEFINE o == out \o r
  <2>3. /\ o \in Seq(Int) /\ Len(o) = Len(out) + w
        /\ \A i \in 1..(Len(out) + w) : o[i] = IF i <= Len(out) THEN out[i] ELSE r[i - Len(out)]
    BY <1>7, <2>1, ConcatProperties
  <2>4. out' = o \o nl
    BY <1>8, <1>12
  <2> HIDE DEF o
  <2>5. /\ out' \in Seq(Int) /\ Len(out') = Len(o) + Len(nl)
        /\ \A i \in 1..(Len(o) + Len(nl)) : out'[i] = IF i <= Len(o) THEN o[i] ELSE nl[i - Len(o)]
    BY <1>9, <2>3, <2>4, ConcatProperties
  <2>6. Len(out) \in Nat
    BY <2>1, LenProperties
  <2>7. Len(out') = st * (d + 1)
    <3>1. Len(out') = st * d + st
      BY <1>7, <1>9, <2>1, <2>3, <2>5, <2>6
    <3>2. st = 1 \/ st = 2 \/ st = 3
      BY <2>2
    <3>3. st * d + st = st * (d + 1)
      BY <1>3, <3>2
    <3> QED  BY <3>1, <3>3
  <2>8. ASSUME NEW i \in 1..(d + 1), NEW k \in 1..w
        PROVE  out'[(i - 1) * st + k] = cells'[c.block][PagesOf(c)[i]][k]
    <3> DEFINE j == (i - 1) * st + k
    <3>1. CASE i \in 1..d
      <4>1. j \in 1..(st * d)
        <5>1. CASE st = 1
          BY <1>3, <1>7, <2>2, <3>1, <5>1
        <5>2. CASE st = 2
          BY <1>3, <1>7, <2>2, <3>1, <5>2
        <5>3. CASE st = 3
          BY <1>3, <1>7, <2>2, <3>1, <5>3
        <5> QED  BY <2>2, <5>1, <5>2, <5>3
      <4>2. out[j] = cells[c.block][PagesOf(c)[i]][k]
        BY <2>1, <3>1
      <4> HIDE DEF j
      <4>3. j \in 1..(Len(out) + w) /\ j <= Len(out) /\ j \in 1..(Len(o) + Len(nl)) /\ j <= Len(o)
        <5>1. Len(nl) \in Nat /\ w \in Nat /\ j \in Int /\ 1 <= j /\ j <= Len(out)
          BY <1>7, <1>9, <2>1, <2>6, <4>1
        <5>2. j <= Len(out) + w /\ j <= Len(o) + Len(nl) /\ j <= Len(o)
          BY <2>3, <2>6, <5>1
        <5> QED  BY <2>3, <2>6, <5>1, <5>2
      <4>4. out'[j] = out[j]
        BY <2>3, <2>5, <4>3
      <4> QED  BY <1>10, <4>2, <4>4 DEF j
    <3>2. CASE i = d + 1
      <4>1. j = Len(out) + k
        <5>1. CASE st = 1
          BY <1>3, <1>7, <2>1, <3>2, <5>1
        <5>2. CASE st = 2
          BY <1>3, <1>7, <2>1, <3>2, <5>2
        <5>3. CASE st = 3
          BY <1>3, <1>7, <2>1, <3>2, <5>3
        <5> QED  BY <2>2, <5>1, <5>2, <5>3
      <4> HIDE DEF j
      <4>2. /\ j \in 1..(Len(out) + w) /\ ~(j <= Len(out)) /\ j \in 1..(Len(o) + Len(nl)) /\ j <= Len(o)
            /\ j - Len(out) = k
        <5>1. Len(nl) \in Nat /\ w \in Nat /\ k \in Nat /\ 1 <= k /\ k <= w
          BY <1>7, <1>9
        <5>2. /\ j \in Int /\ 1 <= j /\ j <= Len(out) + w /\ ~(j <= Len(out)) /\ j - Len(out) = k
          BY <2>6, <4>1, <5>1
        <5>3. j <= Len(o) /\ j <= Len(o) + Len(nl) /\ Len(o) + Len(nl) \in Nat
          BY <2>3, <2>6, <5>1, <5>2
        <5> QED  BY <2>6, <5>1, <5>2, <5>3
      <4>3. out'[j] = r[k]
        BY <2>3, <2>5, <4>2
      <4> QED  BY <1>7, <1>10, <3>2, <4>3 DEF j
    <3> QED  BY <1>3, <3>1, <3>2
  <2> QED  BY <2>5, <2>7, <2>8
<1>13. d + 1 \in 0..n
  BY <1>3
<1>14. ok'
  BY <1>10
<1> HIDE DEF d
<1> QED  BY <1>4, <1>11, <1>12, <1>13, <1>14 DEF ReadRun, n, w, st

LEMMA ReadEnds ==
  ASSUME NEW c \in Commands, Reads(c), Runs(c), ReadRun(c), todo = <<>>
  PROVE  /\ ok
         /\ c.file # "bad" =>
              /\ Len(out) = Stride(c) * Len(PagesOf(c))
              /\ \A i \in 1..Len(PagesOf(c)) : \A k \in 1..Total(c) :
                   out[(i - 1) * Stride(c) + k] = cells[c.block][PagesOf(c)[i]][k]
<1>1. Len(PagesOf(c)) \in Nat /\ Len(todo) = 0
  BY ListTypes, EmptySeq DEF Runs, OnList
<1>2. Len(PagesOf(c)) - Len(todo) = Len(PagesOf(c))
  BY <1>1
<1> QED  BY <1>2 DEF ReadRun

LEMMA AppendSet ==
  ASSUME NEW s \in Seq(Int), NEW x \in Int
  PROVE  /\ Append(s, x) \in Seq(Int) /\ Append(s, x) # <<>>
         /\ ToSet(Append(s, x)) = ToSet(s) \cup {x}
<1> DEFINE a == Append(s, x)
<1>1. /\ a \in Seq(Int) /\ Len(a) = Len(s) + 1 /\ a[Len(s) + 1] = x
      /\ \A i \in 1..Len(s) : a[i] = s[i]
      /\ Len(s) \in Nat /\ DOMAIN s = 1..Len(s)
  BY AppendProperties, LenProperties
<1>2. DOMAIN a = 1..(Len(s) + 1)
  BY <1>1, LenProperties
<1>3. a # <<>>
  BY <1>1, EmptySeq
<1> HIDE DEF a
<1>4. ToSet(a) = ToSet(s) \cup {x}
  <2>1. ToSet(a) = {a[i] : i \in 1..(Len(s) + 1)} /\ ToSet(s) = {s[i] : i \in 1..Len(s)}
    BY <1>1, <1>2 DEF ToSet
  <2>2. \A i \in 1..(Len(s) + 1) : i \in 1..Len(s) \/ i = Len(s) + 1
    BY <1>1
  <2>3. \A i \in 1..Len(s) : i \in 1..(Len(s) + 1)
    BY <1>1
  <2>4. Len(s) + 1 \in 1..(Len(s) + 1)
    BY <1>1
  <2> QED  BY <1>1, <2>1, <2>2, <2>3, <2>4
<1> QED  BY <1>1, <1>3, <1>4 DEF a

LEMMA ScanContinues ==
  ASSUME NEW c \in Commands, ScansMarks(c), Runs(c), ScanRun(c), ScanBlock
  PROVE  ScanRun(c)'
<1>1. /\ todo # <<>> /\ todo' = Tail(todo) /\ cells' = cells
      /\ ok' = (ok /\ ~IsBad(At.block))
      /\ out' = IF IsBad(At.block) THEN Append(out, At.block) ELSE out
      /\ ok \in BOOLEAN /\ NumBlocks \in Nat
  BY GivenTypes DEF ScanBlock, Doing, NextStep, Runs, TypesOK
<1>2. /\ todo \in Seq(Steps) /\ Len(todo) \in Nat /\ Len(todo) >= 1 /\ Len(todo') = Len(todo) - 1
      /\ \A i \in 1..Len(todo') : todo'[i] = todo[i + 1]
      /\ todo' \in Seq(Steps) /\ At = todo[1]
  BY <1>1, TakeStep DEF Runs, TypesOK, At
<1>3. CASE c.op = "scan"
  <2> DEFINE m == Step("mark", c.block, 0)
  <2>1. todo = <<m>> /\ (ok \/ IsBad(c.block))
    BY <1>1, <1>3 DEF ScanRun
  <2>2. Len(<<m>>) = 1 /\ <<m>>[1] = m
    OBVIOUS
  <2>3. todo' = <<>>
    BY <1>2, <2>1, <2>2, EmptySeq
  <2>4. At.block = c.block
    BY <1>2, <2>1, <2>2, StepFields
  <2>5. ok' \/ IsBad(c.block)'
    BY <1>1, <2>1, <2>4 DEF IsBad
  <2> QED  BY <1>3, <2>3, <2>5 DEF ScanRun
<1>4. CASE c.op = "scan-all"
  <2> DEFINE d == NumBlocks - Len(todo)
  <2>1. /\ d \in 0..NumBlocks /\ out \in Seq(Int)
        /\ \A i \in 1..Len(todo) : todo[i] = Step("mark", d + i - 1, 0)
        /\ ToSet(out) = {b \in Blocks : b < d /\ IsBad(b)}
        /\ ok <=> out = <<>>
    BY <1>4 DEF ScanRun
  <2>2. NumBlocks - Len(todo') = d + 1 /\ d + 1 \in 0..NumBlocks /\ d \in Nat /\ d \in Blocks
    BY <1>1, <1>2, <2>1 DEF Blocks
  <2>3. At.block = d
    <3>1. todo[1] = Step("mark", d + 1 - 1, 0) /\ d + 1 - 1 = d
      BY <1>2, <2>1, <2>2
    <3> QED  BY <1>2, <3>1, StepFields
  <2> HIDE DEF d
  <2>4. \A i \in 1..Len(todo') : todo'[i] = Step("mark", (d + 1) + i - 1, 0)
    <3> SUFFICES ASSUME NEW i \in 1..Len(todo')  PROVE todo'[i] = Step("mark", (d + 1) + i - 1, 0)
      OBVIOUS
    <3>1. i + 1 \in 1..Len(todo) /\ d + (i + 1) - 1 = (d + 1) + i - 1
      BY <1>2, <2>2
    <3> QED  BY <1>2, <2>1, <3>1
  <2>5. out' \in Seq(Int) /\ ToSet(out') = {b \in Blocks : b < d + 1 /\ IsBad(b)} /\ (ok' <=> out' = <<>>)
    <3>1. \A b \in Blocks : b < d + 1 <=> b < d \/ b = d
      BY <1>1, <2>2 DEF Blocks
    <3>2. CASE IsBad(d)
      <4>1. out' = Append(out, d) /\ d \in Int /\ ~ok'
        <5>1. out' = Append(out, d)
          BY <1>1, <2>3, <3>2
        <5>2. ~ok'
          BY <1>1, <2>3, <3>2
        <5> QED  BY <2>2, <5>1, <5>2
      <4>2. ToSet(out') = ToSet(out) \cup {d} /\ out' \in Seq(Int) /\ out' # <<>>
        BY <2>1, <4>1, AppendSet
      <4>3. ToSet(out) \cup {d} = {b \in Blocks : b < d + 1 /\ IsBad(b)}
        BY <2>1, <2>2, <3>1, <3>2
      <4> QED  BY <4>1, <4>2, <4>3
    <3>3. CASE ~IsBad(d)
      <4>1. out' = out /\ ok' = ok
        BY <1>1, <2>3, <3>3
      <4>2. ToSet(out) = {b \in Blocks : b < d + 1 /\ IsBad(b)}
        BY <2>1, <2>2, <3>1, <3>3
      <4> QED  BY <2>1, <4>1, <4>2
    <3> QED  BY <3>2, <3>3
  <2>6. \A b \in Blocks : IsBad(b)' <=> IsBad(b)
    BY <1>1 DEF IsBad
  <2>7. ToSet(out') = {b \in Blocks : b < d + 1 /\ IsBad(b)'}
    BY <2>5, <2>6
  <2>8. NumBlocks - Len(todo') \in 0..NumBlocks
    BY <2>2
  <2> QED  BY <1>4, <2>2, <2>4, <2>5, <2>7, <2>8 DEF ScanRun
<1> QED  BY <1>3, <1>4 DEF ScansMarks

LEMMA ScanEnds ==
  ASSUME NEW c \in Commands, ScansMarks(c), Runs(c), ScanRun(c), todo = <<>>
  PROVE  /\ c.op = "scan" => ok \/ IsBad(c.block)
         /\ c.op = "scan-all" => /\ ToSet(out) = {b \in Blocks : IsBad(b)}
                                 /\ ok <=> out = <<>>
                                 /\ ok => \A b \in Blocks : ~IsBad(b)
<1>1. NumBlocks \in Nat /\ Len(todo) = 0
  BY GivenTypes, EmptySeq
<1>2. NumBlocks - Len(todo) = NumBlocks /\ \A b \in Blocks : b < NumBlocks
  BY <1>1 DEF Blocks
<1>3. ASSUME c.op = "scan-all"
      PROVE  ToSet(out) = {b \in Blocks : IsBad(b)} /\ (ok <=> out = <<>>) /\ (ok => \A b \in Blocks : ~IsBad(b))
  <2>1. ToSet(out) = {b \in Blocks : b < NumBlocks /\ IsBad(b)} /\ (ok <=> out = <<>>)
    BY <1>2, <1>3 DEF ScanRun
  <2>2. ToSet(out) = {b \in Blocks : IsBad(b)}
    BY <1>2, <2>1
  <2>3. ToSet(<<>>) = {}
    BY DEF ToSet
  <2> QED  BY <2>1, <2>2, <2>3
<1> QED  BY <1>3 DEF ScanRun

-----------------------------------------------------------------------------
(* The steps of the program and the verify commands. *)

LEMMA BufferTypes ==
  ASSUME NEW c \in Commands, Programs(c), ~Refused(c), NEW d \in Buffers(c)
  PROVE  /\ d \in Seq(Bytes) /\ Len(d) = Total(c) /\ Total(c) \in 1..2
         /\ c.op = "program-page" \/ c.input # None => d = Padded(c)
         /\ c.input = None /\ c.op # "program-page" /\ ~c.random => d[1] = 0
<1>1. Total(c) \in 1..2
  BY DEF Total
<1>2. CASE c.op = "program-page" \/ c.input # None
  <2>1. d = Padded(c) /\ c.input # None
    BY <1>2, GivenTypes DEF Buffers
  <2>2. c.input \in Seq(Bytes)
    <3>1. c.input # Unreadable
      <4>1. c.op # "erase-chip"
        BY DEF Programs
      <4> QED  BY <4>1 DEF Refused
    <3> QED  BY <2>1, <3>1, GivenTypes
  <2> DEFINE s == [i \in 1..Total(c) |-> IF i <= Len(c.input) THEN c.input[i] ELSE 2]
  <2>3. \A i \in 1..Total(c) : (IF i <= Len(c.input) THEN c.input[i] ELSE 2) \in Bytes
    <3> SUFFICES ASSUME NEW i \in 1..Total(c)
                 PROVE  (IF i <= Len(c.input) THEN c.input[i] ELSE 2) \in Bytes
      OBVIOUS
    <3>1. Len(c.input) \in Nat /\ \A j \in 1..Len(c.input) : c.input[j] \in Bytes
      BY <2>2, LenProperties, ElementOfSeq
    <3>2. i <= Len(c.input) => i \in 1..Len(c.input)
      BY <1>1, <3>1
    <3>3. 2 \in Bytes
      BY DEF Bytes
    <3> QED  BY <3>1, <3>2, <3>3
  <2>4. s \in [1..Total(c) -> Bytes] /\ Padded(c) = s
    BY <2>3 DEF Padded
  <2> HIDE DEF s
  <2>5. s \in Seq(Bytes) /\ Len(s) = Total(c)
    BY <1>1, <2>4
  <2> QED  BY <1>1, <2>1, <2>4, <2>5
<1>3. CASE ~(c.op = "program-page" \/ c.input # None)
  <2>1. PICK v \in (IF c.random THEN {0, 1} ELSE {0}) :
          d = [i \in 1..Total(c) |-> IF i = 1 THEN v ELSE 2]
    BY <1>3 DEF Buffers
  <2>2. d \in [1..Total(c) -> Bytes]
    BY <2>1 DEF Bytes
  <2>3. d \in Seq(Bytes) /\ Len(d) = Total(c)
    BY <1>1, <2>2
  <2>4. ~c.random => d[1] = 0
    BY <1>1, <2>1
  <2> QED  BY <1>1, <1>3, <2>3, <2>4
<1> QED  BY <1>2, <1>3

(* Programming the same bytes once more changes nothing. *)
LEMMA ProgrammedTwice ==
  ASSUME data \in Seq(Bytes), NEW page \in Cells
  PROVE  Programmed(page) \in Cells /\ Programmed(Programmed(page)) = Programmed(page)
<1>1. Len(data) \in Nat /\ \A i \in 1..Len(data) : data[i] \in Bytes
  BY LenProperties, ElementOfSeq
<1>2. \A i \in 1..2 : page[i] \in Bytes
  BY DEF Cells
<1>3. Bytes \subseteq Int
  BY DEF Bytes
<1>4. \A a, b \in Bytes : Min({a, b}) = IF a <= b THEN a ELSE b
  BY <1>3, MinOfTwo
<1>5. \A i \in 1..2 : i <= Len(data) => i \in 1..Len(data)
  BY <1>1
<1>6. \A i \in 1..2 : Programmed(page)[i] = IF i <= Len(data) THEN Min({page[i], data[i]}) ELSE page[i]
  BY DEF Programmed
<1>7. \A i \in 1..2 : i <= Len(data) => Min({page[i], data[i]}) \in Bytes
  <2> SUFFICES ASSUME NEW i \in 1..2, i <= Len(data)  PROVE Min({page[i], data[i]}) \in Bytes
    OBVIOUS
  <2>1. page[i] \in Bytes /\ data[i] \in Bytes
    BY <1>1, <1>2, <1>5
  <2>2. Min({page[i], data[i]}) = IF page[i] <= data[i] THEN page[i] ELSE data[i]
    BY <1>4, <2>1
  <2>3. Min({page[i], data[i]}) = page[i] \/ Min({page[i], data[i]}) = data[i]
    BY <2>2
  <2> QED  BY <2>1, <2>3
<1>8. Programmed(page) \in Cells
  BY <1>2, <1>6, <1>7 DEF Programmed, Cells
<1>9. \A i \in 1..2 : Programmed(Programmed(page))[i] =
                        IF i <= Len(data) THEN Min({Programmed(page)[i], data[i]}) ELSE Programmed(page)[i]
  BY DEF Programmed
<1>10. \A i \in 1..2 : Programmed(Programmed(page))[i] = Programmed(page)[i]
  <2> SUFFICES ASSUME NEW i \in 1..2, i <= Len(data)
               PROVE  Min({Min({page[i], data[i]}), data[i]}) = Min({page[i], data[i]})
    BY <1>6, <1>9
  <2>1. page[i] \in Bytes /\ data[i] \in Bytes /\ Min({page[i], data[i]}) \in Bytes
    BY <1>1, <1>2, <1>5, <1>7
  <2> DEFINE m == Min({page[i], data[i]})
  <2>2. m = IF page[i] <= data[i] THEN page[i] ELSE data[i]
    BY <1>4, <2>1
  <2>3. Min({m, data[i]}) = IF m <= data[i] THEN m ELSE data[i]
    BY <1>4, <2>1
  <2> HIDE DEF m
  <2>4. m \in Int /\ page[i] \in Int /\ data[i] \in Int
    BY <1>3, <2>1 DEF m
  <2>5. Min({m, data[i]}) = m
    BY <2>2, <2>3, <2>4
  <2> QED  BY <2>5 DEF m
<1>11. Programmed(Programmed(page)) \in Cells
  <2>1. \A i \in 1..2 : Programmed(Programmed(page))[i] \in Bytes
    BY <1>8, <1>10 DEF Cells
  <2> QED  BY <2>1 DEF Programmed, Cells
<1> QED  BY <1>8, <1>10, <1>11 DEF Cells

(* What the first step left can be. *)
LEMMA ProgramHead ==
  ASSUME NEW c \in Commands, Programs(c), Runs(c), ProgramRun(c), todo # <<>>
  PROVE  /\ todo[1] \in Left /\ todo[1].do \in {"program", "status", "verify"}
         /\ todo[1].do = "program" => \E p \in ToSet(PagesOf(c)) : todo[1] = Step("program", c.block, p)
         /\ todo[1].do = "status" => todo[1] = StatusStep
         /\ todo[1].do = "verify" => \E p \in ToSet(PagesOf(c)) : todo[1] = Step("verify", c.block, p)
<1>1. todo[1] \in Left
  <2>1. DOMAIN todo = 1..Len(todo) /\ 1 \in 1..Len(todo)
    BY EmptySeq, LenProperties DEF Runs, TypesOK
  <2> QED  BY <2>1 DEF Left, ToSet
<1>2. todo[1] \in StepsOn("program", c) \cup {StatusStep} \cup StepsOn("verify", c)
  BY <1>1 DEF ProgramRun
<1>3. /\ \A x \in StepsOn("program", c) : x.do = "program"
      /\ \A x \in StepsOn("verify", c) : x.do = "verify"
      /\ StatusStep.do = "status"
  BY StepFields DEF StepsOn, StatusStep
<1> QED  BY <1>1, <1>2, <1>3 DEF StepsOn

LEMMA InOrderTail ==
  ASSUME todo \in Seq(Steps), todo # <<>>, InOrder, todo' = Tail(todo)
  PROVE  InOrder'
<1>1. /\ Len(todo) \in Nat /\ Len(todo') = Len(todo) - 1
      /\ \A i \in 1..Len(todo') : todo'[i] = todo[i + 1]
  BY TakeStep
<1>2. ASSUME NEW i \in 1..Len(todo'), NEW j \in 1..Len(todo'), i < j
      PROVE  /\ todo'[j].do = "program" => todo'[i].do = "program"
             /\ todo'[j].do = "status" => todo'[i].do = "program"
  <2>1. i + 1 \in 1..Len(todo) /\ j + 1 \in 1..Len(todo) /\ i + 1 < j + 1
    BY <1>1, <1>2
  <2>2. todo'[i] = todo[i + 1] /\ todo'[j] = todo[j + 1]
    BY <1>1
  <2> QED  BY <2>1, <2>2 DEF InOrder
<1> QED  BY <1>2 DEF InOrder

(* No program and no status step is left behind a status or a verify step. *)
LEMMA InOrderHead ==
  ASSUME NEW c \in Commands, todo \in Seq(Steps), todo # <<>>, InOrder, todo[1].do # "program",
         todo' = Tail(todo)
  PROVE  StatusStep \notin Left' /\ Left' \cap StepsOn("program", c) = {}
<1>1. /\ Len(todo) \in Nat /\ Len(todo) >= 1 /\ Len(todo') = Len(todo) - 1
      /\ \A i \in 1..Len(todo') : todo'[i] = todo[i + 1]
      /\ todo' \in Seq(Steps)
  BY TakeStep
<1>2. ASSUME NEW x \in Left'  PROVE x.do # "program" /\ x.do # "status"
  <2>1. PICK i \in 1..Len(todo') : x = todo'[i]
    BY <1>1, LenProperties DEF Left, ToSet
  <2>2. i + 1 \in 1..Len(todo) /\ 1 \in 1..Len(todo) /\ 1 < i + 1 /\ x = todo[i + 1]
    BY <1>1, <2>1
  <2> QED  BY <2>2 DEF InOrder
<1>3. StatusStep.do = "status" /\ \A x \in StepsOn("program", c) : x.do = "program"
  BY StepFields DEF StepsOn, StatusStep
<1> QED  BY <1>2, <1>3

(* Steps on different pages, or of different kinds, are different. *)
LEMMA StepsDiffer ==
  /\ \A do, b, p, q : p # q => Step(do, b, p) # Step(do, b, q)
  /\ \A b, p, q : /\ Step("verify", b, p) # Step("program", b, q)
                  /\ Step("verify", b, p) # StatusStep /\ Step("program", b, p) # StatusStep
<1>1. StatusStep.do = "status"
  BY StepFields DEF StatusStep
<1>2. ASSUME NEW do, NEW b, NEW p, NEW q, Step(do, b, p) = Step(do, b, q)  PROVE p = q
  <2>1. Step(do, b, p).page = p /\ Step(do, b, q).page = q
    BY StepFields
  <2> QED  BY <1>2, <2>1
<1>3. ASSUME NEW b, NEW p, NEW q
      PROVE  /\ Step("verify", b, p) # Step("program", b, q)
             /\ Step("verify", b, p) # StatusStep /\ Step("program", b, p) # StatusStep
  <2>1. Step("verify", b, p).do = "verify" /\ Step("program", b, q).do = "program"
        /\ Step("program", b, p).do = "program"
    BY StepFields
  <2> QED  BY <1>1, <2>1
<1> QED  BY <1>2, <1>3

LEMMA ProgramPrograms ==
  ASSUME NEW c \in Commands, Programs(c), Runs(c), ProgramRun(c), CompareRun(c), ProgramPage
  PROVE  ProgramRun(c)' /\ CompareRun(c)'
<1>1. /\ todo \in Seq(Steps) /\ todo # <<>> /\ todo' = Tail(todo) /\ At.do = "program"
      /\ data' = data /\ before' = before /\ ok' = ok /\ protected' = protected /\ At = todo[1]
  BY TakeStep DEF ProgramPage, Doing, NextStep, Runs, TypesOK, At
<1>2. PICK p0 \in ToSet(PagesOf(c)) : todo[1] = Step("program", c.block, p0)
  BY <1>1, ProgramHead
<1>3. Left = {todo[1]} \cup Left' /\ todo[1] \in Left
  BY <1>1, TakeStep
<1>4. At.block = c.block /\ At.page = p0
  BY <1>1, <1>2, StepFields
<1>5. c.block \in Blocks /\ p0 \in Pages /\ ToSet(PagesOf(c)) \subseteq Pages
  BY ListTypes DEF Runs, OnList
<1>6. /\ data \in Buffers(c) /\ data \in Seq(Bytes)
      /\ cells \in [Blocks -> [Pages -> Cells]] /\ before \in [Blocks -> [Pages -> Cells]]
  BY BufferTypes DEF ProgramRun, Runs, TypesOK
<1> DEFINE blk == [cells[c.block] EXCEPT ![p0] = Programmed(cells[c.block][p0])]
<1>7. \/ protected /\ fail' = FALSE /\ failed' = failed /\ cells' = cells
      \/ /\ fail' = FALSE /\ failed' = failed /\ cells' = [cells EXCEPT ![c.block] = blk]
      \/ /\ fail' = TRUE /\ failed' = failed \cup {<<c.block, p0>>}
         /\ cells' \in {cells, [cells EXCEPT ![c.block] = blk]}
  BY <1>4 DEF ProgramPage, Outcome
<1>8. \A p \in Pages : Over(c, p)' = Over(c, p)
  BY <1>1 DEF Over, Programmed
<1>9. \A p \in Pages : cells[c.block][p] \in {before[c.block][p], Over(c, p)}
  BY DEF ProgramRun
<1>10. Programmed(cells[c.block][p0]) = Over(c, p0)
  <2>1. before[c.block][p0] \in Cells
    BY <1>5, <1>6
  <2>2. Programmed(Over(c, p0)) = Over(c, p0)
    BY <1>6, <2>1, ProgrammedTwice DEF Over
  <2> QED  BY <1>5, <1>9, <2>2 DEF Over
<1>11. \A p \in Pages : p # p0 => cells'[c.block][p] = cells[c.block][p]
  BY <1>5, <1>6, <1>7
<1>12. /\ cells'[c.block][p0] \in {cells[c.block][p0], Over(c, p0)}
       /\ fail' = FALSE => protected \/ cells'[c.block][p0] = Over(c, p0)
  BY <1>5, <1>6, <1>7, <1>10
<1>13. StatusStep \in Left' /\ StatusStep \in Left
  <2>1. Left \cap StepsOn("program", c) # {}
    BY <1>2, <1>3 DEF StepsOn
  <2>2. StatusStep \in Left /\ StatusStep # todo[1]
    BY <1>2, <2>1, StepsDiffer DEF ProgramRun
  <2> QED  BY <1>3, <2>2
<1>14. \A p \in ToSet(PagesOf(c)) : p # p0 /\ Step("program", c.block, p) \in Left
                                      => Step("program", c.block, p) \in Left'
  BY <1>2, <1>3, StepsDiffer
<1>15. \A p \in ToSet(PagesOf(c)) : Step("verify", c.block, p) \in Left => Step("verify", c.block, p) \in Left'
  BY <1>2, <1>3, StepsDiffer
<1>16. failed' # {} \/ (fail' = FALSE /\ failed' = failed)
  BY <1>7
<1>17. \A p \in ToSet(PagesOf(c)) :
         Step("program", c.block, p) \in Left' \/ failed' # {} \/ protected' \/ cells'[c.block][p] = Over(c, p)'
  <2> SUFFICES ASSUME NEW p \in ToSet(PagesOf(c)), failed' = {}, ~protected,
                      Step("program", c.block, p) \notin Left'
               PROVE  cells'[c.block][p] = Over(c, p)
    BY <1>1, <1>5, <1>8
  <2>1. CASE p = p0
    BY <1>12, <1>16, <2>1
  <2>2. CASE p # p0
    <3>1. Step("program", c.block, p) \notin Left /\ failed = {}
      BY <1>14, <1>16, <2>2
    <3>2. cells[c.block][p] = Over(c, p)
      BY <3>1 DEF ProgramRun
    <3> QED  BY <1>5, <1>11, <2>2, <3>2
  <2> QED  BY <2>1, <2>2
<1>18. ASSUME c.op = "program-page", NEW p \in ToSet(PagesOf(c))
       PROVE  Step("program", c.block, p) \in Left' \/ fail' \/ protected' \/ cells'[c.block][p] = Over(c, p)'
  <2>1. c.pages # All /\ Len(c.pages) = 1 /\ c.pages \in Seq(Int)
    BY <1>18, GivenTypes DEF PageCommands
  <2>2. PagesOf(c) = c.pages /\ DOMAIN c.pages = 1..1
    BY <2>1, LenProperties DEF PagesOf
  <2>3. p = p0
    BY <2>2 DEF ToSet
  <2>4. fail' = FALSE \/ fail' = TRUE
    BY <1>7
  <2> QED  BY <1>1, <1>5, <1>8, <1>12, <2>3, <2>4
<1>19. \A p \in Pages : cells'[c.block][p] \in {before'[c.block][p], Over(c, p)'}
  BY <1>1, <1>5, <1>8, <1>9, <1>11, <1>12
<1>20. InOrder'
  BY <1>1, InOrderTail DEF ProgramRun
<1>21. fail' => failed' # {}
  BY <1>7
<1>22. /\ Left' \subseteq StepsOn("program", c) \cup {StatusStep} \cup StepsOn("verify", c)
       /\ ~c.verify => Left' \cap StepsOn("verify", c) = {}
       /\ data' \in Buffers(c)
  BY <1>1, <1>3, <1>6 DEF ProgramRun
<1>23. ProgramRun(c)'
  BY <1>13, <1>17, <1>18, <1>19, <1>20, <1>21, <1>22 DEF ProgramRun
<1>24. CompareRun(c)'
  <2>1. ok /\ ok'
    BY <1>1, <1>13 DEF CompareRun
  <2>2. Compare(c) => \A p \in ToSet(PagesOf(c)) : Step("verify", c.block, p) \in Left'
    BY <1>13, <1>15, <2>1 DEF CompareRun
  <2>3. ~Verifies(c)
    BY DEF Programs, Verifies
  <2> QED  BY <2>1, <2>2, <2>3 DEF CompareRun
<1> QED  BY <1>23, <1>24

LEMMA ProgramAnswered ==
  ASSUME NEW c \in Commands, Programs(c), Runs(c), ProgramRun(c), CompareRun(c), CheckStatus
  PROVE  IF fail THEN failed # {} ELSE ProgramRun(c)' /\ CompareRun(c)'
<1>1. /\ todo \in Seq(Steps) /\ todo # <<>> /\ Head(todo).do = "status" /\ Head(todo) = todo[1]
      /\ UNCHANGED <<cells, fail, protected, ok, failed, data, before>>
  <2>1. todo \in Seq(Steps) /\ todo # <<>>
    BY DEF CheckStatus, Doing, Runs, TypesOK
  <2> QED  BY <2>1, EmptySeq DEF CheckStatus, Doing
<1>2. todo[1] = StatusStep /\ todo[1] \in Left
  BY <1>1, ProgramHead
<1>3. CASE fail
  BY <1>1, <1>3 DEF ProgramRun
<1>4. CASE ~fail
  <2>1. todo' = Tail(todo)
    BY <1>4 DEF CheckStatus
  <2>2. Left = {todo[1]} \cup Left'
    BY <1>1, <2>1, TakeStep
  <2>3. StatusStep \notin Left' /\ Left' \cap StepsOn("program", c) = {} /\ InOrder'
    BY <1>1, <2>1, InOrderHead, InOrderTail DEF ProgramRun
  <2>4. \A p \in Pages : Over(c, p)' = Over(c, p)
    BY <1>1 DEF Over, Programmed
  <2>5. ToSet(PagesOf(c)) \subseteq Pages
    BY ListTypes DEF Runs, OnList
  <2>6. \A p \in Pages : cells'[c.block][p] \in {before'[c.block][p], Over(c, p)'}
    BY <1>1, <2>4 DEF ProgramRun
  <2>7. \A p \in ToSet(PagesOf(c)) : Step("program", c.block, p) # todo[1] /\ Step("verify", c.block, p) # todo[1]
    BY <1>2, StepsDiffer
  <2>8. \A p \in ToSet(PagesOf(c)) :
          Step("program", c.block, p) \in Left' \/ failed' # {} \/ protected' \/ cells'[c.block][p] = Over(c, p)'
    BY <1>1, <2>2, <2>4, <2>5, <2>7 DEF ProgramRun
  <2>9. c.op = "program-page" => \A p \in ToSet(PagesOf(c)) :
          Step("program", c.block, p) \in Left' \/ fail' \/ protected' \/ cells'[c.block][p] = Over(c, p)'
    BY <1>1, <2>2, <2>4, <2>5, <2>7 DEF ProgramRun
  <2>10. ~fail'
    BY <1>1, <1>4
  <2>11. /\ Left' \subseteq StepsOn("program", c) \cup {StatusStep} \cup StepsOn("verify", c)
         /\ ~c.verify => Left' \cap StepsOn("verify", c) = {}
         /\ data' \in Buffers(c)
    BY <1>1, <2>2 DEF ProgramRun
  <2>12. ProgramRun(c)'
    BY <2>3, <2>6, <2>8, <2>9, <2>10, <2>11 DEF ProgramRun
  <2>13. CompareRun(c)'
    <3>1. ok /\ ok'
      BY <1>1, <1>2 DEF CompareRun
    <3>2. Compare(c) => \A p \in ToSet(PagesOf(c)) : Step("verify", c.block, p) \in Left'
      BY <1>2, <2>2, <2>7, <3>1 DEF CompareRun
    <3>3. ~Verifies(c)
      BY DEF Programs, Verifies
    <3> QED  BY <3>1, <3>2, <3>3 DEF CompareRun
  <2> QED  BY <1>4, <2>12, <2>13
<1> QED  BY <1>3, <1>4

LEMMA ComparesOne ==
  ASSUME NEW c \in Commands, Programs(c) \/ Verifies(c), Runs(c), Programs(c) => ProgramRun(c),
         CompareRun(c), VerifyPage, exit' = "running"
  PROVE  (Programs(c) => ProgramRun(c)') /\ CompareRun(c)'
<1>1. /\ todo \in Seq(Steps) /\ todo # <<>> /\ todo' = Tail(todo) /\ At.do = "verify" /\ At = todo[1]
      /\ UNCHANGED <<cells, fail, protected, failed, data, before>>
  BY TakeStep DEF VerifyPage, Doing, NextStep, Runs, TypesOK, At
<1>2. Left = {todo[1]} \cup Left' /\ todo[1] \in Left
  BY <1>1, TakeStep
<1>3. PICK p0 \in ToSet(PagesOf(c)) : todo[1] = Step("verify", c.block, p0)
  <2>1. CASE Programs(c)
    BY <1>1, <2>1, ProgramHead
  <2>2. CASE Verifies(c)
    BY <1>2, <2>2 DEF CompareRun, StepsOn
  <2> QED  BY <2>1, <2>2
<1>4. /\ StatusStep \notin Left' /\ StatusStep \notin Left
      /\ Programs(c) => Left' \cap StepsOn("program", c) = {} /\ InOrder'
  <2>1. StatusStep # todo[1]
    BY <1>3, StepsDiffer
  <2>2. CASE Programs(c)
    <3>1. InOrder /\ todo[1].do # "program"
      BY <1>1, <2>2 DEF ProgramRun
    <3>2. StatusStep \notin Left' /\ Left' \cap StepsOn("program", c) = {} /\ InOrder'
      BY <1>1, <3>1, InOrderHead, InOrderTail
    <3> QED  BY <1>2, <2>1, <3>2
  <2>3. CASE Verifies(c)
    <3>1. Left \subseteq StepsOn("verify", c)
      BY <2>3 DEF CompareRun
    <3>2. StatusStep \notin StepsOn("verify", c)
      BY StepsDiffer DEF StepsOn
    <3>3. ~Programs(c)
      BY <2>3 DEF Programs, Verifies
    <3> QED  BY <1>2, <3>1, <3>2, <3>3
  <2> QED  BY <2>2, <2>3
<1>5. Compare(c)
  <2>1. CASE Verifies(c)
    BY <2>1 DEF Compare
  <2>2. CASE Programs(c)
    <3>1. todo[1] \in StepsOn("verify", c)
      BY <1>3 DEF StepsOn
    <3>2. c.verify
      BY <1>2, <2>2, <3>1 DEF ProgramRun
    <3> QED  BY <2>2, <3>2 DEF Compare
  <2> QED  BY <2>1, <2>2
<1>6. ok' = (ok /\ Agrees(c, p0)) /\ ok \in BOOLEAN
  <2>1. The = c
    BY TheIs DEF Runs
  <2>2. At.block = c.block /\ At.page = p0
    BY <1>1, <1>3, StepFields
  <2>3. ~NoReference
    BY DEF VerifyPage
  <2>4. ok' = (ok /\ Read(At.block, At.page) = Expected(The))
    BY <2>3 DEF VerifyPage
  <2>5. Read(At.block, At.page) = SubSeq(cells[c.block][p0], 1, Total(c))
    BY <2>1, <2>2 DEF Read
  <2>6. ok \in BOOLEAN
    BY DEF Runs, TypesOK
  <2> QED  BY <2>1, <2>4, <2>5, <2>6 DEF Agrees
<1>7. \A p : Agrees(c, p)' <=> Agrees(c, p)
  BY <1>1 DEF Agrees
<1>8. \A p \in ToSet(PagesOf(c)) : Step("program", c.block, p) # todo[1]
  BY <1>3, StepsDiffer
<1>9. ASSUME Programs(c)  PROVE ProgramRun(c)'
  <2>1. \A p \in Pages : Over(c, p)' = Over(c, p)
    BY <1>1 DEF Over, Programmed
  <2>2. ToSet(PagesOf(c)) \subseteq Pages
    BY ListTypes DEF Runs, OnList
  <2>3. ProgramRun(c)
    BY <1>9
  <2>4. \A p \in Pages : cells'[c.block][p] \in {before'[c.block][p], Over(c, p)'}
    BY <1>1, <2>1, <2>3 DEF ProgramRun
  <2>5. \A p \in ToSet(PagesOf(c)) :
          Step("program", c.block, p) \in Left' \/ failed' # {} \/ protected' \/ cells'[c.block][p] = Over(c, p)'
    BY <1>1, <1>2, <1>8, <2>1, <2>2, <2>3 DEF ProgramRun
  <2>6. c.op = "program-page" => \A p \in ToSet(PagesOf(c)) :
          Step("program", c.block, p) \in Left' \/ fail' \/ protected' \/ cells'[c.block][p] = Over(c, p)'
    BY <1>1, <1>2, <1>8, <2>1, <2>2, <2>3 DEF ProgramRun
  <2>7. ~fail'
    BY <1>1, <1>4, <2>3 DEF ProgramRun
  <2>8. /\ Left' \subseteq StepsOn("program", c) \cup {StatusStep} \cup StepsOn("verify", c)
        /\ ~c.verify => Left' \cap StepsOn("verify", c) = {}
        /\ data' \in Buffers(c)
    BY <1>1, <1>2, <2>3 DEF ProgramRun
  <2> QED  BY <1>4, <1>9, <2>4, <2>5, <2>6, <2>7, <2>8 DEF ProgramRun
<1>10. CompareRun(c)'
  <2>1. Verifies(c) => Left' \subseteq StepsOn("verify", c)
    BY <1>2 DEF CompareRun
  <2>2. ~ok' => \E p \in ToSet(PagesOf(c)) : ~Agrees(c, p)'
    <3>1. CASE ~ok
      BY <1>7, <3>1 DEF CompareRun
    <3>2. CASE ok
      BY <1>6, <1>7, <3>2
    <3> QED  BY <3>1, <3>2
  <2>3. ASSUME ok', NEW p \in ToSet(PagesOf(c))
        PROVE  Step("verify", c.block, p) \in Left' \/ Agrees(c, p)'
    <3>1. ok /\ Agrees(c, p0)
      BY <1>6, <2>3
    <3>2. Step("verify", c.block, p) \in Left \/ Agrees(c, p)
      BY <1>5, <2>3, <3>1 DEF CompareRun
    <3>3. CASE Step("verify", c.block, p) = todo[1]
      <4>1. p = p0
        BY <1>3, <3>3, StepsDiffer
      <4> QED  BY <1>7, <3>1, <4>1
    <3>4. CASE Step("verify", c.block, p) # todo[1]
      BY <1>2, <1>7, <3>2, <3>4
    <3> QED  BY <3>3, <3>4
  <2> QED  BY <1>4, <1>5, <2>1, <2>2, <2>3 DEF CompareRun
<1> QED  BY <1>9, <1>10

(* The end of a program or a verify command. *)
LEMMA CompareEnds ==
  ASSUME NEW c \in Commands, Programs(c) \/ Verifies(c), Runs(c), CompareRun(c), todo = <<>>
  PROVE  /\ ok /\ Compare(c) => \A p \in ToSet(PagesOf(c)) : Agrees(c, p)
         /\ ok \/ (Compare(c) /\ \E p \in ToSet(PagesOf(c)) : ~Agrees(c, p))
<1>1. Left = {}
  BY DEF Left, ToSet
<1>2. \A p : Step("verify", c.block, p) \notin Left
  BY <1>1
<1> QED  BY <1>2 DEF CompareRun

LEMMA ProgramEnds ==
  ASSUME NEW c \in Commands, Programs(c), Runs(c), ProgramRun(c), todo = <<>>
  PROVE  /\ \A p \in ToSet(PagesOf(c)) : failed # {} \/ protected \/ cells[c.block][p] = Over(c, p)
         /\ c.op = "program-page" => \A p \in ToSet(PagesOf(c)) : protected \/ cells[c.block][p] = Over(c, p)
         /\ data \in Buffers(c)
<1>1. Left = {}
  BY DEF Left, ToSet
<1> QED  BY <1>1 DEF ProgramRun

(* The pattern programmed over an erased block is the pattern expected: without
   the spare area a comparison cannot fail unless an operation has. *)
LEMMA PatternsAgree ==
  ASSUME NEW c \in Commands, Programs(c), Runs(c), Compare(c), ~c.spare, data \in Buffers(c),
         NEW p \in Pages, before[c.block][p] = Erased, cells[c.block][p] = Over(c, p)
  PROVE  Agrees(c, p)
<1>1. Total(c) = 1 /\ data \in Seq(Bytes) /\ Len(data) = 1
  BY BufferTypes DEF Runs, Total
<1>2. data[1] \in Bytes /\ data[1] \in Int /\ data[1] <= 2
  <2>1. data[1] \in Bytes
    <3>1. 1 \in 1..Len(data)
      BY <1>1
    <3> QED  BY <1>1, <3>1, ElementOfSeq
  <2> QED  BY <2>1 DEF Bytes
<1>3. Erased[1] = 2
  BY DEF Erased
<1>4. cells[c.block][p][1] = data[1]
  <2>1. Over(c, p)[1] = Min({Erased[1], data[1]})
    BY <1>1 DEF Over, Programmed
  <2>2. Min({2, data[1]}) = data[1]
    BY <1>2, MinOfTwo
  <2> QED  BY <1>3, <2>1, <2>2
<1>5. c.block \in Blocks
  BY ListTypes DEF Runs, OnList
<1> DEFINE r == SubSeq(cells[c.block][p], 1, Total(c))
<1>6. r \in Seq(Int) /\ Len(r) = 1 /\ r[1] = data[1]
  <2>1. 1 \in 1..Total(c)
    BY <1>1
  <2> QED  BY <1>1, <1>4, <1>5, <2>1, CellIs DEF Runs
<1>7. ~Verifies(c) /\ c.verify
  BY DEF Compare, Programs, Verifies
<1>8. Expected(c) \in Seq(Int) /\ Len(Expected(c)) = 1 /\ Expected(c)[1] = data[1]
  <2>1. CASE c.input = None
    <3>1. c.op = "program-block" /\ ~c.random
      BY <1>7, <2>1, GivenTypes DEF Programs, Runs, Refused
    <3>2. data[1] = 0
      BY <2>1, <3>1, BufferTypes DEF Runs
    <3> DEFINE z == [i \in 1..Total(c) |-> 0]
    <3>3. z \in [1..Total(c) -> Int] /\ z[1] = 0 /\ Total(c) \in Nat
      BY <1>1
    <3>4. Expected(c) = z
      BY <2>1 DEF Expected
    <3> HIDE DEF z
    <3>5. z \in Seq(Int) /\ Len(z) = Total(c)
      BY <3>3
    <3> QED  BY <1>1, <3>2, <3>3, <3>4, <3>5
  <2>2. CASE c.input # None
    <3>1. Expected(c) = Padded(c) /\ data = Padded(c)
      BY <1>7, <2>2, BufferTypes DEF Expected, Runs
    <3>2. data \in Seq(Int)
      BY <1>1, SeqMonotonic DEF Bytes
    <3> QED  BY <1>1, <3>1, <3>2
  <2> QED  BY <2>1, <2>2
<1> HIDE DEF r
<1>9. \A i \in 1..1 : r[i] = Expected(c)[i]
  BY <1>6, <1>8
<1>10. r = Expected(c)
  BY <1>6, <1>8, <1>9, SeqEqual
<1> QED  BY <1>10 DEF Agrees, r

-----------------------------------------------------------------------------
(* The end of a command, and the five properties. *)

LEMMA Kinds ==
  ASSUME NEW c \in Commands
  PROVE  /\ ErasesBlocks(c) \/ ScansMarks(c) \/ Programs(c) \/ Verifies(c) \/ Reads(c)
         /\ ErasesBlocks(c) => ~ScansMarks(c) /\ ~Programs(c) /\ ~Verifies(c) /\ ~Reads(c)
         /\ ScansMarks(c) => ~Programs(c) /\ ~Verifies(c) /\ ~Reads(c)
         /\ Programs(c) => ~Verifies(c) /\ ~Reads(c)
         /\ Verifies(c) => ~Reads(c)
BY GivenTypes DEF Operations, PageCommands, ErasesBlocks, ScansMarks, Programs, Verifies, Reads

LEMMA FinishStep ==
  ASSUME NEW c \in Commands, Runs(c), Finish
  PROVE  /\ todo = <<>> /\ The = c /\ The' = c /\ ok \in BOOLEAN
         /\ UNCHANGED <<cells, fail, protected, cmd, data, ok, out, before, failed>>
         /\ exit' = "0" => ok /\ ~(c.op = "read-page" /\ c.file = "bad")
         /\ exit' # "0" => ~ok \/ (c.op = "read-page" /\ c.file = "bad")
         /\ exit' = "1" => ~Programs(c)
         /\ exit' = "2" => Programs(c)
<1>1. The = c /\ The' = c /\ todo = <<>>
  <2>1. cmd = {c} /\ cmd' = {c}
    BY DEF Runs, Finish
  <2> QED  BY <2>1 DEF The, Finish
<1>2. exit' = IF ok /\ ~(c.op = "read-page" /\ c.file = "bad") THEN "0" ELSE IF Programs(c) THEN "2" ELSE "1"
  BY <1>1 DEF Finish, Unsaved, Lost
<1>3. ok \in BOOLEAN
  BY DEF Runs, TypesOK
<1> QED  BY <1>1, <1>2, <1>3 DEF Finish

LEMMA FinishDone ==
  ASSUME NEW c \in Commands, Runs(c), RunInv(c), Finish
  PROVE  ExitZeroMeansDone'
<1> SUFFICES ASSUME exit' = "0"
             PROVE  /\ protected' \/ \A b \in EraseBlocks(c) : \A p \in Pages : cells'[b][p] = Erased
                    /\ c.op = "program-page" /\ ~protected' =>
                         \A p \in ToSet(PagesOf(c)) : \A i \in 1..2 :
                           cells'[c.block][p][i] =
                             IF i <= Total(c) THEN Min({before'[c.block][p][i], Padded(c)[i]})
                                              ELSE before'[c.block][p][i]
                    /\ Verifies(c) \/ (Programs(c) /\ c.verify) =>
                         \A p \in ToSet(PagesOf(c)) : SubSeq(cells'[c.block][p], 1, Total(c)) = Expected(c)
                    /\ c.op = "scan-all" => \A b \in Blocks : ~(cells'[b][0][2] = 0)
  BY ZenonT(30), FinishStep DEF ExitZeroMeansDone, Read, IsBad
<1>1. ok /\ todo = <<>> /\ cells' = cells /\ before' = before /\ protected' = protected
  BY FinishStep
<1>2. protected \/ \A b \in EraseBlocks(c) : \A p \in Pages : cells[b][p] = Erased
  <2>1. CASE ErasesBlocks(c)
    BY <1>1, <2>1, EraseEnds DEF RunInv, Cleared
  <2>2. CASE ~ErasesBlocks(c)
    BY <2>2 DEF ErasesBlocks, EraseBlocks
  <2> QED  BY <2>1, <2>2
<1>3. ASSUME c.op = "program-page", ~protected, NEW p \in ToSet(PagesOf(c)), NEW i \in 1..2
      PROVE  cells[c.block][p][i] = IF i <= Total(c) THEN Min({before[c.block][p][i], Padded(c)[i]})
                                                    ELSE before[c.block][p][i]
  <2>1. Programs(c)
    BY <1>3 DEF Programs
  <2>2. cells[c.block][p] = Over(c, p) /\ data \in Buffers(c)
    BY <1>1, <1>3, <2>1, ProgramEnds DEF RunInv
  <2>3. data = Padded(c) /\ Len(data) = Total(c)
    BY <1>3, <2>1, <2>2, BufferTypes DEF Runs
  <2>4. Over(c, p)[i] = IF i <= Len(data) THEN Min({before[c.block][p][i], data[i]}) ELSE before[c.block][p][i]
    BY DEF Over, Programmed
  <2> QED  BY <2>2, <2>3, <2>4
<1>4. ASSUME Verifies(c) \/ (Programs(c) /\ c.verify), NEW p \in ToSet(PagesOf(c))
      PROVE  SubSeq(cells[c.block][p], 1, Total(c)) = Expected(c)
  <2>1. Agrees(c, p)
    BY <1>1, <1>4, CompareEnds DEF RunInv, Compare
  <2> QED  BY <2>1 DEF Agrees
<1>5. ASSUME c.op = "scan-all", NEW b \in Blocks  PROVE ~(cells[b][0][2] = 0)
  <2>1. ~IsBad(b)
    BY <1>1, <1>5, ScanEnds DEF RunInv, ScansMarks
  <2> QED  BY <2>1 DEF IsBad
<1> QED  BY <1>1, <1>2, <1>3, <1>4, <1>5

LEMMA FinishComplains ==
  ASSUME NEW c \in Commands, Runs(c), RunInv(c), Finish
  PROVE  ComplaintsAreReal'
<1> SUFFICES ASSUME exit' \in {"1", "2"}
             PROVE  \/ c.op = "read-page" /\ c.file = "bad"
                    \/ /\ Programs(c) \/ Verifies(c)
                       /\ \E p \in ToSet(PagesOf(c)) : SubSeq(cells'[c.block][p], 1, Total(c)) # Expected(c)
                    \/ c.op = "scan" /\ cells'[c.block][0][2] = 0
                    \/ c.op = "scan-all" /\ out' # <<>> /\ ToSet(out') = {b \in Blocks : cells'[b][0][2] = 0}
  BY FinishStep DEF ComplaintsAreReal, Unsaved, Lost, Read, IsBad
<1>1. todo = <<>> /\ cells' = cells /\ out' = out
  BY FinishStep
<1>2. CASE c.op = "read-page" /\ c.file = "bad"
  BY <1>2
<1>3. CASE ~ok
  <2>1. ~ErasesBlocks(c) /\ ~Reads(c)
    BY <1>1, <1>3, EraseEnds, ReadEnds DEF RunInv
  <2>2. CASE ScansMarks(c)
    <3>1. ScanRun(c)
      BY <2>2 DEF RunInv
    <3>2. CASE c.op = "scan"
      BY <1>1, <1>3, <2>2, <3>1, <3>2, ScanEnds DEF IsBad
    <3>3. CASE c.op = "scan-all"
      BY <1>1, <1>3, <2>2, <3>1, <3>3, ScanEnds DEF IsBad
    <3> QED  BY <2>2, <3>2, <3>3 DEF ScansMarks
  <2>3. CASE Programs(c) \/ Verifies(c)
    <3>1. \E p \in ToSet(PagesOf(c)) : ~Agrees(c, p)
      BY <1>1, <1>3, <2>3, CompareEnds DEF RunInv
    <3> QED  BY <1>1, <2>3, <3>1 DEF Agrees
  <2> QED  BY <2>1, <2>2, <2>3, Kinds
<1>4. ~ok \/ (c.op = "read-page" /\ c.file = "bad")
  BY FinishStep
<1> QED  BY <1>2, <1>3, <1>4

LEMMA FinishReads ==
  ASSUME NEW c \in Commands, Runs(c), RunInv(c), Finish
  PROVE  ReadsInOrder'
<1> DEFINE width == Total(c)
           nl == IF c.op = "read-block" THEN <<10>> ELSE <<>>
           stride == width + Len(nl)
<1>1. The' = c /\ todo = <<>> /\ out' = out /\ cells' = cells
  BY FinishStep
<1>2. Newline' = nl /\ Lost' = (c.file = "bad")
  BY <1>1 DEF Newline, Lost
<1>3. ASSUME exit' = "0", Reads(c), c.op = "read-page" \/ ~(c.file = "bad")
      PROVE  /\ Len(out') = stride * Len(PagesOf(c))
             /\ \A i \in DOMAIN PagesOf(c) : \A k \in 1..width :
                  out'[(i - 1) * stride + k] = cells'[c.block][PagesOf(c)[i]][k]
  <2>1. c.file # "bad"
    BY <1>3, FinishStep
  <2>2. /\ Len(out) = Stride(c) * Len(PagesOf(c))
        /\ \A i \in 1..Len(PagesOf(c)) : \A k \in 1..Total(c) :
             out[(i - 1) * Stride(c) + k] = cells[c.block][PagesOf(c)[i]][k]
    BY <1>1, <1>3, <2>1, ReadEnds DEF RunInv
  <2>3. Stride(c) = stride
    <3>1. Len(<<10>>) = 1 /\ Len(<<>>) = 0
      BY EmptySeq
    <3> QED  BY <3>1 DEF Stride
  <2>4. DOMAIN PagesOf(c) = 1..Len(PagesOf(c))
    BY <1>3, ListTypes DEF Runs, OnList
  <2> HIDE DEF stride, width
  <2> QED  BY <1>1, <2>2, <2>3, <2>4 DEF width
<1> HIDE DEF nl
<1> QED  BY <1>1, <1>2, <1>3 DEF ReadsInOrder

LEMMA FinishKeeps ==
  ASSUME NEW c \in Commands, Runs(c), RunInv(c), Finish
  PROVE  Kept'
<1>1. EraseChipStopsAtFailure'
  <2> SUFFICES ASSUME exit' = "1", c.op = "erase-chip"  PROVE FALSE
    BY FinishStep DEF EraseChipStopsAtFailure
  <2>1. ErasesBlocks(c)
    BY DEF ErasesBlocks
  <2>2. ok
    BY <2>1, FinishStep, EraseEnds DEF RunInv
  <2> QED  BY <2>2, FinishStep
<1>2. VerifyFindsRealFaults'
  <2> SUFFICES ASSUME exit' = "2", ~c.spare, \A p \in Pages : before'[c.block][p] = Erased, failed' = {}, ~protected'
               PROVE  FALSE
    BY FinishStep DEF VerifyFindsRealFaults
  <2>1. Programs(c) /\ todo = <<>> /\ before' = before /\ failed = {} /\ ~protected
    BY FinishStep
  <2>2. ~ok
    BY <2>1, FinishStep DEF Programs
  <2>3. PICK p \in ToSet(PagesOf(c)) : Compare(c) /\ ~Agrees(c, p)
    BY <2>1, <2>2, CompareEnds DEF RunInv
  <2>4. cells[c.block][p] = Over(c, p) /\ data \in Buffers(c)
    BY <2>1, ProgramEnds DEF RunInv
  <2>5. p \in Pages
    BY <2>1, ListTypes DEF Runs, OnList
  <2>6. before[c.block][p] = Erased
    BY <2>1, <2>5
  <2> QED  BY <2>1, <2>3, <2>4, <2>5, <2>6, PatternsAgree
<1> QED  BY <1>1, <1>2, FinishDone, FinishComplains, FinishReads DEF Kept

-----------------------------------------------------------------------------
(* The invariant is inductive. *)

LEMMA HeadKinds ==
  ASSUME NEW c \in Commands, Runs(c), RunInv(c), todo # <<>>
  PROVE  /\ todo[1] = At
         /\ At.do = "erase" => ErasesBlocks(c)
         /\ At.do = "program" => Programs(c)
         /\ At.do = "status" => ErasesBlocks(c) \/ Programs(c)
         /\ At.do = "verify" => Programs(c) \/ Verifies(c)
         /\ At.do = "read" => Reads(c)
         /\ At.do = "mark" => ScansMarks(c)
<1>1. /\ todo \in Seq(Steps) /\ Len(todo) \in Nat /\ Len(todo) >= 1 /\ todo[1] = At
      /\ todo[1] \in Left
  <2>1. todo \in Seq(Steps) /\ Len(todo) \in Nat \ {0}
    BY EmptySeq DEF Runs, TypesOK
  <2>2. DOMAIN todo = 1..Len(todo) /\ 1 \in 1..Len(todo)
    BY <2>1, LenProperties
  <2>3. todo[1] \in Left
    BY <2>2 DEF Left, ToSet
  <2> QED  BY <2>1, <2>3 DEF At
<1>2. CASE ErasesBlocks(c)
  <2>1. \E k \in Nat : todo[1] = Step("erase", First(c) + k, 0) \/ todo[1] = StatusStep
    BY <1>2, EraseAt DEF RunInv
  <2>2. At.do \in {"erase", "status"}
    BY <1>1, <2>1, StepFields DEF StatusStep
  <2> QED  BY <1>1, <1>2, <2>2
<1>3. CASE ScansMarks(c)
  <2>1. At.do = "mark"
    <3>1. CASE c.op = "scan"
      <4>1. todo = <<Step("mark", c.block, 0)>>
        BY <1>3, <3>1 DEF RunInv, ScanRun
      <4>2. todo[1] = Step("mark", c.block, 0)
        BY <4>1
      <4> QED  BY <1>1, <4>2, StepFields
    <3>2. CASE c.op = "scan-all"
      <4>1. todo[1] = Step("mark", NumBlocks - Len(todo) + 1 - 1, 0)
        BY <1>1, <1>3, <3>2 DEF RunInv, ScanRun
      <4> QED  BY <1>1, <4>1, StepFields
    <3> QED  BY <1>3, <3>1, <3>2 DEF ScansMarks
  <2> QED  BY <1>1, <1>3, <2>1
<1>4. CASE Programs(c)
  BY <1>1, <1>4, ProgramHead DEF RunInv
<1>5. CASE Verifies(c)
  <2>1. todo[1] \in StepsOn("verify", c)
    BY <1>1, <1>5 DEF RunInv, CompareRun
  <2>2. At.do = "verify"
    BY <1>1, <2>1, StepFields DEF StepsOn
  <2> QED  BY <1>1, <1>5, <2>2
<1>6. CASE Reads(c)
  <2>1. todo[1] = Step("read", c.block, PagesOf(c)[Len(PagesOf(c)) - Len(todo) + 1])
    BY <1>6, ReadsOne DEF RunInv
  <2>2. At.do = "read"
    BY <1>1, <2>1, StepFields
  <2> QED  BY <1>1, <1>6, <2>2
<1> QED  BY <1>2, <1>3, <1>4, <1>5, <1>6, Kinds

Works == EraseBlock \/ ProgramPage \/ CheckStatus \/ VerifyPage \/ ReadPage \/ ScanBlock

LEMMA WorksKeepRun ==
  ASSUME NEW c \in Commands, Runs(c), RunInv(c), Works, exit' = "running"
  PROVE  RunInv(c)'
<1>1. todo # <<>> /\ Head(todo) = At
  BY DEF Works, EraseBlock, ProgramPage, CheckStatus, VerifyPage, ReadPage, ScanBlock, Doing, At
<1>2. CASE EraseBlock
  <2>1. ErasesBlocks(c)
    BY <1>1, <1>2, HeadKinds DEF EraseBlock, Doing
  <2> QED  BY <1>2, <2>1, Kinds, EraseErases DEF RunInv
<1>3. CASE ProgramPage
  <2>1. Programs(c)
    BY <1>1, <1>3, HeadKinds DEF ProgramPage, Doing
  <2> QED  BY <1>3, <2>1, Kinds, ProgramPrograms DEF RunInv
<1>4. CASE CheckStatus
  <2>1. ErasesBlocks(c) \/ Programs(c)
    BY <1>1, <1>4, HeadKinds DEF CheckStatus, Doing
  <2>2. ~fail
    BY <1>4 DEF CheckStatus
  <2>3. CASE ErasesBlocks(c)
    BY <1>4, <2>2, <2>3, Kinds, EraseAnswered DEF RunInv
  <2>4. CASE Programs(c)
    BY <1>4, <2>2, <2>4, Kinds, ProgramAnswered DEF RunInv
  <2> QED  BY <2>1, <2>3, <2>4
<1>5. CASE VerifyPage
  <2>1. Programs(c) \/ Verifies(c)
    BY <1>1, <1>5, HeadKinds DEF VerifyPage, Doing
  <2> QED  BY <1>5, <2>1, Kinds, ComparesOne DEF RunInv
<1>6. CASE ReadPage
  <2>1. Reads(c)
    BY <1>1, <1>6, HeadKinds DEF ReadPage, Doing
  <2> QED  BY <1>6, <2>1, Kinds, ReadContinues DEF RunInv
<1>7. CASE ScanBlock
  <2>1. ScansMarks(c)
    BY <1>1, <1>7, HeadKinds DEF ScanBlock, Doing
  <2> QED  BY <1>7, <2>1, Kinds, ScanContinues DEF RunInv
<1> QED  BY <1>2, <1>3, <1>4, <1>5, <1>6, <1>7 DEF Works

LEMMA ErasedIsACell == [p \in Pages |-> Erased] \in [Pages -> Cells]
<1>1. Erased[1] = 2 /\ Erased[2] = 2 /\ Erased \in [1..2 -> Bytes]
  BY DEF Erased, Bytes
<1> QED  BY <1>1 DEF Cells

LEMMA WorksKeepTypes ==
  ASSUME NEW c \in Commands, Runs(c), RunInv(c), Works
  PROVE  TypesOK' /\ cmd' = {c} /\ The' = c /\ before' = before /\ protected' = protected
<1>1. TypesOK /\ cmd = {c} /\ Running /\ ~Refused(c)
  BY DEF Runs
<1>2. todo # <<>> /\ cmd' = cmd /\ before' = before /\ protected' = protected
  BY DEF Works, EraseBlock, ProgramPage, CheckStatus, VerifyPage, ReadPage, ScanBlock, NextStep, Doing
<1>3. The' = c /\ cmd' = {c}
  BY <1>1, <1>2 DEF The
<1>4. todo' \in Seq(Steps)
  <2>1. todo' = Tail(todo) \/ todo' = <<>>
    BY DEF Works, EraseBlock, ProgramPage, CheckStatus, VerifyPage, ReadPage, ScanBlock, NextStep
  <2> QED  BY <1>1, <1>2, <2>1, TakeStep, EmptySeq DEF TypesOK
<1>5. ok' \in BOOLEAN
  <2>1. \/ ok' = ok \/ (\E x \in BOOLEAN : ok' = (ok /\ x))
    BY DEF Works, EraseBlock, ProgramPage, CheckStatus, VerifyPage, ReadPage, ScanBlock
  <2> QED  BY <1>1, <2>1 DEF TypesOK
<1>6. cells' \in [Blocks -> [Pages -> Cells]] /\ fail' \in BOOLEAN
  <2>1. CASE EraseBlock
    <3>1. /\ fail' \in BOOLEAN
          /\ cells' \in {cells, [cells EXCEPT ![At.block] = [p \in Pages |-> Erased]]}
      BY <2>1 DEF EraseBlock, Outcome
    <3> QED  BY <1>1, <3>1, ErasedIsACell DEF TypesOK
  <2>2. CASE ProgramPage
    <3>1. Programs(c) /\ ProgramRun(c) /\ todo[1] = At /\ At.do = "program"
      BY <1>2, <2>2, HeadKinds DEF ProgramPage, Doing, RunInv, At
    <3>2. PICK p0 \in ToSet(PagesOf(c)) : At = Step("program", c.block, p0)
      BY <1>2, <3>1, ProgramHead
    <3>3. At.block = c.block /\ At.page = p0 /\ c.block \in Blocks /\ p0 \in Pages
      BY <1>1, <3>1, <3>2, StepFields, ListTypes DEF OnList
    <3> DEFINE blk == [cells[c.block] EXCEPT ![p0] = Programmed(cells[c.block][p0])]
    <3>4. /\ fail' \in BOOLEAN
          /\ cells' \in {cells, [cells EXCEPT ![c.block] = blk]}
      BY <2>2, <3>3 DEF ProgramPage, Outcome
    <3>5. data \in Seq(Bytes)
      BY <1>1, <3>1, BufferTypes DEF ProgramRun
    <3>6. cells[c.block] \in [Pages -> Cells] /\ cells[c.block][p0] \in Cells
      BY <1>1, <3>3 DEF TypesOK
    <3>7. blk \in [Pages -> Cells]
      BY <3>3, <3>5, <3>6, ProgrammedTwice
    <3> HIDE DEF blk
    <3> QED  BY <1>1, <3>4, <3>7 DEF TypesOK
  <2>3. CASE UNCHANGED <<cells, fail>>
    BY <1>1, <2>3 DEF TypesOK
  <2> QED  BY <2>1, <2>2, <2>3 DEF Works, CheckStatus, VerifyPage, ReadPage, ScanBlock
<1>7. before' \in [Blocks -> [Pages -> Cells]]
  BY <1>1, <1>2 DEF TypesOK
<1> QED  BY <1>1, <1>2, <1>3, <1>4, <1>5, <1>6, <1>7 DEF TypesOK

(* An exit other than 0, 1 and 2 claims nothing. *)
LEMMA Unfinished ==
  ASSUME exit' \notin {"0", "1", "2"}
  PROVE  Kept'
BY DEF Kept, ExitZeroMeansDone, ComplaintsAreReal, EraseChipStopsAtFailure, ReadsInOrder,
       VerifyFindsRealFaults

LEMMA WorksKeep ==
  ASSUME NEW c \in Commands, Runs(c), RunInv(c), Works
  PROVE  Kept'
<1>1. exit = "running" /\ exit' \in {"running", "1", "crash"}
  BY DEF Works, EraseBlock, ProgramPage, CheckStatus, VerifyPage, ReadPage, ScanBlock, Runs, Running, NextStep
<1>2. CASE exit' = "1"
  <2>1. CheckStatus /\ fail /\ todo # <<>> /\ At.do = "status" /\ UNCHANGED <<cells, failed, before>>
    BY <1>1, <1>2 DEF Works, EraseBlock, ProgramPage, CheckStatus, VerifyPage, ReadPage, ScanBlock, Doing, At
  <2>2. The' = c
    BY WorksKeepTypes
  <2>3. ErasesBlocks(c) \/ Programs(c)
    BY <2>1, HeadKinds
  <2>4. failed' # {}
    BY <2>1, <2>3, EraseFails, ProgramAnswered DEF RunInv
  <2>5. ASSUME c.op = "erase-chip"
        PROVE  \E b \in EraseBlocks(c) :
                 /\ failed' = {<<b, 0>>}
                 /\ \A other \in EraseBlocks(c) \ {b} :
                      IF other < b THEN \A p \in Pages : cells'[other][p] = Erased
                                   ELSE cells'[other] = before'[other]
    <3>1. ErasesBlocks(c)
      BY <2>5 DEF ErasesBlocks
    <3> QED  BY <2>1, <3>1, EraseFails DEF RunInv
  <2>6. EraseChipStopsAtFailure'
    BY <2>2, <2>5 DEF EraseChipStopsAtFailure
  <2>7. ComplaintsAreReal'
    BY <2>4 DEF ComplaintsAreReal
  <2>8. exit' # "0" /\ exit' # "2"
    BY <1>2
  <2> QED  BY <2>6, <2>7, <2>8 DEF Kept, ExitZeroMeansDone, ReadsInOrder, VerifyFindsRealFaults
<1>3. CASE exit' # "1"
  BY <1>1, <1>3, Unfinished
<1> QED  BY <1>2, <1>3

LEMMA BeginKeeps ==
  ASSUME BlockInv, Begin
  PROVE  BlockInv'
<1>1. PICK c \in Commands :
        /\ cmd' = {c} /\ ok' = TRUE /\ out' = <<>> /\ before' = cells /\ failed' = {}
        /\ protected' \in BOOLEAN /\ UNCHANGED <<cells, fail>>
        /\ IF Refused(c) THEN exit' = "error" /\ todo' = <<>> /\ data' = <<>>
           ELSE /\ exit' = "running" /\ todo' \in Plans(c)
                /\ data' \in IF Programs(c) THEN Buffers(c) ELSE {<<>>}
  BY DEF Begin
<1>2. The' = c
  BY <1>1 DEF The
<1>3. ~Refused(c) => Begins(c)
  BY <1>1 DEF Begins
<1>4. todo' \in Seq(Steps) /\ (~Refused(c) => RunInv(c)')
  BY <1>1, <1>3, RunBegins, EmptySeq
<1>5. Kept'
  BY <1>1, Unfinished
<1>6. TypesOK'
  BY <1>1, <1>2, <1>4 DEF BlockInv, TypesOK, Running
<1>7. Running' => ~Refused(c)
  BY <1>1 DEF Running
<1>8. Running' => RunInv(The)'
  BY <1>2, <1>4, <1>7
<1> QED  BY <1>5, <1>6, <1>8 DEF BlockInv

LEMMA WhoRuns ==
  ASSUME BlockInv, Running
  PROVE  \E c \in Commands : Runs(c) /\ RunInv(c) /\ The = c
<1>1. PICK c \in Commands : cmd = {c}
  BY DEF BlockInv, TypesOK
<1>2. The = c
  BY <1>1, TheIs
<1> QED  BY <1>1, <1>2 DEF BlockInv, TypesOK, Runs

LEMMA BlockStart ==
  ASSUME Init
  PROVE  BlockInv
<1>1. cells \in [Blocks -> [Pages -> Cells]] /\ before = cells
  BY BlockAssumption DEF Init
<1>2. TypesOK /\ ~Running
  BY <1>1, EmptySeq DEF Init, TypesOK, Running
<1>3. Kept
  BY DEF Init, Kept, ExitZeroMeansDone, ComplaintsAreReal, EraseChipStopsAtFailure, ReadsInOrder,
         VerifyFindsRealFaults
<1> QED  BY <1>2, <1>3 DEF BlockInv

LEMMA BlockStep ==
  ASSUME BlockInv, [Next]_vars
  PROVE  BlockInv'
<1>1. CASE Begin
  BY <1>1, BeginKeeps
<1>2. CASE Works
  <2>1. Running
    BY <1>2 DEF Works, EraseBlock, ProgramPage, CheckStatus, VerifyPage, ReadPage, ScanBlock, Doing
  <2>2. PICK c \in Commands : Runs(c) /\ RunInv(c) /\ The = c
    BY <2>1, WhoRuns
  <2>3. TypesOK' /\ The' = c
    BY <1>2, <2>2, WorksKeepTypes
  <2>4. Running' => RunInv(The)'
    BY <1>2, <2>2, <2>3, WorksKeepRun DEF Running
  <2>5. Kept'
    BY <1>2, <2>2, WorksKeep
  <2> QED  BY <2>3, <2>4, <2>5 DEF BlockInv
<1>3. CASE Finish
  <2>1. PICK c \in Commands : Runs(c) /\ RunInv(c) /\ The = c
    BY <1>3, WhoRuns DEF Finish
  <2>2. Kept'
    BY <1>3, <2>1, FinishKeeps
  <2>3. ~Running' /\ UNCHANGED <<cells, fail, protected, cmd, todo, ok, before>>
    BY <1>3 DEF Finish, Running
  <2>4. TypesOK'
    BY <2>3 DEF BlockInv, TypesOK
  <2> QED  BY <2>2, <2>3, <2>4 DEF BlockInv
<1>4. CASE Killed
  <2>1. exit' = "killed" /\ todo' = <<>> /\ UNCHANGED <<cells, fail, protected, cmd, ok, before>>
    BY <1>4 DEF Killed
  <2>2. TypesOK' /\ ~Running'
    BY <2>1, EmptySeq DEF BlockInv, TypesOK, Running
  <2>3. Kept'
    BY <2>1, Unfinished
  <2> QED  BY <2>2, <2>3 DEF BlockInv
<1>5. CASE UNCHANGED vars
  <2>1. UNCHANGED <<cells, fail, protected, cmd, todo, data, ok, out, exit, before, failed, issued>>
    BY <1>5 DEF vars
  <2>2. The' = The /\ Running' = Running
    BY <2>1 DEF The, Running
  <2>3. TypesOK'
    BY <2>1, <2>2 DEF BlockInv, TypesOK
  <2>4. Kept'
    <3>1. /\ \A b, p : Read(b, p)' = Read(b, p) /\ \A d : IsBad(d)' = IsBad(d)
          /\ Unsaved' = Unsaved /\ Lost' = Lost /\ Newline' = Newline
      BY <2>1, <2>2 DEF Read, IsBad, Unsaved, Lost, Newline
    <3>2. ExitZeroMeansDone'
      BY <2>1, <2>2, <3>1 DEF BlockInv, Kept, ExitZeroMeansDone
    <3>3. ComplaintsAreReal'
      BY <2>1, <2>2, <3>1 DEF BlockInv, Kept, ComplaintsAreReal
    <3>4. EraseChipStopsAtFailure'
      BY <2>1, <2>2 DEF BlockInv, Kept, EraseChipStopsAtFailure
    <3>5. ReadsInOrder'
      BY <2>1, <2>2, <3>1 DEF BlockInv, Kept, ReadsInOrder
    <3>6. VerifyFindsRealFaults'
      BY <2>1, <2>2 DEF BlockInv, Kept, VerifyFindsRealFaults
    <3> QED  BY <3>2, <3>3, <3>4, <3>5, <3>6 DEF Kept
  <2>5. \A c : RunInv(c)' <=> RunInv(c)
    BY <2>1 DEF RunInv, EraseRun, ProgramRun, CompareRun, ReadRun, ScanRun, Cleared, Left, InOrder, Over,
                Programmed, Agrees, IsBad
  <2> QED  BY <2>2, <2>3, <2>4, <2>5 DEF BlockInv
<1> QED  BY <1>1, <1>2, <1>3, <1>4, <1>5 DEF Next, Works

LEMMA BlockInvHolds == Spec => []BlockInv
<1>1. Init => BlockInv
  BY BlockStart
<1>2. BlockInv /\ [Next]_vars => BlockInv'
  BY BlockStep
<1> QED  BY <1>1, <1>2, PTL DEF Spec

-----------------------------------------------------------------------------
(* The theorems. *)

(* A verify or scan command that exits with 0, and a program command with --verify,
   has found the array as it should be; an erase command or program_page has written
   it, if WP# was high, for any geometry, array and list of pages. It says nothing of
   a program_block without --verify, which looks at its last page only, nor of the
   cells behind a write that WP# has refused. *)
THEOREM ZeroMeansDone == Spec => []ExitZeroMeansDone
<1>1. BlockInv => ExitZeroMeansDone
  BY DEF BlockInv, Kept
<1> QED  BY <1>1, BlockInvHolds, PTL

(* Exit 1 and 2 are never false alarms: an operation has failed, the array differs
   from what it is compared with, or the page could not be saved. *)
THEOREM ComplaintsHaveReasons == Spec => []ComplaintsAreReal
<1>1. BlockInv => ComplaintsAreReal
  BY DEF BlockInv, Kept
<1> QED  BY <1>1, BlockInvHolds, PTL

(* erase_chip_command stops at the first block that fails, wherever that is in the
   range. *)
THEOREM ChipEraseStops == Spec => []EraseChipStopsAtFailure
<1>1. BlockInv => EraseChipStopsAtFailure
  BY DEF BlockInv, Kept
<1> QED  BY <1>1, BlockInvHolds, PTL

(* read_block and read_page hand out the pages of the list in its order, whatever
   its length, with or without the spare area. *)
THEOREM PagesReadInOrder == Spec => []ReadsInOrder
<1>1. BlockInv => ReadsInOrder
  BY DEF BlockInv, Kept
<1> QED  BY <1>1, BlockInvHolds, PTL

(* The pattern of program_block is the one verify_program_block expects: on an
   erased block, without the spare area, --verify fails only if an operation has, or
   if WP# has refused the writes. *)
THEOREM VerifyIsHonest == Spec => []VerifyFindsRealFaults
<1>1. BlockInv => VerifyFindsRealFaults
  BY DEF BlockInv, Kept
<1> QED  BY <1>1, BlockInvHolds, PTL

(* No step of a command changes a page outside of the ones its arguments name. *)
THEOREM OtherPagesUntouched == Spec => OnlyAskedPagesChange
<1> DEFINE Asked == \A b \in Blocks, p \in Pages :
                      cells'[b][p] # cells[b][p] => cmd # {} /\ <<b, p>> \in AskedToChange(The)
<1>1. ASSUME BlockInv, [Next]_vars  PROVE [Asked]_vars
  <2> SUFFICES ASSUME cells' # cells  PROVE Asked
    OBVIOUS
  <2>1. EraseBlock \/ ProgramPage
    BY <1>1 DEF Next, Begin, CheckStatus, VerifyPage, ReadPage, ScanBlock, Finish, Killed, vars
  <2>2. Running /\ todo # <<>>
    BY <2>1 DEF EraseBlock, ProgramPage, Doing
  <2>3. PICK c \in Commands : Runs(c) /\ RunInv(c) /\ The = c
    BY <1>1, <2>2, WhoRuns
  <2>4. cells \in [Blocks -> [Pages -> Cells]] /\ cmd # {}
    BY <2>3 DEF Runs, TypesOK
  <2>5. todo[1] = At
    BY <2>2, <2>3, HeadKinds
  <2>6. CASE EraseBlock
    <3>1. ErasesBlocks(c)
      BY <2>2, <2>3, <2>6, HeadKinds DEF EraseBlock, Doing, At
    <3>2. PICK k \in Nat : First(c) + k \in EraseBlocks(c) /\ todo[1] = Step("erase", First(c) + k, 0)
      <4>1. At.do = "erase" /\ StatusStep.do = "status"
        BY <2>6, StepFields DEF EraseBlock, Doing, At, StatusStep
      <4> QED  BY <2>2, <2>3, <2>5, <3>1, <4>1, EraseAt DEF RunInv
    <3>3. At.block \in EraseBlocks(c)
      BY <2>5, <3>2, StepFields
    <3>4. \A b \in Blocks : b # At.block => cells'[b] = cells[b]
      BY <2>4, <2>6 DEF EraseBlock, Outcome
    <3>5. \A p \in Pages : <<At.block, p>> \in AskedToChange(c)
      BY <3>1, <3>3, Kinds DEF AskedToChange
    <3> QED  BY <2>3, <2>4, <3>4, <3>5
  <2>7. CASE ProgramPage
    <3>1. Programs(c)
      BY <2>2, <2>3, <2>7, HeadKinds DEF ProgramPage, Doing, At
    <3>2. PICK p0 \in ToSet(PagesOf(c)) : todo[1] = Step("program", c.block, p0)
      <4>1. At.do = "program"
        BY <2>7 DEF ProgramPage, Doing, At
      <4> QED  BY <2>2, <2>3, <2>5, <3>1, <4>1, ProgramHead DEF RunInv
    <3>3. At.block = c.block /\ At.page = p0
      BY <2>5, <3>2, StepFields
    <3>4. c.block \in Blocks
      BY <2>3, <3>1, ListTypes DEF Runs, OnList
    <3> DEFINE blk == [cells[c.block] EXCEPT ![p0] = Programmed(cells[c.block][p0])]
    <3>5. cells' \in {cells, [cells EXCEPT ![c.block] = blk]}
      BY <2>7, <3>3 DEF ProgramPage, Outcome
    <3>6. \A b \in Blocks, p \in Pages : cells'[b][p] # cells[b][p] => b = c.block /\ p = p0
      BY <2>4, <3>4, <3>5
    <3>7. <<c.block, p0>> \in AskedToChange(c)
      BY <3>1, <3>2 DEF AskedToChange
    <3> QED  BY <2>3, <2>4, <3>6, <3>7
  <2> QED  BY <2>1, <2>6, <2>7
<1>2. Spec => []BlockInv
  BY BlockInvHolds
<1>3. BlockInv /\ [Next]_vars => [Asked]_vars
  BY <1>1
<1> QED  BY <1>2, <1>3, PTL DEF Spec, OnlyAskedPagesChange
=============================================================================
