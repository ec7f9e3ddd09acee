------------------------------- MODULE MCBlockOps -------------------------------
EXTENDS BlockOps, TLC

Template == [op |-> "", block |-> 0, pages |-> All, spare |-> FALSE, input |-> None,
             pad |-> FALSE, verify |-> FALSE, random |-> FALSE, start |-> 0, count |-> 1,
             file |-> "none"]
On(op, block, pages) == [Template EXCEPT !.op = op, !.block = block, !.pages = pages]
Lists == {All, <<1>>, <<1, 0>>, <<0, 0>>, <<>>, <<2>>}

Erases == {On("erase-block", b, All) : b \in {0, 2}}
          \cup {[Template EXCEPT !.op = "erase-chip", !.start = s, !.count = n] :
                  s \in 0..2, n \in {0, 1, 3}}
ProgramsOf(op, lists, inputs) ==
  {[On(op, 0, l) EXCEPT !.spare = s, !.input = i, !.verify = v, !.pad = p] :
     l \in lists, s \in BOOLEAN, i \in inputs, v \in BOOLEAN, p \in BOOLEAN}
Randoms == {[On("program-block", 0, l) EXCEPT !.random = TRUE, !.spare = s, !.verify = v] :
              l \in {All, <<0>>}, s \in BOOLEAN, v \in BOOLEAN}
Reading == {[On(op, 0, l) EXCEPT !.spare = s, !.input = i] :
              op \in {"verify-block", "read-block"}, l \in {All, <<1, 0>>, <<2>>}, s \in BOOLEAN,
              i \in {None, <<1>>, <<0, 2>>}}
           \cup {[On(op, 0, <<1>>) EXCEPT !.spare = s, !.input = i] :
              op \in {"verify-page", "read-page"}, s \in BOOLEAN, i \in {<<1>>, <<0, 2>>, Unreadable}}
           \cup {[On(op, 0, <<1>>) EXCEPT !.file = f] :
              op \in {"read-page", "read-block"}, f \in {"good", "bad"}}
NoReferenceData == {On("verify-page", 0, <<0>>)}
Scans == {On("scan", b, All) : b \in 0..1} \cup {On("scan-all", 0, All)}

AllCommands == Erases \cup ProgramsOf("program-page", {<<1>>}, {<<>>, <<1>>, <<0, 2>>, <<1, 1, 1>>, Unreadable})
               \cup ProgramsOf("program-block", Lists, {None, <<1>>, <<1, 0>>})
               \cup ProgramsOf("program-block", {All}, {Unreadable}) \cup Randoms
               \cup Reading \cup NoReferenceData \cup Scans

(* erased, factory bad block 1, and both pages of block 0 in use *)
Array(b0, b1) == (0 :> b0) @@ (1 :> b1)
BlockOf(p0, p1) == (0 :> p0) @@ (1 :> p1)
SomeArrays == {Array(BlockOf(Erased, Erased), BlockOf(<<2, 0>>, Erased)),
               Array(BlockOf(<<1, 2>>, <<0, 1>>), BlockOf(<<1, 1>>, <<2, 2>>))}

ErasedArray == {Array(BlockOf(Erased, Erased), BlockOf(Erased, Erased))}
UnverifiedPrograms == {On("program-block", 0, All)}
=============================================================================
