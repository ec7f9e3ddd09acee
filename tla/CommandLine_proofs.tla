--------------------------- MODULE CommandLine_proofs ---------------------------
(* For every table of commands and every call: what the registry finds, what the
   parser makes of a line, and when a handler runs.

   The registry first: its invariant says which keys are entered and which are
   still to come. Then the function that gives each word of a line its role, and
   the invariant that ties the parser to it: the words taken so far have been
   taken for what the whole line says they are. Last the table of a Lua call, whose
   entries stand on the line in blocks. *)
EXTENDS CommandLine, FiniteSetTheorems, SequenceTheorems, WellFoundedInduction, TLAPS

-----------------------------------------------------------------------------
(* Elements of sequences *)

LEMMA RangeOf ==
  ASSUME NEW S, NEW s \in Seq(S)
  PROVE  /\ Len(s) \in Nat /\ DOMAIN s = 1..Len(s)
         /\ \A x : x \in ToSet(s) <=> \E i \in 1..Len(s) : x = s[i]
         /\ ToSet(s) \subseteq S
<1>1. Len(s) \in Nat /\ DOMAIN s = 1..Len(s)
  BY LenProperties
<1>2. ToSet(s) = {s[i] : i \in 1..Len(s)}
  BY <1>1 DEF ToSet
<1>3. \A i \in 1..Len(s) : s[i] \in S
  BY ElementOfSeq
<1> QED  BY <1>1, <1>2, <1>3

LEMMA RangeOfTail ==
  ASSUME NEW S, NEW s \in Seq(S), s # <<>>
  PROVE  /\ Head(s) \in ToSet(s) /\ Tail(s) \in Seq(S)
         /\ ToSet(s) = {Head(s)} \cup ToSet(Tail(s))
<1> DEFINE rest == Tail(s)
<1>1. /\ rest \in Seq(S) /\ Len(rest) = Len(s) - 1 /\ Len(s) \in Nat \ {0} /\ Head(s) = s[1]
      /\ \A i \in 1..Len(rest) : rest[i] = s[i + 1]
  BY HeadTailProperties, LenProperties, EmptySeq
<1> HIDE DEF rest
<1>2. ASSUME NEW x PROVE x \in ToSet(s) <=> x = s[1] \/ x \in ToSet(rest)
  <2>1. ASSUME NEW i \in 1..Len(s), i # 1
        PROVE  i - 1 \in 1..Len(rest) /\ s[i] = rest[i - 1]
    <3>1. i - 1 \in 1..Len(rest) /\ (i - 1) + 1 = i
      BY <1>1, <2>1
    <3> QED  BY <1>1, <3>1
  <2>2. ASSUME NEW i \in 1..Len(rest) PROVE i + 1 \in 1..Len(s)
    BY <1>1
  <2>3. 1 \in 1..Len(s)
    BY <1>1
  <2>4. x \in ToSet(s) <=> \E i \in 1..Len(s) : x = s[i]
    BY RangeOf
  <2>5. x \in ToSet(rest) <=> \E i \in 1..Len(rest) : x = rest[i]
    BY <1>1, RangeOf
  <2>6. x \in ToSet(s) => x = s[1] \/ x \in ToSet(rest)
    BY <2>1, <2>4, <2>5
  <2>7. x \in ToSet(rest) => x \in ToSet(s)
    BY <1>1, <2>2, <2>4, <2>5
  <2>8. x = s[1] => x \in ToSet(s)
    BY <2>3, <2>4
  <2> QED  BY <2>6, <2>7, <2>8
<1>3. ToSet(s) = {s[1]} \cup ToSet(rest)
  BY <1>2
<1> QED  BY <1>1, <1>3 DEF rest

LEMMA RangeOfAppend ==
  ASSUME NEW S, NEW s \in Seq(S), NEW x \in S
  PROVE  /\ Append(s, x) \in Seq(S) /\ Len(Append(s, x)) = Len(s) + 1
         /\ ToSet(Append(s, x)) = ToSet(s) \cup {x}
<1> DEFINE t == Append(s, x)
<1>1. /\ t \in Seq(S) /\ Len(t) = Len(s) + 1 /\ Len(s) \in Nat /\ t[Len(s) + 1] = x
      /\ \A i \in 1..Len(s) : t[i] = s[i]
  BY AppendProperties, LenProperties
<1> HIDE DEF t
<1>2. ASSUME NEW y PROVE y \in ToSet(t) <=> y = x \/ y \in ToSet(s)
  <2>1. \A i \in 1..(Len(s) + 1) : i = Len(s) + 1 \/ i \in 1..Len(s)
    BY <1>1
  <2>2. Len(s) + 1 \in 1..(Len(s) + 1) /\ \A i \in 1..Len(s) : i \in 1..(Len(s) + 1)
    BY <1>1
  <2>3. y \in ToSet(s) <=> \E i \in 1..Len(s) : y = s[i]
    BY RangeOf
  <2>4. y \in ToSet(t) <=> \E i \in 1..(Len(s) + 1) : y = t[i]
    BY <1>1, RangeOf
  <2> QED  BY <1>1, <2>1, <2>2, <2>3, <2>4
<1> QED  BY <1>1, <1>2 DEF t

LEMMA RangeOfConcat ==
  ASSUME NEW S, NEW s \in Seq(S), NEW t \in Seq(S)
  PROVE  /\ s \o t \in Seq(S) /\ Len(s \o t) = Len(s) + Len(t)
         /\ ToSet(s \o t) = ToSet(s) \cup ToSet(t)
<1> DEFINE u == s \o t
<1>1. /\ u \in Seq(S) /\ Len(u) = Len(s) + Len(t) /\ Len(s) \in Nat /\ Len(t) \in Nat
      /\ \A i \in 1..(Len(s) + Len(t)) : u[i] = IF i <= Len(s) THEN s[i] ELSE t[i - Len(s)]
  BY ConcatProperties, LenProperties
<1> HIDE DEF u
<1>2. ASSUME NEW y PROVE y \in ToSet(u) <=> y \in ToSet(s) \/ y \in ToSet(t)
  <2>1. /\ y \in ToSet(s) <=> \E i \in 1..Len(s) : y = s[i]
        /\ y \in ToSet(t) <=> \E i \in 1..Len(t) : y = t[i]
    BY RangeOf
  <2>5. y \in ToSet(u) <=> \E i \in 1..Len(u) : y = u[i]
    BY <1>1, RangeOf
  <2>2. ASSUME NEW i \in 1..Len(s) PROVE i \in 1..Len(u) /\ u[i] = s[i]
    BY <1>1
  <2>3. ASSUME NEW i \in 1..Len(t) PROVE i + Len(s) \in 1..Len(u) /\ u[i + Len(s)] = t[i]
    <3>1. i + Len(s) \in 1..(Len(s) + Len(t)) /\ ~(i + Len(s) <= Len(s)) /\ (i + Len(s)) - Len(s) = i
      BY <1>1
    <3> QED  BY <1>1, <3>1
  <2>4. ASSUME NEW i \in 1..Len(u)
        PROVE  \/ i \in 1..Len(s) /\ u[i] = s[i]
               \/ i - Len(s) \in 1..Len(t) /\ u[i] = t[i - Len(s)]
    BY <1>1
  <2> QED  BY <2>1, <2>2, <2>3, <2>4, <2>5
<1> QED  BY <1>1, <1>2 DEF u

-----------------------------------------------------------------------------
(* The registry *)

(* find resolves an entered key to a command that claims it, and the keys of a
   stored command are entered, but for the pending ones of the last *)
KeyOf(key, i) == key = Wanted[i].name \/ key \in ToSet(Wanted[i].aliases)
KeysEntered ==
  /\ \A key \in DOMAIN lookup : lookup[key] \in 1..stored /\ KeyOf(key, lookup[key])
  /\ \A i \in 1..stored :
       /\ Wanted[i].name \in DOMAIN lookup /\ lookup[Wanted[i].name] = i
       /\ \A key \in ToSet(Wanted[i].aliases) :
            (key \in DOMAIN lookup /\ lookup[key] = i) \/ (i = stored /\ key \in ToSet(pending))

RegistryInv ==
  /\ table \in DOMAIN Tables /\ registration \in {"open", "ready", "terminated"}
  /\ stored \in 0..Len(Wanted)
  /\ pending \in Seq(STRING)
  /\ pending # <<>> => stored > 0 /\ ToSet(pending) \subseteq ToSet(Wanted[stored].aliases)
  /\ KeysEntered

LEMMA TableTypes ==
  ASSUME table \in DOMAIN Tables
  PROVE  /\ Wanted \in Seq(CommandSpec) /\ Len(Wanted) \in Nat
         /\ \A i \in 1..Len(Wanted) :
              /\ Wanted[i] \in CommandSpec /\ Distinct(Wanted[i].options)
              /\ Wanted[i].aliases \in Seq(STRING)
<1>1. Wanted \in Seq(CommandSpec) /\ \A i \in DOMAIN Wanted : Distinct(Wanted[i].options)
  BY RegistryAssumption DEF Wanted
<1>2. \A c \in CommandSpec : c.aliases \in Seq(STRING)
  BY DEF CommandSpec
<1> QED  BY <1>1, <1>2, LenProperties, ElementOfSeq

LEMMA InitRegistry == RegistryInit => RegistryInv
BY TableTypes DEF RegistryInit, RegistryInv, KeysEntered

LEMMA NamesKeep == RegistryInv /\ RegisterName => RegistryInv'
<1> SUFFICES ASSUME RegistryInv, RegisterName PROVE RegistryInv'
  OBVIOUS
<1>1. PICK c \in NextCommand :
        IF c.name \in DOMAIN lookup
        THEN Throws /\ UNCHANGED stored
        ELSE /\ stored' = stored + 1
             /\ lookup' = Entered(c.name) /\ pending' = c.aliases
             /\ UNCHANGED <<table, registration>>
  BY DEF RegisterName
<1>2. /\ registration = "open" /\ pending = <<>> /\ stored < Len(Wanted)
      /\ c = Wanted[stored + 1]
  BY <1>1 DEF NextCommand
<1>3. CASE c.name \in DOMAIN lookup
  BY <1>1, <1>3 DEF RegistryInv, KeysEntered, KeyOf, Throws, Wanted
<1>4. CASE c.name \notin DOMAIN lookup
  <2>1. /\ stored \in Nat /\ stored' = stored + 1 /\ stored' \in 1..Len(Wanted)
        /\ Wanted' = Wanted /\ table' = table /\ registration' = registration
        /\ pending' = c.aliases /\ c.aliases \in Seq(STRING)
    BY <1>1, <1>2, <1>4, TableTypes DEF RegistryInv, Wanted
  <2>2. /\ DOMAIN lookup' = DOMAIN lookup \cup {c.name} /\ lookup'[c.name] = stored + 1
        /\ \A key \in DOMAIN lookup : key # c.name /\ lookup'[key] = lookup[key]
    BY <1>1, <1>4 DEF Entered
  <2>3. \A key : \A i : KeyOf(key, i)' <=> KeyOf(key, i)
    BY <2>1 DEF KeyOf
  <2>4. ASSUME NEW key \in DOMAIN lookup'
        PROVE  lookup'[key] \in 1..stored' /\ KeyOf(key, lookup'[key])
    BY <1>2, <2>1, <2>2, <2>4 DEF RegistryInv, KeysEntered, KeyOf
  <2>5. ASSUME NEW i \in 1..stored'
        PROVE  /\ Wanted[i].name \in DOMAIN lookup' /\ lookup'[Wanted[i].name] = i
               /\ \A key \in ToSet(Wanted[i].aliases) :
                    (key \in DOMAIN lookup' /\ lookup'[key] = i) \/ (i = stored' /\ key \in ToSet(pending'))
    <3>1. CASE i = stored + 1
      BY <1>2, <2>1, <2>2, <3>1
    <3>2. CASE i # stored + 1
      <4>1. i \in 1..stored /\ ToSet(pending) = {}
        BY <1>2, <2>1, <3>2 DEF ToSet
      <4> QED  BY <2>2, <4>1 DEF RegistryInv, KeysEntered
    <3> QED  BY <3>1, <3>2
  <2>6. KeysEntered'
    BY <2>1, <2>3, <2>4, <2>5 DEF KeysEntered, KeyOf
  <2>7. stored' > 0 /\ ToSet(pending') \subseteq ToSet(Wanted'[stored'].aliases)
    BY <1>2, <2>1
  <2> QED  BY <1>2, <2>1, <2>6, <2>7 DEF RegistryInv
<1> QED  BY <1>3, <1>4

LEMMA AliasesKeep == RegistryInv /\ RegisterAlias => RegistryInv'
<1> SUFFICES ASSUME RegistryInv, RegisterAlias PROVE RegistryInv'
  OBVIOUS
<1> DEFINE alias == Head(pending)
<1>1. stored' = stored /\ registration = "open" /\ pending # <<>> /\ stored > 0
  BY DEF RegisterAlias, RegistryInv
<1>2. /\ alias \in ToSet(pending) /\ Tail(pending) \in Seq(STRING)
      /\ ToSet(pending) = {alias} \cup ToSet(Tail(pending))
  <2>1. pending \in Seq(STRING) /\ pending # <<>>
    BY <1>1 DEF RegistryInv
  <2> QED  BY <2>1, RangeOfTail
<1>3. CASE alias \in DOMAIN lookup
  BY <1>1, <1>3 DEF RegistryInv, KeysEntered, KeyOf, Throws, Wanted, RegisterAlias
<1>4. CASE alias \notin DOMAIN lookup
  <2>1. /\ lookup' = Entered(alias) /\ pending' = Tail(pending) /\ table' = table
        /\ registration' = registration /\ Wanted' = Wanted
    BY <1>4 DEF RegisterAlias, Wanted
  <2>2. /\ DOMAIN lookup' = DOMAIN lookup \cup {alias} /\ lookup'[alias] = stored
        /\ \A key \in DOMAIN lookup : key # alias /\ lookup'[key] = lookup[key]
    BY <1>1, <1>4, <2>1 DEF Entered
  <2> HIDE DEF alias
  <2>3. alias \in ToSet(Wanted[stored].aliases) /\ stored \in 1..stored
    BY <1>1, <1>2 DEF RegistryInv
  <2>4. ASSUME NEW key \in DOMAIN lookup'
        PROVE  lookup'[key] \in 1..stored' /\ KeyOf(key, lookup'[key])
    BY <1>1, <2>2, <2>3, <2>4 DEF RegistryInv, KeysEntered, KeyOf
  <2>5. ASSUME NEW i \in 1..stored'
        PROVE  /\ Wanted[i].name \in DOMAIN lookup' /\ lookup'[Wanted[i].name] = i
               /\ \A key \in ToSet(Wanted[i].aliases) :
                    (key \in DOMAIN lookup' /\ lookup'[key] = i) \/ (i = stored' /\ key \in ToSet(pending'))
    BY SMTT(30), <1>1, <1>2, <2>1, <2>2 DEF RegistryInv, KeysEntered
  <2>6. KeysEntered'
    BY <2>1, <2>4, <2>5 DEF KeysEntered, KeyOf
  <2> QED  BY <1>1, <1>2, <2>1, <2>6 DEF RegistryInv
<1> QED  BY <1>3, <1>4

LEMMA RegistrySteps ==
  ASSUME RegistryInv, Register \/ UNCHANGED registry
  PROVE  RegistryInv'
<1>1. CASE RegisterName
  BY <1>1, NamesKeep
<1>2. CASE RegisterAlias
  BY <1>2, AliasesKeep
<1>3. CASE Ready
  BY <1>3 DEF Ready, RegistryInv, KeysEntered, KeyOf, Wanted
<1>4. CASE UNCHANGED registry
  BY <1>4 DEF registry, RegistryInv, KeysEntered, KeyOf, Wanted
<1> QED  BY <1>1, <1>2, <1>3, <1>4 DEF Register

LEMMA RegistryAlways == Spec => []RegistryInv
<1>1. Init => RegistryInv
  BY InitRegistry DEF Init
<1>2. RegistryInv /\ [Next]_vars => RegistryInv'
  <2> SUFFICES ASSUME RegistryInv, [Next]_vars PROVE RegistryInv'
    OBVIOUS
  <2>1. Register \/ UNCHANGED registry
    BY DEF Next, vars
  <2> QED  BY <2>1, RegistrySteps
<1> QED  BY <1>1, <1>2, PTL DEF Spec

LEMMA FoundBy == \A name, i : i \in Find(name) <=> name \in DOMAIN lookup /\ lookup[name] = i
BY DEF Find

LEMMA StoredCommands ==
  ASSUME RegistryInv
  PROVE  /\ DOMAIN commands = 1..stored
         /\ \A i \in 1..stored :
              /\ commands[i] = Wanted[i]
              /\ \A key : key \in ToSet(Keys(Wanted[i])) <=> KeyOf(key, i)
<1>1. /\ Wanted \in Seq(CommandSpec) /\ stored \in 0..Len(Wanted) /\ Len(Wanted) \in Nat
      /\ \A i \in 1..stored : i \in 1..Len(Wanted)
  BY TableTypes DEF RegistryInv
<1>2. \A i \in 1..stored : Wanted[i] \in CommandSpec
  BY <1>1, TableTypes DEF RegistryInv
<1>3. commands \in Seq(CommandSpec) /\ Len(commands) = stored /\ \A i \in 1..stored : commands[i] = Wanted[i]
  <2>1. /\ Len(SubSeq(Wanted, 1, stored)) = (IF 1 <= stored THEN stored - 1 + 1 ELSE 0)
        /\ \A i \in 1..(stored - 1 + 1) : SubSeq(Wanted, 1, stored)[i] = Wanted[1 + i - 1]
        /\ SubSeq(Wanted, 1, stored) \in Seq(CommandSpec)
    BY <1>1, <1>2, SubSeqProperties
  <2> QED  BY <1>1, <2>1 DEF commands
<1>4. ASSUME NEW i \in 1..stored, NEW key
      PROVE  key \in ToSet(Keys(Wanted[i])) <=> KeyOf(key, i)
  <2> DEFINE name == Wanted[i].name
             others == Wanted[i].aliases
  <2>1. name \in STRING /\ others \in Seq(STRING) /\ <<name>> \in Seq(STRING)
    BY <1>2 DEF CommandSpec
  <2>2. ToSet(<<name>>) = {name} /\ Keys(Wanted[i]) = <<name>> \o others
    BY DEF ToSet, Keys
  <2> HIDE DEF name, others
  <2>3. ToSet(<<name>> \o others) = ToSet(<<name>>) \cup ToSet(others)
    BY ZenonT(30), <2>1, RangeOfConcat
  <2> QED  BY <2>2, <2>3 DEF KeyOf, name, others
<1> QED  BY <1>1, <1>3, <1>4, LenProperties

(* FindsItsCommand, from the registry's invariant alone: it holds in every
   state, before and after the registry is complete. *)
THEOREM RegistryFinds == Spec => []FindsItsCommand
<1>1. ASSUME RegistryInv PROVE FindsItsCommand
  <2>1. /\ DOMAIN commands = 1..stored /\ \A i \in 1..stored : commands[i] = Wanted[i]
        /\ \A i \in 1..stored : \A key : key \in ToSet(Keys(commands[i])) <=> KeyOf(key, i)
    BY <1>1, StoredCommands
  <2>2. \A key \in DOMAIN lookup : key \in ToSet(Keys(commands[lookup[key]]))
    BY <1>1, <2>1 DEF RegistryInv, KeysEntered
  <2>3. ASSUME NEW i \in 1..stored
        PROVE  /\ i \in Find(commands[i].name)
               /\ \A key \in ToSet(Keys(commands[i])) :
                    i \notin Find(key) => i = stored /\ key \in ToSet(pending)
    <3>1. /\ Wanted[i].name \in DOMAIN lookup /\ lookup[Wanted[i].name] = i
          /\ \A key \in ToSet(Wanted[i].aliases) :
               (key \in DOMAIN lookup /\ lookup[key] = i) \/ (i = stored /\ key \in ToSet(pending))
      BY <1>1 DEF RegistryInv, KeysEntered
    <3>2. i \in Find(commands[i].name)
      BY <2>1, <3>1, FoundBy
    <3>3. ASSUME NEW key \in ToSet(Keys(commands[i])), i \notin Find(key)
          PROVE  i = stored /\ key \in ToSet(pending)
      <4>1. ~(key \in DOMAIN lookup /\ lookup[key] = i)
        BY <3>3, FoundBy
      <4>2. key = Wanted[i].name \/ key \in ToSet(Wanted[i].aliases)
        BY <2>1, <3>3 DEF KeyOf
      <4> QED  BY <3>1, <4>1, <4>2
    <3> QED  BY <3>2, <3>3
  <2> QED  BY <2>1, <2>2, <2>3 DEF FindsItsCommand
<1> QED  BY <1>1, RegistryAlways, PTL

-----------------------------------------------------------------------------
(* Roles *)

(* the words of a line: those of the user, and the options of a Lua call *)
LineWord == UserWord \cup {Long(key) : key \in STRING}
            \cup {Word("true"), Word("false"), Long("force"), Long("help")}
Texts == {w.text : w \in LineWord}

LEMMA LineWordFields ==
  \A w \in LineWord :
    /\ w.dash \in 0..2 /\ w.text \in Texts
    /\ w.glued \in Seq(STRING) /\ Len(w.glued) <= 1 /\ (w.dash = 1 => w.name # "")
<1> SUFFICES ASSUME NEW w \in LineWord
             PROVE  /\ w.dash \in 0..2
                    /\ w.glued \in Seq(STRING) /\ Len(w.glued) <= 1 /\ (w.dash = 1 => w.name # "")
  BY DEF Texts
<1>1. CASE w \in UserWord
  BY <1>1 DEF UserWord
<1>2. ASSUME NEW key, w = Long(key)
      PROVE  /\ w.dash \in 0..2
             /\ w.glued \in Seq(STRING) /\ Len(w.glued) <= 1 /\ (w.dash = 1 => w.name # "")
  BY <1>2, EmptySeq DEF Long
<1>3. ASSUME NEW text, w = Word(text)
      PROVE  /\ w.dash \in 0..2
             /\ w.glued \in Seq(STRING) /\ Len(w.glued) <= 1 /\ (w.dash = 1 => w.name # "")
  <2>1. w.dash = 0 /\ w.glued = <<>>
    BY <1>3 DEF Word
  <2> QED  BY <2>1, EmptySeq
<1> QED  BY <1>1, <1>2, <1>3 DEF LineWord

(* a word is one thing only *)
LEMMA FlagsDiffer ==
  \A w : /\ ~(IsFlag(w, "help", "h") /\ IsFlag(w, "force", "f"))
         /\ w = Dashes => ~IsFlag(w, "help", "h") /\ ~IsFlag(w, "force", "f") /\ w.dash = 2
         /\ IsFlag(w, "help", "h") \/ IsFlag(w, "force", "f") => w.dash # 0
<1>1. Dashes.dash = 2 /\ Dashes.name = ""
  BY DEF Dashes, Long
<1>2. \A w : w.dash = 2 => w.dash # 1 /\ w.dash # 0
  OBVIOUS
<1>3. \A w : w.dash = 1 => w.dash # 0
  OBVIOUS
<1> QED  BY <1>1, <1>2, <1>3 DEF IsFlag

IsRole(words, role) ==
  DOMAIN role = 1..Len(words) /\ \A i \in 1..Len(words) : role[i] = RoleOf(words, role, i)

Waits(words, role, i) == i > 1 /\ role[i - 1] = "option" /\ AsksForValue(words[i - 1])

LEMMA RoleOfCases ==
  ASSUME NEW words, NEW role, NEW i
  PROVE  /\ Waits(words, role, i) => RoleOf(words, role, i) = "value"
         /\ ~Waits(words, role, i) =>
              RoleOf(words, role, i) =
                IF \E j \in 1..(i - 1) : Ends(role, j) THEN "word"
                ELSE IF words[i] = Dashes THEN "end"
                ELSE IF IsFlag(words[i], "help", "h") THEN "help"
                ELSE IF IsFlag(words[i], "force", "f") THEN "force"
                ELSE IF words[i].dash > 0 THEN "option" ELSE "word"
<1>1. RoleOf(words, role, i) =
        IF Waits(words, role, i) THEN "value"
        ELSE IF \E j \in 1..(i - 1) : Ends(role, j) THEN "word"
        ELSE IF words[i] = Dashes THEN "end"
        ELSE IF IsFlag(words[i], "help", "h") THEN "help"
        ELSE IF IsFlag(words[i], "force", "f") THEN "force"
        ELSE IF words[i].dash > 0 THEN "option" ELSE "word"
  BY DEF RoleOf, Waits
<1> QED  BY <1>1

LEMMA RoleLooksBack ==
  ASSUME NEW words, NEW f, NEW g, NEW i \in Nat, \A j \in 1..(i - 1) : f[j] = g[j]
  PROVE  RoleOf(words, f, i) = RoleOf(words, g, i)
<1>1. i > 1 => f[i - 1] = g[i - 1]
  OBVIOUS
<1>2. \A j \in 1..(i - 1) : Ends(f, j) <=> Ends(g, j)
  BY DEF Ends
<1>3. (\E j \in 1..(i - 1) : Ends(f, j)) <=> (\E j \in 1..(i - 1) : Ends(g, j))
  BY <1>2
<1>4. (i > 1 /\ f[i - 1] = "option" /\ AsksForValue(words[i - 1]))
      <=> (i > 1 /\ g[i - 1] = "option" /\ AsksForValue(words[i - 1]))
  BY <1>1
<1> QED  BY <1>3, <1>4, Zenon DEF RoleOf

(* the function Roles defines is there, and is the only one *)
LEMMA LeastNumber ==
  ASSUME NEW T, T \subseteq Nat, T # {}
  PROVE  \E x \in T : \A y \in T : x <= y
<1>1. PICK x \in T : \A y \in T : <<y, x>> \notin OpToRel(<, Nat)
  BY WFMin, NatLessThanWellFounded, Zenon
<1>2. \A y \in T : ~(y < x)
  BY <1>1, Zenon DEF OpToRel
<1> QED  BY <1>2

LEMMA RolesUpTo ==
  ASSUME NEW words
  PROVE  \A n \in Nat : \E f : f = [i \in 1..n |-> RoleOf(words, f, i)]
<1> DEFINE Is(f, n) == f = [i \in 1..n |-> RoleOf(words, f, i)]
           T == {n \in Nat : ~ \E f : Is(f, n)}
<1> SUFFICES ASSUME T # {} PROVE FALSE
  OBVIOUS
<1>1. PICK n \in T : \A m \in T : n <= m
  BY LeastNumber
<1>2. n # 0
  <2> SUFFICES ASSUME n = 0 PROVE FALSE
    OBVIOUS
  <2>1. Is([i \in 1..0 |-> 0], 0)
    BY SMT
  <2> QED  BY <1>1, <2>1
<1>3. PICK f : Is(f, n - 1)
  BY <1>1, <1>2
<1>4. Is([i \in 1..n |-> RoleOf(words, f, i)], n)
  <2> DEFINE g == [i \in 1..n |-> RoleOf(words, f, i)]
  <2>1. \A j \in 1..(n - 1) : f[j] = RoleOf(words, f, j)
    BY <1>3
  <2>2. \A j \in 1..n : g[j] = RoleOf(words, f, j)
    OBVIOUS
  <2>3. ASSUME NEW i \in 1..n PROVE RoleOf(words, f, i) = RoleOf(words, g, i)
    <3>1. n \in Nat /\ i \in Nat /\ \A j \in 1..(i - 1) : j \in 1..(n - 1) /\ j \in 1..n
      BY <1>1
    <3> HIDE DEF g
    <3>2. \A j \in 1..(i - 1) : f[j] = g[j]
      BY <2>1, <2>2, <3>1
    <3> QED  BY <3>1, <3>2, RoleLooksBack
  <2>4. g = [i \in 1..n |-> RoleOf(words, g, i)]
    BY <2>3, Zenon
  <2> QED  BY <2>4
<1> QED  BY <1>1, <1>4

LEMMA RolesAre ==
  ASSUME NEW words, Len(words) \in Nat
  PROVE  IsRole(words, Roles(words))
<1> DEFINE Is(f) == f = [i \in 1..Len(words) |-> RoleOf(words, f, i)]
<1>1. \E f : Is(f)
  BY RolesUpTo
<1>2. Roles(words) = CHOOSE f : Is(f)
  BY DEF Roles
<1>3. Is(Roles(words))
  BY <1>1, <1>2
<1> QED  BY <1>3 DEF IsRole

-----------------------------------------------------------------------------
(* The options of a command *)

CommandOK == TheCommand \in CommandSpec /\ Distinct(TheCommand.options)

LEMMA OptionsOfCommand ==
  ASSUME CommandOK
  PROVE  /\ \A o \in ToSet(TheCommand.options) :
              o \in OptionSpec /\ o.long # "" /\ o.long \in STRING /\ o.requires_value \in BOOLEAN
         /\ \A o, p \in ToSet(TheCommand.options) :
              o.long = p.long \/ (o.short # None /\ o.short = p.short) => o = p
<1>1. TheCommand.options \in Seq(OptionSpec)
  BY DEF CommandOK, CommandSpec
<1> DEFINE opts == TheCommand.options
<1>2. /\ DOMAIN opts = 1..Len(opts) /\ ToSet(opts) \subseteq OptionSpec
      /\ \A x : x \in ToSet(opts) <=> \E i \in 1..Len(opts) : x = opts[i]
  BY <1>1, RangeOf
<1>3. Distinct(opts)
  BY DEF CommandOK
<1> HIDE DEF opts
<1>4. \A o \in OptionSpec : o.long \in STRING /\ o.requires_value \in BOOLEAN
  BY DEF OptionSpec
<1>5. \A i \in 1..Len(opts) : opts[i].long # ""
  BY <1>2, <1>3 DEF Distinct
<1>6. ASSUME NEW o \in ToSet(opts), NEW p \in ToSet(opts),
             o.long = p.long \/ (o.short # None /\ o.short = p.short)
      PROVE  o = p
  <2>1. PICK i \in 1..Len(opts) : o = opts[i]
    BY <1>2
  <2>2. PICK j \in 1..Len(opts) : p = opts[j]
    BY <1>2
  <2> QED  BY <1>2, <1>3, <1>6, <2>1, <2>2 DEF Distinct
<1>7. \A o \in ToSet(opts) : o \in OptionSpec /\ o.long # ""
  BY <1>2, <1>5
<1> QED  BY <1>4, <1>6, <1>7 DEF opts

LEMMA OneOption ==
  ASSUME CommandOK
  PROVE  /\ \A w \in LineWord : \A o, p \in OptionOf(w) : o = p
         /\ \A key : \A o, p \in SpecOf(key) : o = p
         /\ \A w : OptionOf(w) \subseteq ToSet(TheCommand.options)
         /\ \A key : SpecOf(key) \subseteq ToSet(TheCommand.options)
<1>1. \A o, p \in ToSet(TheCommand.options) :
        o.long = p.long \/ (o.short # None /\ o.short = p.short) => o = p
  BY OptionsOfCommand
<1>2. \A key : \A o, p \in SpecOf(key) : o = p
  BY <1>1 DEF SpecOf
<1>3. ASSUME NEW w \in LineWord, NEW o \in OptionOf(w), NEW p \in OptionOf(w) PROVE o = p
  <2>1. w.dash = 1 => w.name # ""
    BY LineWordFields
  <2>2. /\ o \in ToSet(TheCommand.options) /\ p \in ToSet(TheCommand.options)
        /\ (w.dash = 2 /\ o.long = w.name) \/ (w.dash = 1 /\ o.short = w.name)
        /\ (w.dash = 2 /\ p.long = w.name) \/ (w.dash = 1 /\ p.short = w.name)
    BY <1>3 DEF OptionOf
  <2>3. CASE w.dash = 1
    <3>1. w.name # None
      BY <2>1, <2>3, Zenon DEF None
    <3>2. w.dash # 2
      BY <2>3
    <3> QED  BY <1>1, <2>2, <3>1, <3>2
  <2>4. CASE w.dash # 1
    BY <1>1, <2>2, <2>4
  <2> QED  BY <2>3, <2>4
<1> QED  BY <1>2, <1>3 DEF OptionOf, SpecOf

(* the words of a line mean the same as long as the command does *)
LEMMA SameMeaning ==
  ASSUME TheCommand' = TheCommand
  PROVE  /\ \A w : OptionOf(w)' = OptionOf(w) /\ (AsksForValue(w)' <=> AsksForValue(w))
         /\ \A role, j : Ends(role, j)' <=> Ends(role, j)
         /\ \A key : SpecOf(key)' = SpecOf(key)
         /\ \A words, role : IsRole(words, role)' <=> IsRole(words, role)
         /\ \A words, role, i : BadOption(words, role, i)' <=> BadOption(words, role, i)
         /\ \A words, role, o : PlacesOf(words, role, o)' = PlacesOf(words, role, o)
         /\ CommandOK' <=> CommandOK
<1>1. \A w : OptionOf(w)' = OptionOf(w)
  BY DEF OptionOf
<1>2. \A w : AsksForValue(w)' <=> AsksForValue(w)
  BY <1>1 DEF AsksForValue
<1>3. \A role, j : Ends(role, j)' <=> Ends(role, j)
  BY DEF Ends
<1>4. ASSUME NEW words, NEW role PROVE IsRole(words, role)' <=> IsRole(words, role)
  <2>1. ASSUME NEW i PROVE RoleOf(words, role, i)' = RoleOf(words, role, i)
    <3>1. (\E j \in 1..(i - 1) : Ends(role, j)') <=> (\E j \in 1..(i - 1) : Ends(role, j))
      BY <1>3
    <3> QED  BY <1>2, <3>1, Zenon DEF RoleOf
  <2> QED  BY <2>1 DEF IsRole
<1>5. \A words, role, i : BadOption(words, role, i)' <=> BadOption(words, role, i)
  BY <1>1 DEF BadOption
<1>6. \A words, role, o : PlacesOf(words, role, o)' = PlacesOf(words, role, o)
  BY <1>1 DEF PlacesOf
<1>7. CommandOK' <=> CommandOK
  BY DEF CommandOK, Distinct
<1>8. \A key : SpecOf(key)' = SpecOf(key)
  BY DEF SpecOf
<1> QED  BY <1>1, <1>2, <1>3, <1>4, <1>5, <1>6, <1>7, <1>8

-----------------------------------------------------------------------------
(* The parser: the words taken so far have been taken for what they are *)

Taken(words) == Len(words) - Len(args)

Follows(words, role) ==
  /\ words \in Seq(LineWord) /\ IsRole(words, role)
  /\ args \in Seq(LineWord) /\ Len(args) <= Len(words)
  /\ \A i \in 1..Len(args) : args[i] = words[Taken(words) + i]
  /\ Taken(words) > 0 => ~(role[Taken(words)] = "option" /\ AsksForValue(words[Taken(words)]))
  /\ WordsOnly <=> \E j \in 1..Taken(words) : Ends(role, j)
  /\ help <=> \E j \in 1..Taken(words) : role[j] = "help"
  /\ force <=> \E j \in 1..Taken(words) : role[j] = "force"

(* the role of the word at the front *)
RoleOfHead(word) ==
  IF WordsOnly THEN "word"
  ELSE IF word = Dashes THEN "end"
  ELSE IF IsFlag(word, "help", "h") THEN "help"
  ELSE IF IsFlag(word, "force", "f") THEN "force"
  ELSE IF word.dash > 0 THEN "option" ELSE "word"

LEMMA NextWord ==
  ASSUME NEW words, NEW role, Follows(words, role), args # <<>>,
         NEW n, n = Taken(words)
  PROVE  /\ n \in Nat /\ n + 1 \in 1..Len(words) /\ Len(words) \in Nat
         /\ Len(args) \in Nat /\ Len(args) = Len(words) - n
         /\ Head(args) = words[n + 1] /\ Head(args) \in LineWord
         /\ Tail(args) \in Seq(LineWord) /\ Len(Tail(args)) = Len(args) - 1
         /\ \A i \in 1..Len(Tail(args)) : Tail(args)[i] = words[n + 1 + i]
         /\ role[n + 1] = RoleOfHead(words[n + 1])
<1>1. /\ words \in Seq(LineWord) /\ args \in Seq(LineWord) /\ Len(args) <= Len(words)
      /\ n = Len(words) - Len(args)
  BY DEF Follows, Taken
<1>2. /\ Len(words) \in Nat /\ Len(args) \in Nat \ {0}
      /\ Head(args) = args[1] /\ Head(args) \in LineWord
      /\ Tail(args) \in Seq(LineWord) /\ Len(Tail(args)) = Len(args) - 1
      /\ \A i \in 1..Len(Tail(args)) : Tail(args)[i] = args[i + 1]
  BY <1>1, HeadTailProperties, LenProperties, EmptySeq
<1>3. n \in Nat /\ n + 1 \in 1..Len(words) /\ Len(args) = Len(words) - n
  BY <1>1, <1>2
<1>4. \A i \in 1..Len(args) : args[i] = words[n + i]
  BY DEF Follows
<1>5. Head(args) = words[n + 1]
  BY <1>2, <1>4
<1>6. ASSUME NEW i \in 1..Len(Tail(args)) PROVE Tail(args)[i] = words[n + 1 + i]
  <2>1. i + 1 \in 1..Len(args) /\ n + (i + 1) = n + 1 + i
    BY SMTT(30), <1>2, <1>3
  <2> QED  BY <1>2, <1>4, <2>1
<1>7. ASSUME NEW i \in 1..Len(words), i = n + 1 PROVE role[i] = RoleOfHead(words[i])
  <2>1. i - 1 = n /\ (i > 1 <=> n > 0)
    BY <1>3, <1>7
  <2>2. role[i] = RoleOf(words, role, i)
    BY DEF Follows, IsRole
  <2>3. ~Waits(words, role, i)
    <3>1. n > 0 => ~(role[n] = "option" /\ AsksForValue(words[n]))
      BY DEF Follows
    <3> QED  BY <2>1, <3>1 DEF Waits
  <2>4. RoleOf(words, role, i) =
          IF \E j \in 1..(i - 1) : Ends(role, j) THEN "word"
          ELSE IF words[i] = Dashes THEN "end"
          ELSE IF IsFlag(words[i], "help", "h") THEN "help"
          ELSE IF IsFlag(words[i], "force", "f") THEN "force"
          ELSE IF words[i].dash > 0 THEN "option" ELSE "word"
    BY <2>3, RoleOfCases
  <2>5. (\E j \in 1..(i - 1) : Ends(role, j)) <=> WordsOnly
    BY <2>1 DEF Follows
  <2> QED  BY <2>2, <2>4, <2>5 DEF RoleOfHead
<1> QED  BY <1>2, <1>3, <1>5, <1>6, <1>7

LEMMA WordTaken ==
  ASSUME NEW words, NEW role, Follows(words, role), args # <<>>, TheCommand' = TheCommand,
         NEW n, n = Taken(words), args' = Tail(args),
         ~(role[n + 1] = "option" /\ AsksForValue(words[n + 1])),
         WordsOnly' <=> WordsOnly \/ Ends(role, n + 1),
         help' <=> help \/ role[n + 1] = "help",
         force' <=> force \/ role[n + 1] = "force"
  PROVE  Follows(words, role)' /\ Taken(words)' = n + 1
<1>1. /\ n \in Nat /\ n + 1 \in 1..Len(words) /\ Len(words) \in Nat
      /\ Len(args) \in Nat /\ Len(args) = Len(words) - n
      /\ args' \in Seq(LineWord) /\ Len(args') = Len(args) - 1
      /\ \A i \in 1..Len(args') : args'[i] = words[n + 1 + i]
  BY NextWord
<1>2. Taken(words)' = n + 1 /\ Len(args') <= Len(words) /\ n + 1 > 0
  BY <1>1 DEF Taken
<1>3. words \in Seq(LineWord) /\ IsRole(words, role)'
  BY SameMeaning DEF Follows
<1>4. \A j : j \in 1..(n + 1) <=> j \in 1..n \/ j = n + 1
  BY SMTT(30), <1>1
<1>5. /\ WordsOnly <=> \E j \in 1..n : Ends(role, j)
      /\ help <=> \E j \in 1..n : role[j] = "help"
      /\ force <=> \E j \in 1..n : role[j] = "force"
  BY DEF Follows
<1>6. WordsOnly' <=> \E j \in 1..(n + 1) : Ends(role, j)'
  BY <1>4, <1>5, SameMeaning
<1>7. help' <=> \E j \in 1..(n + 1) : role[j] = "help"
  BY <1>4, <1>5
<1>8. force' <=> \E j \in 1..(n + 1) : role[j] = "force"
  BY <1>4, <1>5
<1>9. ~(role[n + 1] = "option" /\ AsksForValue(words[n + 1])')
  BY SameMeaning
<1> QED  BY <1>1, <1>2, <1>3, <1>6, <1>7, <1>8, <1>9 DEF Follows

LEMMA TwoOff ==
  ASSUME NEW S, NEW s \in Seq(S), Len(s) > 1
  PROVE  /\ Tail(Tail(s)) \in Seq(S) /\ Len(Tail(Tail(s))) = Len(s) - 2
         /\ \A i \in 1..(Len(s) - 2) : Tail(Tail(s))[i] = s[i + 2]
<1> DEFINE rest == Tail(s)
<1>1. s # <<>> /\ Len(s) \in Nat
  BY LenProperties, EmptySeq
<1>2. /\ rest \in Seq(S) /\ Len(rest) = Len(s) - 1
      /\ \A i \in 1..Len(rest) : rest[i] = s[i + 1]
  BY <1>1, HeadTailProperties
<1> HIDE DEF rest
<1>3. rest # <<>>
  BY <1>1, <1>2, EmptySeq
<1> DEFINE last == Tail(rest)
<1>4. /\ last \in Seq(S) /\ Len(last) = Len(rest) - 1
      /\ \A i \in 1..Len(last) : last[i] = rest[i + 1]
  BY <1>2, <1>3, HeadTailProperties
<1> HIDE DEF last
<1>5. Len(last) = Len(s) - 2
  BY <1>1, <1>2, <1>4
<1>6. ASSUME NEW i \in 1..(Len(s) - 2) PROVE last[i] = s[i + 2]
  <2>1. i \in 1..Len(last) /\ i + 1 \in 1..Len(rest) /\ (i + 1) + 1 = i + 2
    BY <1>1, <1>2, <1>5
  <2> QED  BY <1>2, <1>4, <2>1
<1> QED  BY <1>4, <1>5, <1>6 DEF rest, last

LEMMA OneMore == \A n \in Nat : \A j : j \in 1..(n + 1) <=> j \in 1..n \/ j = n + 1
OBVIOUS

LEMMA ValueTaken ==
  ASSUME NEW words, NEW role, Follows(words, role), TheCommand' = TheCommand,
         NEW n, n = Taken(words), Len(args) > 1,
         args' \in Seq(LineWord), Len(args') = Len(args) - 2,
         \A i \in 1..(Len(args) - 2) : args'[i] = args[i + 2],
         role[n + 1] = "option", AsksForValue(words[n + 1]),
         WordsOnly' = WordsOnly, help' = help, force' = force
  PROVE  /\ Follows(words, role)' /\ Taken(words)' = n + 2
         /\ n + 2 \in 1..Len(words) /\ role[n + 2] = "value" /\ args[2] = words[n + 2]
<1>1. /\ n \in Nat /\ n + 2 \in 1..Len(words) /\ Len(words) \in Nat
      /\ Len(args) \in Nat /\ Len(args) = Len(words) - n
  BY SMTT(30), LenProperties DEF Follows, Taken
<1>3. \A i \in 1..Len(args) : args[i] = words[n + i]
  BY DEF Follows
<1>4. ASSUME NEW i \in 1..(Len(args) - 2) PROVE args'[i] = words[n + 2 + i]
  <2>1. i + 2 \in 1..Len(args)
    BY SMTT(30), <1>1
  <2>2. n + (i + 2) = n + 2 + i
    BY <1>1
  <2> QED  BY <1>3, <2>1, <2>2
<1>5. role[n + 2] = "value"
  <2> SUFFICES ASSUME NEW i \in 1..Len(words), i = n + 2 PROVE role[i] = "value"
    BY <1>1
  <2>1. i > 1 /\ i - 1 = n + 1
    BY SMTT(30), <1>1
  <2>2. role[i] = RoleOf(words, role, i)
    BY DEF Follows, IsRole
  <2>3. Waits(words, role, i)
    BY <2>1 DEF Waits
  <2> QED  BY <2>2, <2>3, RoleOfCases
<1>6. args[2] = words[n + 2]
  <2>1. 2 \in 1..Len(args)
    BY <1>1
  <2> QED  BY <1>3, <2>1
<1>7. Taken(words)' = n + 2 /\ Len(args') <= Len(words)
  BY <1>1 DEF Taken
<1>8. words \in Seq(LineWord) /\ IsRole(words, role)'
  BY SameMeaning DEF Follows
<1>9. \A j : j \in 1..(n + 2) <=> j \in 1..n \/ j = n + 1 \/ j = n + 2
  <2>1. n + 2 = (n + 1) + 1 /\ n + 1 \in Nat /\ n \in Nat
    BY SMTT(30), <1>1
  <2> QED  BY <2>1, OneMore
<1>10. /\ WordsOnly <=> \E j \in 1..n : Ends(role, j)
       /\ help <=> \E j \in 1..n : role[j] = "help"
       /\ force <=> \E j \in 1..n : role[j] = "force"
  BY DEF Follows
<1>11. ~Ends(role, n + 1) /\ ~Ends(role, n + 2)
  BY <1>5 DEF Ends
<1>12. WordsOnly' <=> \E j \in 1..(n + 2) : Ends(role, j)'
  BY <1>9, <1>10, <1>11, SameMeaning
<1>13. help' <=> \E j \in 1..(n + 2) : role[j] = "help"
  BY <1>5, <1>9, <1>10
<1>14. force' <=> \E j \in 1..(n + 2) : role[j] = "force"
  BY <1>5, <1>9, <1>10
<1>15. Follows(words, role)'
  BY <1>1, <1>4, <1>5, <1>7, <1>8, <1>12, <1>13, <1>14 DEF Follows
<1> QED  BY <1>1, <1>5, <1>6, <1>7, <1>15

-----------------------------------------------------------------------------
(* What the parser has collected *)

Rank(i, T) == Cardinality({j \in T : j <= i})
SoFar(role, r, n) == {i \in With(role, r) : i <= n}
Before(words, role, o, n) == {j \in PlacesOf(words, role, o) : j <= n}

PositionalsAre(words, role, n) ==
  /\ positionals \in Seq(Texts)
  /\ Len(positionals) = Cardinality(SoFar(role, "word", n))
  /\ \A i \in SoFar(role, "word", n) : positionals[Rank(i, SoFar(role, "word", n))] = words[i].text

Values == Texts \cup STRING \cup {"true"}

ValuesAre(vals, words, role, n) ==
  /\ \A i \in SoFar(role, "option", n) : ~BadOption(words, role, i)
  /\ \A key : key \in DOMAIN vals <=>
       \E i \in SoFar(role, "option", n) : \E o \in OptionOf(words[i]) : o.long = key
  /\ \A i \in SoFar(role, "option", n) : \A o \in OptionOf(words[i]) :
       /\ vals[o.long] \in Seq(Values)
       /\ Len(vals[o.long]) = Cardinality(Before(words, role, o, n))
       /\ vals[o.long][Cardinality(Before(words, role, o, i))] = GivenValue(words, o, i)

LEMMA OneAdded ==
  ASSUME NEW n \in Nat, NEW T, T \subseteq 1..n
  PROVE  /\ IsFiniteSet(T) /\ Cardinality(T) \in Nat
         /\ Cardinality(T \cup {n + 1}) = Cardinality(T) + 1
<1>1. IsFiniteSet(1..n)
  BY FS_Interval
<1>2. IsFiniteSet(T)
  BY <1>1, FS_Subset
<1>3. n + 1 \notin T
  OBVIOUS
<1> QED  BY <1>2, <1>3, FS_CardinalityType, FS_AddElement

(* the place of an element among those added so far *)
LEMMA RankIs ==
  ASSUME NEW n \in Nat, NEW T, T \subseteq 1..n
  PROVE  /\ \A i \in T : Rank(i, T) \in 1..Cardinality(T)
         /\ \A i \in T : Rank(i, T \cup {n + 1}) = Rank(i, T)
         /\ Rank(n + 1, T \cup {n + 1}) = Cardinality(T) + 1
<1>1. ASSUME NEW i \in T PROVE Rank(i, T) \in 1..Cardinality(T) /\ Rank(i, T \cup {n + 1}) = Rank(i, T)
  <2> DEFINE U == {j \in T : j <= i}
  <2>1. i \in 1..n
    OBVIOUS
  <2>2. U \subseteq T /\ i \in U
    BY <2>1
  <2>3. {j \in T \cup {n + 1} : j <= i} = U
    BY <2>1
  <2> HIDE DEF U
  <2>4. IsFiniteSet(T) /\ Cardinality(T) \in Nat
    BY OneAdded
  <2>5. IsFiniteSet(U) /\ Cardinality(U) \in Nat /\ Cardinality(U) <= Cardinality(T)
    BY <2>2, <2>4, FS_Subset, FS_CardinalityType
  <2>6. Cardinality(U) # 0
    BY <2>2, <2>5, FS_EmptySet
  <2>7. Cardinality(U) \in 1..Cardinality(T)
    BY <2>4, <2>5, <2>6
  <2> QED  BY <2>3, <2>7 DEF Rank, U
<1>2. {j \in T \cup {n + 1} : j <= n + 1} = T \cup {n + 1}
  <2>1. \A j \in T \cup {n + 1} : j <= n + 1
    OBVIOUS
  <2> QED  BY <2>1
<1> QED  BY <1>1, <1>2, OneAdded DEF Rank

LEMMA SoFarGrows ==
  ASSUME NEW role, NEW n \in Nat, NEW len \in Nat, DOMAIN role = 1..len, n + 1 \in 1..len, NEW r
  PROVE  /\ SoFar(role, r, n) \subseteq 1..n
         /\ SoFar(role, r, n + 1) =
              IF role[n + 1] = r THEN SoFar(role, r, n) \cup {n + 1} ELSE SoFar(role, r, n)
<1>1. \A i : i \in SoFar(role, r, n) <=> i \in 1..len /\ role[i] = r /\ i <= n
  BY DEF SoFar, With
<1>2. \A i : i \in SoFar(role, r, n + 1) <=> i \in 1..len /\ role[i] = r /\ i <= n + 1
  BY DEF SoFar, With
<1>3. \A i \in 1..len : i <= n + 1 <=> i <= n \/ i = n + 1
  OBVIOUS
<1>4. \A i \in 1..len : i <= n => i \in 1..n
  OBVIOUS
<1>5. CASE role[n + 1] = r
  <2>1. \A i : i \in SoFar(role, r, n + 1) <=> i \in SoFar(role, r, n) \cup {n + 1}
    BY <1>1, <1>2, <1>3, <1>5
  <2> QED  BY <1>1, <1>4, <1>5, <2>1
<1>6. CASE role[n + 1] # r
  <2>1. \A i : i \in SoFar(role, r, n + 1) <=> i \in SoFar(role, r, n)
    BY <1>1, <1>2, <1>3, <1>6
  <2> QED  BY <1>1, <1>4, <1>6, <2>1
<1> QED  BY <1>5, <1>6

LEMMA BeforeGrows ==
  ASSUME CommandOK, NEW words \in Seq(LineWord), NEW role, IsRole(words, role), NEW o,
         NEW n \in Nat, NEW m \in 1..Len(words), m = n + 1
  PROVE  /\ Before(words, role, o, n) \subseteq 1..n
         /\ Before(words, role, o, n) \subseteq SoFar(role, "option", n)
         /\ Before(words, role, o, n) \subseteq PlacesOf(words, role, o)
         /\ Before(words, role, o, m) =
              IF m \in PlacesOf(words, role, o)
              THEN Before(words, role, o, n) \cup {m} ELSE Before(words, role, o, n)
<1> DEFINE P == PlacesOf(words, role, o)
<1>1. P \subseteq With(role, "option") /\ P \subseteq 1..Len(words)
  BY DEF PlacesOf, With, IsRole
<1>2. \A k, j : j \in Before(words, role, o, k) <=> j \in P /\ j <= k
  BY DEF Before
<1>3. \A j : j \in SoFar(role, "option", n) <=> j \in With(role, "option") /\ j <= n
  BY DEF SoFar
<1> HIDE DEF P
<1>4. \A j \in 1..Len(words) : /\ j <= m <=> j <= n \/ j = m
                               /\ j <= n => j \in 1..n
  BY LenProperties
<1>5. \A j : j \in Before(words, role, o, m) <=> j \in Before(words, role, o, n) \/ (j = m /\ m \in P)
  BY <1>1, <1>2, <1>4
<1>6. Before(words, role, o, m) = IF m \in P THEN Before(words, role, o, n) \cup {m} ELSE Before(words, role, o, n)
  BY <1>5
<1> QED  BY <1>1, <1>2, <1>3, <1>4, <1>6 DEF P

LEMMA PositionalTaken ==
  ASSUME NEW words \in Seq(LineWord), NEW role, IsRole(words, role),
         NEW n \in Nat, NEW m \in 1..Len(words), m = n + 1, PositionalsAre(words, role, n),
         \/ role[m] # "word" /\ positionals' = positionals
         \/ role[m] = "word" /\ positionals' = Append(positionals, words[m].text)
  PROVE  PositionalsAre(words, role, m)'
<1> DEFINE T == SoFar(role, "word", n)
           U == SoFar(role, "word", m)
<1>1. T \subseteq 1..n /\ U = IF role[m] = "word" THEN T \cup {m} ELSE T
  <2>1. DOMAIN role = 1..Len(words) /\ Len(words) \in Nat
    BY LenProperties DEF IsRole
  <2> QED  BY <2>1, SoFarGrows
<1>2. /\ positionals \in Seq(Texts) /\ Len(positionals) = Cardinality(T)
      /\ \A i \in T : positionals[Rank(i, T)] = words[i].text
  BY DEF PositionalsAre
<1> HIDE DEF T, U
<1>3. CASE role[m] # "word"
  <2>1. U = T /\ positionals' = positionals
    BY <1>1, <1>3
  <2> QED  BY <1>2, <2>1 DEF PositionalsAre, T, U
<1>4. CASE role[m] = "word"
  <2>1. U = T \cup {m} /\ positionals' = Append(positionals, words[m].text)
    BY <1>1, <1>4
  <2>2. words[m].text \in Texts
    BY ElementOfSeq, LineWordFields
  <2>3. /\ positionals' \in Seq(Texts) /\ Len(positionals') = Len(positionals) + 1
        /\ \A k \in 1..Len(positionals) : positionals'[k] = positionals[k]
        /\ positionals'[Len(positionals) + 1] = words[m].text
    BY <1>2, <2>1, <2>2, AppendProperties
  <2>4. Cardinality(U) = Cardinality(T) + 1
    BY <1>1, <2>1, OneAdded
  <2>5. /\ \A i \in T : Rank(i, T) \in 1..Cardinality(T) /\ Rank(i, U) = Rank(i, T)
        /\ Rank(m, U) = Cardinality(T) + 1
    <3>1. /\ \A i \in T : Rank(i, T) \in 1..Cardinality(T)
          /\ \A i \in T : Rank(i, T \cup {n + 1}) = Rank(i, T)
          /\ Rank(n + 1, T \cup {n + 1}) = Cardinality(T) + 1
      BY <1>1, RankIs, Zenon
    <3>2. n + 1 = m
      OBVIOUS
    <3> QED  BY <2>1, <3>1, <3>2, Zenon
  <2>6. ASSUME NEW i \in U PROVE positionals'[Rank(i, U)] = words[i].text
    <3>1. CASE i = m
      BY <1>2, <2>3, <2>5, <3>1
    <3>2. CASE i \in T
      BY <1>2, <2>3, <2>5, <3>2
    <3> QED  BY <2>1, <2>6, <3>1, <3>2
  <2> QED  BY <1>2, <2>3, <2>4, <2>6 DEF PositionalsAre, U
<1> QED  BY <1>3, <1>4

LEMMA ValuesKeep ==
  ASSUME CommandOK, NEW words \in Seq(LineWord), NEW role, IsRole(words, role), NEW vals,
         NEW n \in Nat, NEW m \in 1..Len(words), m = n + 1, role[m] # "option",
         ValuesAre(vals, words, role, n)
  PROVE  ValuesAre(vals, words, role, m)
<1>1. SoFar(role, "option", m) = SoFar(role, "option", n)
  <2>1. DOMAIN role = 1..Len(words) /\ Len(words) \in Nat
    BY LenProperties DEF IsRole
  <2> QED  BY <2>1, SoFarGrows
<1>2. ASSUME NEW o PROVE Before(words, role, o, m) = Before(words, role, o, n)
  <2>1. m \notin PlacesOf(words, role, o)
    BY DEF PlacesOf, With
  <2> QED  BY <2>1, BeforeGrows
<1> QED  BY <1>1, <1>2 DEF ValuesAre

(* the parser refuses an option exactly when the line as a whole says it is bad *)
BadFor(words, role, i, o) ==
  \/ ~o.requires_value /\ words[i].glued # <<>>
  \/ o.requires_value /\ words[i].glued = <<>> /\ i = Len(words)
  \/ ~o.repeatable /\ \E j \in With(role, "option") : j < i /\ OptionOf(words[j]) = {o}

LEMMA RefusedIsBad ==
  ASSUME CommandOK, NEW words \in Seq(LineWord), NEW role, IsRole(words, role),
         NEW n \in Nat, NEW m \in 1..Len(words), m = n + 1, Len(args) = Len(words) - n,
         ValuesAre(values, words, role, n), NEW o \in OptionOf(words[m])
  PROVE  OptionRefused(o, words[m]) <=> BadFor(words, role, m, o)
<1>1. Len(args) = 1 <=> m = Len(words)
  BY LenProperties
<1>2. o.long \in DOMAIN values <=> \E j \in With(role, "option") : j < m /\ OptionOf(words[j]) = {o}
  <2>1. \A j : j \in SoFar(role, "option", n) <=> j \in With(role, "option") /\ j < m
    <3>1. \A j \in 1..Len(words) : j <= n <=> j < m
      BY LenProperties
    <3>2. With(role, "option") \subseteq 1..Len(words)
      BY DEF With, IsRole
    <3> QED  BY <3>1, <3>2 DEF SoFar
  <2>2. ASSUME NEW j \in With(role, "option")
        PROVE  (\E p \in OptionOf(words[j]) : p.long = o.long) <=> OptionOf(words[j]) = {o}
    <3>1. words[j] \in LineWord /\ words[m] \in LineWord
      BY ElementOfSeq DEF With, IsRole
    <3>2. OptionOf(words[j]) \subseteq ToSet(TheCommand.options) /\ o \in ToSet(TheCommand.options)
      BY OneOption
    <3>3. \A p \in OptionOf(words[j]) : p.long = o.long => p = o
      BY <3>2, OptionsOfCommand
    <3>4. \A p, q \in OptionOf(words[j]) : p = q
      BY <3>1, OneOption
    <3> QED  BY <3>3, <3>4
  <2>3. o.long \in DOMAIN values <=>
          \E j \in SoFar(role, "option", n) : \E p \in OptionOf(words[j]) : p.long = o.long
    BY DEF ValuesAre
  <2> QED  BY <2>1, <2>2, <2>3
<1> QED  BY <1>1, <1>2 DEF OptionRefused, TakesNext, BadFor

LEMMA ValueAdded ==
  ASSUME CommandOK, NEW words \in Seq(LineWord), NEW role, IsRole(words, role), NEW vals,
         NEW n \in Nat, NEW m \in 1..Len(words), m = n + 1, role[m] = "option",
         ValuesAre(vals, words, role, n), NEW o \in OptionOf(words[m]), ~BadFor(words, role, m, o),
         NEW v \in Values, v = GivenValue(words, o, m)
  PROVE  ValuesAre(Push(vals, o.long, v), words, role, m)
<1> DEFINE new == Push(vals, o.long, v)
           Old(p) == Before(words, role, p, n)
           Now(p) == Before(words, role, p, m)
           Opts(i) == OptionOf(words[i])
<1>1. n + 1 \in 1..Len(words) /\ role[n + 1] = "option"
  OBVIOUS
<1>2. DOMAIN role = 1..Len(words) /\ Len(words) \in Nat /\ \A i \in 1..Len(words) : words[i] \in LineWord
  BY LenProperties, ElementOfSeq DEF IsRole
<1>3. /\ SoFar(role, "option", m) = SoFar(role, "option", n) \cup {m}
      /\ SoFar(role, "option", n) \subseteq 1..n
  BY <1>1, <1>2, SoFarGrows
<1>4. \A i \in 1..Len(words) : \A p, q \in Opts(i) : p = q
  BY <1>2, OneOption
<1>5. Opts(m) = {o}
  BY <1>4
<1>6. \A i \in 1..Len(words) : \A p \in Opts(i) : p \in ToSet(TheCommand.options)
  BY OneOption
<1>7. \A p \in ToSet(TheCommand.options) : p.long = o.long => p = o
  BY <1>5, <1>6, OptionsOfCommand
<1>8. ASSUME NEW p
      PROVE  /\ Old(p) \subseteq 1..n /\ Old(p) \subseteq SoFar(role, "option", n)
             /\ \A j \in Old(p) : Opts(j) = {p}
             /\ Now(p) = IF p = o THEN Old(p) \cup {m} ELSE Old(p)
  <2>1. /\ Old(p) \subseteq 1..n /\ Old(p) \subseteq SoFar(role, "option", n)
        /\ Old(p) \subseteq PlacesOf(words, role, p)
        /\ Now(p) = IF m \in PlacesOf(words, role, p) THEN Old(p) \cup {m} ELSE Old(p)
    BY BeforeGrows
  <2>2. m \in PlacesOf(words, role, p) <=> p = o
    BY <1>2, <1>5 DEF PlacesOf, With
  <2>3. \A j \in PlacesOf(words, role, p) : Opts(j) = {p}
    BY DEF PlacesOf
  <2> QED  BY <2>1, <2>2, <2>3
<1>9. /\ DOMAIN new = DOMAIN vals \cup {o.long}
      /\ \A key \in DOMAIN vals : key # o.long => new[key] = vals[key]
      /\ new[o.long] = IF o.long \in DOMAIN vals THEN Append(vals[o.long], v) ELSE <<v>>
  BY DEF Push
<1>10. /\ \A i \in SoFar(role, "option", n) : ~BadOption(words, role, i)
       /\ \A key : key \in DOMAIN vals <=> \E i \in SoFar(role, "option", n) : \E p \in Opts(i) : p.long = key
       /\ \A i \in SoFar(role, "option", n) : \A p \in Opts(i) :
            /\ vals[p.long] \in Seq(Values) /\ Len(vals[p.long]) = Cardinality(Old(p))
            /\ vals[p.long][Cardinality(Before(words, role, p, i))] = GivenValue(words, p, i)
  BY DEF ValuesAre
<1> HIDE DEF new, Old, Now
<1>11. /\ new[o.long] \in Seq(Values) /\ Len(new[o.long]) = Cardinality(Now(o))
       /\ new[o.long][Cardinality(Now(o))] = v
       /\ o.long \in DOMAIN vals =>
            \A k \in 1..Cardinality(Old(o)) : new[o.long][k] = vals[o.long][k]
  <2>1. Cardinality(Old(o)) \in Nat /\ Cardinality(Now(o)) = Cardinality(Old(o)) + 1
    BY <1>8, OneAdded
  <2>2. CASE o.long \in DOMAIN vals
    <3>1. PICK i \in SoFar(role, "option", n) : \E p \in Opts(i) : p.long = o.long
      BY <1>10, <2>2
    <3>2. o \in Opts(i)
      BY <1>2, <1>3, <1>6, <1>7, <3>1
    <3>3. vals[o.long] \in Seq(Values) /\ Len(vals[o.long]) = Cardinality(Old(o))
      BY <1>10, <3>2
    <3>4. /\ Append(vals[o.long], v) \in Seq(Values)
          /\ Len(Append(vals[o.long], v)) = Len(vals[o.long]) + 1
          /\ Append(vals[o.long], v)[Len(vals[o.long]) + 1] = v
          /\ \A k \in 1..Len(vals[o.long]) : Append(vals[o.long], v)[k] = vals[o.long][k]
      BY SMTT(30), <3>3, AppendProperties
    <3> QED  BY <1>9, <2>1, <2>2, <3>3, <3>4
  <2>3. CASE o.long \notin DOMAIN vals
    <3>1. ASSUME NEW j \in Old(o) PROVE FALSE
      BY <1>8, <1>10, <2>3, <3>1
    <3>2. Cardinality(Old(o)) = 0
      BY <3>1, FS_EmptySet
    <3>3. <<v>> \in Seq(Values) /\ Len(<<v>>) = 1 /\ <<v>>[1] = v
      OBVIOUS
    <3> QED  BY <1>9, <2>1, <2>3, <3>2, <3>3
  <2> QED  BY <2>2, <2>3
<1>12. \A i \in SoFar(role, "option", m) : ~BadOption(words, role, i)
  <2>1. ~BadOption(words, role, m)
    BY <1>5, Zenon DEF BadOption, BadFor
  <2> QED  BY <1>3, <1>10, <2>1
<1>13. ASSUME NEW key
       PROVE  key \in DOMAIN new <=> \E i \in SoFar(role, "option", m) : \E p \in Opts(i) : p.long = key
  BY <1>3, <1>5, <1>9, <1>10
<1>14. ASSUME NEW i \in SoFar(role, "option", m), NEW p \in Opts(i)
       PROVE  /\ new[p.long] \in Seq(Values) /\ Len(new[p.long]) = Cardinality(Now(p))
              /\ new[p.long][Cardinality(Before(words, role, p, i))] = GivenValue(words, p, i)
  <2>1. CASE i = m
    <3>1. p = o
      BY <1>5, <1>14, <2>1
    <3> QED  BY <1>11, <2>1, <3>1 DEF Now
  <2>2. CASE i # m
    <3>1. i \in SoFar(role, "option", n) /\ i \in 1..Len(words) /\ i \in 1..n
      BY <1>2, <1>3, <2>2
    <3>2. p.long \in DOMAIN vals
      BY <1>10, <3>1
    <3>3. CASE p # o
      <4>1. p.long # o.long /\ Now(p) = Old(p)
        BY <1>6, <1>7, <1>8, <3>1, <3>3
      <4> QED  BY <1>9, <1>10, <3>1, <3>2, <4>1
    <3>4. CASE p = o
      <4> DEFINE k == Cardinality(Before(words, role, o, i))
      <4>1. k \in 1..Cardinality(Old(o))
        <5>1. Before(words, role, o, i) \subseteq Old(o) /\ i \in Before(words, role, o, i)
          <6>1. Opts(i) = {o}
            <7>1. o \in Opts(i)
              BY <1>14, <3>4
            <7> HIDE DEF Opts
            <7> QED  BY <1>4, <3>1, <7>1
          <6>2. i \in PlacesOf(words, role, o)
            BY <3>1, <6>1 DEF PlacesOf, SoFar
          <6>3. ASSUME NEW j \in PlacesOf(words, role, o), j <= i PROVE j <= n
            <7>1. j \in 1..Len(words)
              BY <1>2 DEF PlacesOf, With
            <7> QED  BY <3>1, <6>3, <7>1
          <6>4. i <= i
            BY <3>1
          <6>5. \A k_, j : j \in Before(words, role, o, k_) <=> j \in PlacesOf(words, role, o) /\ j <= k_
            BY DEF Before
          <6> QED  BY <6>2, <6>3, <6>4, <6>5 DEF Old
        <5>2. IsFiniteSet(Old(o))
          BY <1>8, OneAdded
        <5>3. IsFiniteSet(Before(words, role, o, i)) /\ k <= Cardinality(Old(o)) /\ k \in Nat
          BY <5>1, <5>2, FS_Subset, FS_CardinalityType
        <5>4. k # 0
          BY <5>1, <5>3, FS_EmptySet
        <5>5. Cardinality(Old(o)) \in Nat
          BY <5>2, FS_CardinalityType
        <5> HIDE DEF k
        <5> QED  BY <5>3, <5>4, <5>5
      <4> HIDE DEF k
      <4>2. vals[o.long][k] = GivenValue(words, o, i)
        BY <1>10, <3>1, <3>4 DEF k
      <4>3. new[o.long][k] = vals[o.long][k]
        BY <1>11, <3>2, <3>4, <4>1
      <4> QED  BY <1>11, <3>4, <4>2, <4>3 DEF k
    <3> QED  BY <3>3, <3>4
  <2> QED  BY <2>1, <2>2
<1> QED  BY <1>12, <1>13, <1>14 DEF ValuesAre, new, Now

ParserInv(words, role, n) ==
  /\ Follows(words, role) /\ n = Taken(words)
  /\ PositionalsAre(words, role, n)
  /\ ValuesAre(values, words, role, n)

LEMMA ValuesSame ==
  ASSUME TheCommand' = TheCommand, NEW words, NEW role, NEW m, ValuesAre(values', words, role, m)
  PROVE  ValuesAre(values, words, role, m)'
<1>1. \A i : OptionOf(words[i])' = OptionOf(words[i])
  BY SameMeaning
<1>2. \A o, i : Before(words, role, o, i)' = Before(words, role, o, i)
  BY SameMeaning DEF Before
<1>3. \A i : BadOption(words, role, i)' <=> BadOption(words, role, i)
  BY SameMeaning
<1> QED  BY <1>1, <1>2, <1>3 DEF ValuesAre

LEMMA ParserStarts ==
  ASSUME NEW words \in Seq(LineWord), NEW role, IsRole(words, role)', args' = words,
         values' = <<>>, positionals' = <<>>, only_words' = FALSE, help' = FALSE, force' = FALSE
  PROVE  ParserInv(words, role, 0)'
<1>1. Len(words) \in Nat /\ Taken(words)' = 0 /\ args' \in Seq(LineWord)
  BY LenProperties DEF Taken
<1>2. \A i \in 1..Len(words) : 0 + i = i
  BY <1>1
<1>3. ~WordsOnly' /\ \A j : j \notin 1..0
  BY DEF WordsOnly
<1>4. Follows(words, role)'
  BY <1>1, <1>2, <1>3 DEF Follows
<1>5. \A r : SoFar(role, r, 0) = {}
  BY <1>1 DEF SoFar, With, IsRole
<1>6. PositionalsAre(words, role, 0)'
  BY <1>5, FS_EmptySet, EmptySeq DEF PositionalsAre, ToSet
<1>7. ValuesAre(values, words, role, 0)'
  BY <1>5 DEF ValuesAre
<1> QED  BY <1>1, <1>4, <1>6, <1>7 DEF ParserInv

LEMMA FlagParsed ==
  ASSUME CommandOK, TheCommand' = TheCommand, NEW words, NEW role, NEW n, NEW m, m = n + 1,
         ParserInv(words, role, n), ParseFlag
  PROVE  ParserInv(words, role, m)'
<1>1. /\ Follows(words, role) /\ n = Taken(words) /\ args # <<>> /\ ~WordsOnly /\ Flag(Head(args)) /\ args' = Tail(args)
      /\ words \in Seq(LineWord) /\ IsRole(words, role)
      /\ only_words' = (Head(args) = Dashes)
      /\ help' = (help \/ IsFlag(Head(args), "help", "h"))
      /\ force' = (force \/ IsFlag(Head(args), "force", "f"))
      /\ values' = values /\ positionals' = positionals
  BY DEF ParserInv, ParseFlag, Parsing, Follows
<1>2. /\ n \in Nat /\ m \in 1..Len(words) /\ Head(args) = words[m] /\ role[m] = RoleOfHead(words[m])
  BY <1>1, NextWord
<1>3. /\ role[m] = "end" <=> words[m] = Dashes
      /\ role[m] = "help" <=> IsFlag(words[m], "help", "h")
      /\ role[m] = "force" <=> IsFlag(words[m], "force", "f")
      /\ role[m] # "word" /\ role[m] # "option"
  <2>1. words[m] = Dashes \/ IsFlag(words[m], "help", "h") \/ IsFlag(words[m], "force", "f")
    BY <1>1, <1>2 DEF Flag
  <2> QED  BY <1>1, <1>2, <2>1, FlagsDiffer DEF RoleOfHead
<1>4. WordsOnly' <=> WordsOnly \/ Ends(role, m)
  BY <1>1, <1>2, <1>3 DEF WordsOnly, Ends
<1>5. Follows(words, role)' /\ Taken(words)' = m
  BY <1>1, <1>2, <1>3, <1>4, WordTaken
<1>6. PositionalsAre(words, role, m)'
  BY <1>1, <1>2, <1>3, PositionalTaken DEF ParserInv
<1>7. ValuesAre(values', words, role, m)
  BY <1>1, <1>2, <1>3, ValuesKeep DEF ParserInv
<1>8. ValuesAre(values, words, role, m)'
  BY <1>7, ValuesSame
<1> QED  BY <1>5, <1>6, <1>8 DEF ParserInv

LEMMA PositionalParsed ==
  ASSUME CommandOK, TheCommand' = TheCommand, NEW words, NEW role, NEW n, NEW m, m = n + 1,
         ParserInv(words, role, n), ParsePositional
  PROVE  ParserInv(words, role, m)'
<1>1. /\ Follows(words, role) /\ n = Taken(words) /\ args # <<>>
      /\ WordsOnly \/ Head(args).dash = 0
      /\ args' = Tail(args) /\ words \in Seq(LineWord) /\ IsRole(words, role)
      /\ positionals' = Append(positionals, Head(args).text) /\ only_words' = WordsOnly
      /\ help' = help /\ force' = force /\ values' = values
  BY DEF ParserInv, ParsePositional, Parsing, Follows
<1>2. /\ n \in Nat /\ m \in 1..Len(words) /\ Head(args) = words[m] /\ role[m] = RoleOfHead(words[m])
  BY <1>1, NextWord
<1>3. role[m] = "word"
  <2>1. CASE WordsOnly
    BY <1>2, <2>1 DEF RoleOfHead
  <2>2. CASE ~WordsOnly
    <3>1. words[m].dash = 0 /\ ~(words[m].dash > 0)
      BY <1>1, <1>2, <2>2
    <3>2. words[m] # Dashes /\ ~IsFlag(words[m], "help", "h") /\ ~IsFlag(words[m], "force", "f")
      BY <3>1, FlagsDiffer
    <3> QED  BY <1>2, <2>2, <3>1, <3>2 DEF RoleOfHead
  <2> QED  BY <2>1, <2>2
<1>4. WordsOnly' <=> WordsOnly \/ Ends(role, m)
  <2>1. positionals' # <<>>
    <3>1. positionals \in Seq(Texts) /\ words[m].text \in Texts
      BY <1>1, <1>2, ElementOfSeq, LineWordFields DEF ParserInv, PositionalsAre
    <3> QED  BY SMTT(30), <1>1, <1>2, <3>1, AppendProperties
  <2> QED  BY <1>1, <1>3, <2>1 DEF WordsOnly, Ends
<1>5. Follows(words, role)' /\ Taken(words)' = m
  BY <1>1, <1>2, <1>3, <1>4, WordTaken
<1>6. PositionalsAre(words, role, m)'
  BY <1>1, <1>2, <1>3, PositionalTaken DEF ParserInv
<1>7. ValuesAre(values', words, role, m)
  BY <1>1, <1>2, <1>3, ValuesKeep DEF ParserInv
<1>8. ValuesAre(values, words, role, m)'
  BY <1>7, ValuesSame
<1> QED  BY <1>5, <1>6, <1>8 DEF ParserInv

(* an option word at the front is an option of the line *)
LEMMA OptionAtFront ==
  ASSUME CommandOK, NEW words, NEW role, NEW n, NEW m, m = n + 1,
         ParserInv(words, role, n), Parsing, OptionWord(Head(args))
  PROVE  /\ words \in Seq(LineWord) /\ IsRole(words, role) /\ n \in Nat /\ m \in 1..Len(words)
         /\ Len(args) = Len(words) - n /\ args # <<>>
         /\ Head(args) = words[m] /\ words[m] \in LineWord /\ role[m] = "option"
<1>1. /\ Follows(words, role) /\ n = Taken(words) /\ args # <<>>
      /\ words \in Seq(LineWord) /\ IsRole(words, role)
  BY DEF ParserInv, Parsing, Follows
<1>2. /\ n \in Nat /\ m \in 1..Len(words) /\ Head(args) = words[m] /\ role[m] = RoleOfHead(words[m])
      /\ Head(args) \in LineWord /\ Len(args) = Len(words) - n
  BY <1>1, NextWord
<1>3. role[m] = "option"
  BY <1>2 DEF OptionWord, Flag, RoleOfHead
<1> QED  BY <1>1, <1>2, <1>3

LEMMA OptionParsed ==
  ASSUME CommandOK, TheCommand' = TheCommand, NEW words, NEW role, NEW n, NEW m, m = n + 1,
         ParserInv(words, role, n), ParseOption
  PROVE  ParserInv(words, role, m)' \/ ParserInv(words, role, m + 1)'
<1> DEFINE word == words[m]
<1>1. PICK o \in OptionOf(Head(args)) :
        /\ ~OptionRefused(o, Head(args))
        /\ values' = Push(values, o.long, ValueOf(o, Head(args)))
        /\ args' = Rest(o)
  BY DEF ParseOption
<1>2. /\ Parsing /\ OptionWord(Head(args)) /\ UNCHANGED <<positionals, only_words, help, force>>
  BY DEF ParseOption
<1>3. /\ words \in Seq(LineWord) /\ IsRole(words, role) /\ n \in Nat /\ m \in 1..Len(words)
      /\ Len(args) = Len(words) - n /\ args # <<>>
      /\ Head(args) = word /\ word \in LineWord /\ role[m] = "option"
  BY <1>2, OptionAtFront
<1>4. Follows(words, role) /\ n = Taken(words) /\ PositionalsAre(words, role, n) /\ ValuesAre(values, words, role, n)
  BY DEF ParserInv
<1>5. o \in OptionOf(word) /\ ~BadFor(words, role, m, o)
  BY <1>1, <1>3, <1>4, RefusedIsBad
<1>6. /\ o \in ToSet(TheCommand.options) /\ o.requires_value \in BOOLEAN
      /\ \A p \in OptionOf(word) : p = o
  BY <1>3, <1>5, OneOption, OptionsOfCommand
<1>7. AsksForValue(word) <=> TakesNext(o, word)
  BY <1>5, <1>6 DEF AsksForValue, TakesNext
<1>8. WordsOnly' = WordsOnly /\ ~Ends(role, m)
  BY <1>2, <1>3 DEF WordsOnly, Ends
<1>9. PositionalsAre(words, role, m)'
  BY <1>2, <1>3, <1>4, PositionalTaken
<1>10. CASE ~TakesNext(o, word)
  <2>1. args' = Tail(args)
    BY <1>1, <1>3, <1>10 DEF Rest
  <2>2. Follows(words, role)' /\ Taken(words)' = m
    BY <1>2, <1>3, <1>4, <1>7, <1>8, <1>10, <2>1, WordTaken
  <2>3. ValueOf(o, word) = GivenValue(words, o, m) /\ ValueOf(o, word) \in Values
    <3>1. CASE ~o.requires_value
      <4>1. ValueOf(o, word) = "true"
        BY <3>1 DEF ValueOf, TakesNext
      <4>2. GivenValue(words, o, m) = "true"
        BY <3>1 DEF GivenValue
      <4>3. "true" \in Values
        BY DEF Values
      <4> QED  BY <4>1, <4>2, <4>3
    <3>2. CASE o.requires_value
      <4>1. word.glued # <<>> /\ word.glued \in Seq(STRING)
        BY <1>3, <1>10, <3>2, LineWordFields DEF TakesNext
      <4>2. word.glued[1] \in STRING
        BY <4>1, HeadTailProperties
      <4> QED  BY <1>10, <3>2, <4>1, <4>2 DEF ValueOf, GivenValue, Values
    <3> QED  BY <3>1, <3>2
  <2>4. ValuesAre(values', words, role, m)
    BY <1>1, <1>3, <1>4, <1>5, <2>3, ValueAdded
  <2>5. ValuesAre(values, words, role, m)'
    BY <2>4, ValuesSame
  <2> QED  BY <1>9, <2>2, <2>5 DEF ParserInv
<1>11. CASE TakesNext(o, word)
  <2>1. Len(args) > 1 /\ args \in Seq(LineWord)
    <3>1. Len(args) # 1 /\ args \in Seq(LineWord)
      BY <1>1, <1>3, <1>4, <1>11 DEF OptionRefused, Follows
    <3> QED  BY <1>3, <3>1, EmptySeq, LenProperties
  <2>2. /\ args' \in Seq(LineWord) /\ Len(args') = Len(args) - 2
        /\ \A i \in 1..(Len(args) - 2) : args'[i] = args[i + 2]
    <3>1. args' = Tail(Tail(args))
      BY <1>1, <1>3, <1>11 DEF Rest
    <3> QED  BY <2>1, <3>1, TwoOff
  <2>3. /\ Follows(words, role)' /\ Taken(words)' = n + 2
        /\ n + 2 \in 1..Len(words) /\ role[n + 2] = "value" /\ args[2] = words[n + 2]
    BY SMTT(30), <1>2, <1>3, <1>4, <1>7, <1>8, <1>11, <2>1, <2>2, ValueTaken
  <2> SUFFICES ASSUME NEW k, k = m + 1 PROVE ParserInv(words, role, k)'
    OBVIOUS
  <2>4. /\ k = n + 2 /\ k = m + 1 /\ k \in 1..Len(words) /\ role[k] = "value" /\ args[2] = words[k]
        /\ Follows(words, role)' /\ Taken(words)' = k /\ m \in Nat
    BY <1>3, <2>3
  <2>5. ValueOf(o, word) = GivenValue(words, o, m) /\ ValueOf(o, word) \in Values
    <3>1. o.requires_value /\ word.glued = <<>>
      BY <1>11 DEF TakesNext
    <3>2. words[k].text \in Texts
      BY <1>3, <2>4, ElementOfSeq, LineWordFields
    <3>3. ValueOf(o, word) = words[k].text
      BY <1>6, <1>11, <2>4, <3>1 DEF ValueOf
    <3>4. GivenValue(words, o, m) = words[k].text
      BY <2>4, <3>1 DEF GivenValue
    <3> QED  BY <3>2, <3>3, <3>4 DEF Values
  <2>6. ValuesAre(values', words, role, m)
    BY <1>1, <1>3, <1>4, <1>5, <2>5, ValueAdded
  <2>7. ValuesAre(values', words, role, k)
    BY <1>3, <2>4, <2>6, ValuesKeep
  <2>8. ValuesAre(values, words, role, k)'
    BY <2>7, ValuesSame
  <2>9. PositionalsAre(words, role, k)'
    <3>1. PositionalsAre(words, role, m)
      BY <1>2, <1>9 DEF PositionalsAre
    <3> QED  BY <1>2, <1>3, <2>4, <3>1, PositionalTaken
  <2> QED  BY <2>4, <2>8, <2>9 DEF ParserInv
<1> QED  BY <1>10, <1>11

LEMMA OptionThrown ==
  ASSUME CommandOK, NEW words, NEW role, NEW n, ParserInv(words, role, n), ParseOptionThrows
  PROVE  \E i \in With(role, "option") : BadOption(words, role, i)
<1> SUFFICES ASSUME NEW m, m = n + 1
             PROVE  m \in With(role, "option") /\ BadOption(words, role, m)
  OBVIOUS
<1>1. /\ Parsing /\ OptionWord(Head(args))
      /\ \A o \in OptionOf(Head(args)) : OptionRefused(o, Head(args))
  BY DEF ParseOptionThrows
<1>2. /\ words \in Seq(LineWord) /\ IsRole(words, role) /\ n \in Nat /\ m \in 1..Len(words)
      /\ Len(args) = Len(words) - n /\ Head(args) = words[m] /\ role[m] = "option"
  BY <1>1, OptionAtFront
<1>3. \A o \in OptionOf(words[m]) : BadFor(words, role, m, o)
  BY <1>1, <1>2, RefusedIsBad DEF ParserInv
<1>4. BadOption(words, role, m)
  BY <1>3, Zenon DEF BadOption, BadFor
<1>5. m \in With(role, "option")
  BY <1>2 DEF With, IsRole
<1> QED  BY <1>4, <1>5

-----------------------------------------------------------------------------
(* The call *)

Untouched ==
  /\ args = <<>> /\ values = <<>> /\ positionals = <<>>
  /\ only_words = FALSE /\ help = FALSE /\ force = FALSE

Outcomes == {"no command", "usage", "unknown", "argument error", "root", "done", "failed", "lua error"}

CallInv ==
  /\ phase \in {"register", "start", "table", "parse", "end"}
  /\ phase # "register" => registration = "ready" /\ call \in UserCall
  /\ command # {} => \E c \in 1..stored : command = {c}
  /\ phase \in {"register", "start"} => command = {}
  /\ phase \in {"table", "parse"} => command # {}
  /\ phase \in {"register", "start", "table"} => Untouched
  /\ phase = "table" => call.via = "commands"
  /\ only_words \in BOOLEAN /\ help \in BOOLEAN /\ force \in BOOLEAN
  /\ phase # "end" => outcome = ""
  /\ phase = "end" => outcome \in Outcomes

LEMMA FoundOne ==
  ASSUME RegistryInv, NEW name
  PROVE  Find(name) # {} => \E c \in 1..stored : Find(name) = {c}
<1> SUFFICES ASSUME Find(name) # {} PROVE \E c \in 1..stored : Find(name) = {c}
  OBVIOUS
<1>1. name \in DOMAIN lookup
  BY DEF Find
<1>2. lookup[name] \in 1..stored
  BY <1>1 DEF RegistryInv, KeysEntered
<1>3. Find(name) = {lookup[name]}
  BY <1>1 DEF Find
<1> QED  BY <1>2, <1>3

LEMMA CommandFound ==
  ASSUME RegistryInv, CallInv, command # {}
  PROVE  CommandOK
<1>1. PICK c \in 1..stored : command = {c}
  BY DEF CallInv
<1>2. TheCommand = Wanted[c]
  BY <1>1 DEF TheCommand
<1>3. c \in 1..Len(Wanted) /\ table \in DOMAIN Tables
  BY TableTypes DEF RegistryInv
<1> QED  BY <1>2, <1>3, TableTypes DEF CommandOK

LEMMA CommandStays ==
  ASSUME command' = command, table' = table
  PROVE  TheCommand' = TheCommand
BY DEF TheCommand, Wanted

LEMMA InitCall == Init => CallInv
BY DEF Init, CallInv, Untouched

(* the steps after the registration leave the registry alone *)
CallStep ==
  \/ Accept \/ MainStarts \/ ExecStarts \/ DispatchStarts
  \/ ParseFlag \/ ParseOption \/ ParseOptionThrows \/ ParsePositional \/ Invoke
  \/ DispatchEntry \/ DispatchInvokes

LEMMA NextSplits ==
  ASSUME CallInv, [Next]_vars
  PROVE  \/ UNCHANGED <<registry, line>>
         \/ Register /\ UNCHANGED line /\ phase = "register"
         \/ CallStep /\ UNCHANGED registry
<1>1. registration = "open" => phase = "register"
  BY DEF CallInv
<1>2. Register => registration = "open"
  BY DEF Register, RegisterName, RegisterAlias, Ready, NextCommand
<1> QED  BY <1>1, <1>2 DEF Next, vars, CallStep

LEMMA CallSteps ==
  ASSUME RegistryInv, CallInv, [Next]_vars
  PROVE  CallInv'
<1>1. CASE UNCHANGED <<registry, line>>
  BY <1>1 DEF registry, line, parser, CallInv, Untouched
<1>2. CASE Register /\ UNCHANGED line /\ phase = "register"
  BY <1>2 DEF line, parser, CallInv, Untouched
<1>3. CASE CallStep /\ UNCHANGED registry
  <2>1. /\ stored' = stored /\ registration' = registration /\ table' = table /\ lookup' = lookup
    BY <1>3 DEF registry
  <2>2. CASE Accept
    <3>1. call' \in UserCall
      BY <2>2, CallAssumption DEF Accept, RegistryInv
    <3> QED  BY <2>1, <2>2, <3>1 DEF Accept, CallInv, Untouched, parser
  <2>3. ASSUME NEW name, command' = Find(name)
        PROVE  command' # {} => \E c \in 1..stored' : command' = {c}
    BY <2>1, <2>3, FoundOne
  <2>4. CASE MainStarts
    <3> DEFINE words == WithoutVerbose(call.words)
    <3>1. \/ /\ End(IF words = <<>> THEN "no command" ELSE "usage")
             /\ UNCHANGED <<command, args>>
          \/ \E i \in NameAt(words) :
               /\ command' = Find(words[i].text)
               /\ IF command' = {} THEN End("unknown") ELSE phase' = "parse" /\ UNCHANGED outcome
      BY <2>4 DEF MainStarts
    <3> HIDE DEF words
    <3>2. command' # {} => \E c \in 1..stored' : command' = {c}
      BY <2>1, <2>3, <2>4, <3>1 DEF MainStarts, CallInv
    <3>3. phase' = "parse" => command' # {}
      BY <3>1 DEF End
    <3>4. (phase' = "end" /\ outcome' \in Outcomes) \/ (phase' = "parse" /\ outcome' = outcome)
      BY <3>1 DEF End, Outcomes
    <3> QED  BY <2>1, <2>4, <3>2, <3>3, <3>4 DEF MainStarts, CallInv
  <2>5. CASE ExecStarts
    <3>1. command' # {} => \E c \in 1..stored' : command' = {c}
      BY <2>3, <2>5 DEF ExecStarts
    <3> QED  BY <2>1, <2>5, <3>1 DEF ExecStarts, CallInv, End, Outcomes
  <2>6. CASE DispatchStarts
    <3>1. command' # {} => \E c \in 1..stored' : command' = {c}
      BY <2>3, <2>6 DEF DispatchStarts
    <3> QED  BY <2>1, <2>6, <3>1 DEF DispatchStarts, CallInv, Untouched, parser
  <2>7. CASE ParseFlag
    BY <2>1, <2>7 DEF ParseFlag, Parsing, CallInv, Untouched
  <2>8. CASE ParseOption
    BY <2>1, <2>8 DEF ParseOption, Parsing, CallInv, Untouched
  <2>9. CASE ParseOptionThrows
    BY <2>1, <2>9 DEF ParseOptionThrows, Parsing, CallInv, Untouched, parser, End, Outcomes
  <2>10. CASE ParsePositional
    BY <2>1, <2>10 DEF ParsePositional, Parsing, WordsOnly, CallInv, Untouched
  <2>11. CASE Invoke
    BY <2>1, <2>11 DEF Invoke, CallInv, Untouched, parser, End, Outcomes
  <2>12. CASE DispatchEntry
    BY <2>1, <2>12 DEF DispatchEntry, CallInv, Untouched, parser, End, Outcomes
  <2>13. CASE DispatchInvokes
    BY <2>1, <2>13 DEF DispatchInvokes, CallInv, Untouched, End, Outcomes
  <2> QED  BY <1>3, <2>2, <2>4, <2>5, <2>6, <2>7, <2>8, <2>9, <2>10, <2>11, <2>12, <2>13 DEF CallStep
<1> QED  BY <1>1, <1>2, <1>3, NextSplits

-----------------------------------------------------------------------------
(* The words of main without --verbose are words of main *)

KeptAfter(words, i, before) ==
  IF IsFlag(words[i], "verbose", "v") THEN before ELSE Append(before, words[i])
Kept(words, f, n) == f = [i \in 0..n |-> IF i = 0 THEN <<>> ELSE KeptAfter(words, i, f[i - 1])]

LEMMA KeptUpTo ==
  ASSUME NEW words
  PROVE  \A n \in Nat : \E f : Kept(words, f, n)
<1> DEFINE T == {n \in Nat : ~ \E f : Kept(words, f, n)}
<1> SUFFICES ASSUME T # {} PROVE FALSE
  OBVIOUS
<1>1. PICK n \in T : \A m \in T : n <= m
  BY LeastNumber
<1>2. n # 0
  <2> SUFFICES ASSUME n = 0 PROVE FALSE
    OBVIOUS
  <2>1. Kept(words, [i \in 0..0 |-> <<>>], 0)
    BY DEF Kept
  <2> QED  BY <1>1, <2>1
<1>3. PICK f : Kept(words, f, n - 1)
  BY <1>1, <1>2
<1> DEFINE g == [i \in 0..n |-> IF i = 0 THEN <<>> ELSE KeptAfter(words, i, f[i - 1])]
<1>4. Kept(words, g, n)
  <2>1. f = [i \in 0..(n - 1) |-> IF i = 0 THEN <<>> ELSE KeptAfter(words, i, f[i - 1])]
    BY <1>3 DEF Kept
  <2>2. ASSUME NEW i \in 0..n
        PROVE  (IF i = 0 THEN <<>> ELSE KeptAfter(words, i, f[i - 1]))
               = (IF i = 0 THEN <<>> ELSE KeptAfter(words, i, g[i - 1]))
    <3>1. CASE i = 0
      BY <3>1
    <3>2. CASE i # 0
      <4>1. i - 1 \in 0..(n - 1) /\ i - 1 \in 0..n
        BY <1>1, <1>2, <3>2
      <4> DEFINE j == i - 1
      <4>2. f[j] = IF j = 0 THEN <<>> ELSE KeptAfter(words, j, f[j - 1])
        BY <2>1, <4>1, Zenon
      <4>3. g[j] = IF j = 0 THEN <<>> ELSE KeptAfter(words, j, f[j - 1])
        BY <4>1, Zenon
      <4>4. f[i - 1] = g[i - 1]
        BY <4>2, <4>3, Zenon
      <4> QED  BY <4>4, Zenon
    <3> QED  BY <3>1, <3>2, Zenon
  <2>3. g = [i \in 0..n |-> IF i = 0 THEN <<>> ELSE KeptAfter(words, i, g[i - 1])]
    BY <2>2, Zenon
  <2> QED  BY <2>3, Zenon DEF Kept
<1> QED  BY <1>1, <1>4

LEMMA VerboseGone ==
  ASSUME NEW words \in Seq(UserWord)
  PROVE  /\ WithoutVerbose(words) \in Seq(UserWord)
         /\ ToSet(WithoutVerbose(words)) \subseteq ToSet(words)
<1> DEFINE n == Len(words)
           Is(f) == Kept(words, f, n)
           kept == CHOOSE f : Is(f)
<1>1. n \in Nat /\ \A i \in 1..n : words[i] \in UserWord /\ words[i] \in ToSet(words)
  BY LenProperties, ElementOfSeq, RangeOf
<1>2. \E f : Is(f)
  BY <1>1, KeptUpTo
<1>3. Is(kept)
  BY <1>2, Zenon
<1>4. WithoutVerbose(words) = kept[n]
  BY Zenon DEF WithoutVerbose, Kept, KeptAfter
<1>5. kept[0] = <<>> /\ \A i \in 1..n : kept[i] = KeptAfter(words, i, kept[i - 1])
  <2> HIDE DEF kept, n
  <2>1. kept = [i \in 0..n |-> IF i = 0 THEN <<>> ELSE KeptAfter(words, i, kept[i - 1])]
    BY <1>3 DEF Kept
  <2>2. 0 \in 0..n
    BY <1>1
  <2>3. ASSUME NEW i \in 1..n PROVE i \in 0..n /\ i # 0
    BY <1>1
  <2>4. kept[0] = <<>>
    BY <2>1, <2>2, Zenon
  <2> QED  BY <2>1, <2>3, <2>4, Zenon
<1> HIDE DEF kept, Is, n
<1> DEFINE Good(s) == s \in Seq(UserWord) /\ ToSet(s) \subseteq ToSet(words)
           T == {i \in Nat : i <= n /\ ~Good(kept[i])}
<1>6. ASSUME NEW i \in 1..n, Good(kept[i - 1]) PROVE Good(kept[i])
  <2> DEFINE s == kept[i - 1]
  <2>1. s \in Seq(UserWord) /\ ToSet(s) \subseteq ToSet(words)
    BY <1>6
  <2>2. kept[i] = s \/ kept[i] = Append(s, words[i])
    BY <1>5 DEF KeptAfter
  <2> HIDE DEF s
  <2>3. /\ Append(s, words[i]) \in Seq(UserWord)
        /\ ToSet(Append(s, words[i])) = ToSet(s) \cup {words[i]}
    BY <1>1, <2>1, RangeOfAppend
  <2>4. ToSet(Append(s, words[i])) \subseteq ToSet(words)
    BY <1>1, <2>1, <2>3
  <2>5. CASE kept[i] = s
    BY <2>1, <2>5
  <2>6. CASE kept[i] = Append(s, words[i])
    BY <2>3, <2>4, <2>6
  <2> QED  BY <2>2, <2>5, <2>6
<1>7. Good(kept[0])
  BY <1>5, EmptySeq DEF ToSet
<1>8. T = {}
  <2> SUFFICES ASSUME T # {} PROVE FALSE
    OBVIOUS
  <2>1. PICK i \in T : \A j \in T : i <= j
    BY LeastNumber
  <2>2. i \in Nat /\ i <= n /\ ~Good(kept[i]) /\ i # 0
    BY <1>7, <2>1
  <2>3. i \in 1..n /\ i - 1 \in Nat /\ i - 1 <= n /\ ~(i <= i - 1)
    BY <1>1, <2>2
  <2>4. Good(kept[i - 1])
    BY <2>1, <2>3
  <2> QED  BY <1>6, <2>2, <2>3, <2>4
<1>9. Good(kept[n])
  BY <1>1, <1>8
<1> QED  BY <1>4, <1>9

-----------------------------------------------------------------------------
(* The option words of a Lua call come in groups: an option, and its value when it
   takes one. So the words after them are not values. *)

Groups(s, V) ==
  /\ \A i \in 1..Len(s) :
       /\ i \in V <=> i > 1 /\ i - 1 \notin V /\ AsksForValue(s[i - 1])
       /\ i \notin V => s[i].dash > 0 /\ ~Flag(s[i])
  /\ \A i \in 1..Len(s) : i = Len(s) /\ i \notin V => ~AsksForValue(s[i])
Grouped(s) == \E V \in SUBSET (1..Len(s)) : Groups(s, V)

LEMMA OptionWordIs ==
  ASSUME CommandOK, NEW key, SpecOf(key) # {}, key \notin {"help", "force"}
  PROVE  /\ Long(key).dash > 0 /\ ~Flag(Long(key))
         /\ AsksForValue(Long(key)) <=> \E o \in SpecOf(key) : o.requires_value
<1>1. Long(key).dash = 2 /\ Long(key).name = key /\ Long(key).glued = <<>>
  BY DEF Long
<1>2. OptionOf(Long(key)) = SpecOf(key)
  BY <1>1 DEF OptionOf, SpecOf
<1>3. key # ""
  BY OneOption, OptionsOfCommand DEF SpecOf
<1>4. Long(key) # Dashes
  BY <1>3 DEF Dashes, Long
<1>5. ~IsFlag(Long(key), "help", "h") /\ ~IsFlag(Long(key), "force", "f")
  BY <1>1 DEF IsFlag
<1> QED  BY <1>1, <1>2, <1>4, <1>5 DEF Flag, AsksForValue

(* the words one entry of the options table adds *)
LEMMA EntryAdds ==
  ASSUME CommandOK, NEW e \in TableEntry, ~EntryRefused(e),
         e.key \notin {"args", "positionals", "meta", "allow-failure", "force", "help"}
  PROVE  /\ EntryWords(e) \in Seq(LineWord)
         /\ SpecOf(e.key) # {}
         /\ \/ EntryWords(e) = <<>>
            \/ EntryWords(e) = <<Long(e.key)>> /\ \A o \in SpecOf(e.key) : ~o.requires_value
            \/ /\ \A o \in SpecOf(e.key) : o.requires_value
               /\ \E k \in Nat : /\ Len(EntryWords(e)) = 2 * k
                                 /\ \A i \in 1..(2 * k) : i % 2 = 1 => EntryWords(e)[i] = Long(e.key)
<1>1. SpecOf(e.key) # {}
  BY DEF EntryRefused
<1>2. e.key \in STRING /\ e.words \in Seq(UserWord) /\ Long(e.key) \in LineWord
  BY DEF TableEntry, LineWord
<1>3. CASE \E o \in SpecOf(e.key) : ~o.requires_value
  <2>1. \A o \in SpecOf(e.key) : ~o.requires_value
    BY <1>3, OneOption
  <2>2. EntryWords(e) = <<Long(e.key)>> \/ EntryWords(e) = <<>>
    BY <1>3 DEF EntryWords
  <2>3. <<Long(e.key)>> \in Seq(LineWord) /\ <<>> \in Seq(LineWord)
    BY <1>2, EmptySeq
  <2> QED  BY <1>1, <2>1, <2>2, <2>3
<1>4. CASE \A o \in SpecOf(e.key) : o.requires_value
  <2> DEFINE text == EntryText(e)
             k == Len(text)
  <2>1. text \in Seq(LineWord)
    <3>1. Word(IF e.on THEN "true" ELSE "false") \in LineWord
      BY DEF LineWord
    <3>2. CASE e.type = "boolean"
      BY <3>1, <3>2 DEF EntryText
    <3>3. CASE e.type # "boolean"
      BY <1>2, <3>3 DEF EntryText, LineWord
    <3> QED  BY <3>2, <3>3
  <2>2. k \in Nat /\ \A i \in 1..k : text[i] \in LineWord
    BY <2>1, LenProperties, ElementOfSeq
  <2>3. EntryWords(e) = [i \in 1..(2 * k) |-> IF i % 2 = 1 THEN Long(e.key) ELSE text[i \div 2]]
    BY <1>4, Zenon DEF EntryWords
  <2> HIDE DEF k, text
  <2>4. ASSUME NEW i \in 1..(2 * k) PROVE (IF i % 2 = 1 THEN Long(e.key) ELSE text[i \div 2]) \in LineWord
    <3>1. i % 2 = 1 \/ i \div 2 \in 1..k
      BY <2>2
    <3> QED  BY <1>2, <2>2, <3>1
  <2>5. 2 * k \in Nat
    BY <2>2
  <2>6. EntryWords(e) \in [1..(2 * k) -> LineWord]
    BY <2>3, <2>4
  <2>7. EntryWords(e) \in Seq(LineWord) /\ Len(EntryWords(e)) = 2 * k
    BY <2>5, <2>6, SeqDef, LenProperties
  <2>8. \A i \in 1..(2 * k) : i % 2 = 1 => EntryWords(e)[i] = Long(e.key)
    BY <2>3
  <2> QED  BY <1>1, <1>4, <2>2, <2>7, <2>8
<1>5. \A o \in SpecOf(e.key) : o.requires_value \in BOOLEAN
  BY OneOption, OptionsOfCommand
<1> QED  BY <1>3, <1>4, <1>5

LEMMA Parity ==
  ASSUME NEW k \in Nat, NEW j \in 1..(2 * k)
  PROVE  /\ j % 2 = 0 \/ j % 2 = 1
         /\ j % 2 = 0 => j - 1 \in 1..(2 * k) /\ (j - 1) % 2 = 1
         /\ j % 2 = 1 => j # 2 * k
         /\ j % 2 = 1 /\ j # 1 => j - 1 \in 1..(2 * k) /\ (j - 1) % 2 = 0
<1>1. j % 2 = 0 \/ j % 2 = 1
  OBVIOUS
<1>2. j % 2 = 0 => j # 1 /\ (j - 1) % 2 = 1
  OBVIOUS
<1>3. j % 2 = 1 => j # 2 * k
  OBVIOUS
<1>4. j % 2 = 1 => (j - 1) % 2 = 0
  OBVIOUS
<1>5. j # 1 => j - 1 \in 1..(2 * k)
  OBVIOUS
<1> QED  BY <1>1, <1>2, <1>3, <1>4, <1>5

LEMMA GroupAdded ==
  ASSUME CommandOK, NEW s \in Seq(LineWord), NEW V \in SUBSET (1..Len(s)), Groups(s, V),
         NEW t \in Seq(LineWord), NEW key, SpecOf(key) # {}, key \notin {"help", "force"},
         \/ t = <<>>
         \/ t = <<Long(key)>> /\ \A o \in SpecOf(key) : ~o.requires_value
         \/ /\ \A o \in SpecOf(key) : o.requires_value
            /\ \E k \in Nat : /\ Len(t) = 2 * k
                              /\ \A i \in 1..(2 * k) : i % 2 = 1 => t[i] = Long(key)
  PROVE  \E W \in SUBSET (1..Len(s \o t)) :
           /\ Groups(s \o t, W)
           /\ \A i \in 1..Len(s) : i \in W <=> i \in V
           /\ \A i \in 1..Len(t) : Len(s) + i \in W <=> i % 2 = 0
<1>1. Groups(s, V)
  OBVIOUS
<1> DEFINE u == s \o t
           a == Len(s)
           Goal(W) == /\ Groups(u, W)
                      /\ \A i \in 1..a : i \in W <=> i \in V
                      /\ \A i \in 1..Len(t) : a + i \in W <=> i % 2 = 0
<1> SUFFICES \E W \in SUBSET (1..Len(u)) : Goal(W)
  OBVIOUS
<1>2. /\ a \in Nat /\ Len(t) \in Nat /\ Len(u) = a + Len(t)
      /\ \A i \in 1..a : u[i] = s[i]
      /\ \A i \in 1..Len(t) : u[a + i] = t[i]
  <2>1. /\ Len(u) = a + Len(t) /\ a \in Nat /\ Len(t) \in Nat
        /\ \A i \in 1..(a + Len(t)) : u[i] = IF i <= a THEN s[i] ELSE t[i - a]
    BY ConcatProperties, LenProperties
  <2> HIDE DEF u, a
  <2>2. ASSUME NEW i \in 1..a PROVE i \in 1..(a + Len(t)) /\ i <= a
    BY <2>1
  <2>3. ASSUME NEW i \in 1..Len(t) PROVE a + i \in 1..(a + Len(t)) /\ ~(a + i <= a) /\ (a + i) - a = i
    BY <2>1
  <2> QED  BY <2>1, <2>2, <2>3
<1>3. /\ \A i \in 1..a : i \in V <=> i > 1 /\ i - 1 \notin V /\ AsksForValue(s[i - 1])
      /\ \A i \in 1..a : i \notin V => s[i].dash > 0 /\ ~Flag(s[i])
      /\ \A i \in 1..a : i = a /\ i \notin V => ~AsksForValue(s[i])
  BY <1>1 DEF Groups
<1>4. /\ Long(key).dash > 0 /\ ~Flag(Long(key))
      /\ AsksForValue(Long(key)) <=> \E o \in SpecOf(key) : o.requires_value
  BY OptionWordIs
<1>5. CASE t = <<>>
  <2>1. u = s /\ Len(t) = 0
    BY <1>5, ConcatEmptySeq
  <2>2. Goal(V) /\ V \in SUBSET (1..Len(u))
    BY <1>1, <2>1
  <2> QED  BY <2>2
<1> HIDE DEF u, a
<1>6. CASE t = <<Long(key)>> /\ \A o \in SpecOf(key) : ~o.requires_value
  <2>1. Len(u) = a + 1 /\ u[a + 1] = Long(key) /\ ~AsksForValue(Long(key)) /\ V \subseteq 1..a
    BY <1>1, <1>2, <1>4, <1>6 DEF a
  <2>2. ASSUME NEW i \in 1..Len(u)
        PROVE  /\ i \in V <=> i > 1 /\ i - 1 \notin V /\ AsksForValue(u[i - 1])
               /\ i \notin V => u[i].dash > 0 /\ ~Flag(u[i])
               /\ i = Len(u) /\ i \notin V => ~AsksForValue(u[i])
    <3>1. CASE i \in 1..a
      <4>1. u[i] = s[i] /\ (i > 1 => u[i - 1] = s[i - 1]) /\ i # Len(u)
        BY <1>2, <2>1, <3>1
      <4>2. /\ i \in V <=> i > 1 /\ i - 1 \notin V /\ AsksForValue(s[i - 1])
            /\ i \notin V => s[i].dash > 0 /\ ~Flag(s[i])
        BY <1>3, <3>1
      <4> QED  BY <4>1, <4>2
    <3>2. CASE i = a + 1
      <4>1. i \notin V /\ i - 1 = a /\ u[i] = Long(key) /\ (i > 1 => a \in 1..a /\ u[a] = s[a])
        BY <1>2, <2>1, <3>2
      <4>2. ~(i > 1 /\ a \notin V /\ AsksForValue(s[a]))
        BY <1>3, <4>1
      <4>3. ~(i > 1 /\ i - 1 \notin V /\ AsksForValue(u[i - 1]))
        BY <4>1, <4>2
      <4> QED  BY <1>4, <2>1, <4>1, <4>3
    <3> QED  BY <1>2, <2>1, <3>1, <3>2
  <2>3. V \in SUBSET (1..Len(u))
    BY <1>2, <2>1
  <2>4. Len(t) = 1 /\ a + 1 \notin V
    BY <1>2, <1>6, <2>1
  <2>5. \A i \in 1..Len(t) : a + i \in V <=> i % 2 = 0
    BY <2>4
  <2>6. Groups(u, V)
    BY <2>2, Zenon DEF Groups
  <2> QED  BY <2>3, <2>5, <2>6
<1>7. CASE /\ \A o \in SpecOf(key) : o.requires_value
           /\ \E k \in Nat : /\ Len(t) = 2 * k
                             /\ \A i \in 1..(2 * k) : i % 2 = 1 => t[i] = Long(key)
  <2>0. PICK k \in Nat : Len(t) = 2 * k /\ \A i \in 1..(2 * k) : i % 2 = 1 => t[i] = Long(key)
    BY <1>7
  <2> DEFINE W == V \cup {a + i : i \in {j \in 1..(2 * k) : j % 2 = 0}}
  <2>1. /\ Len(u) = a + 2 * k /\ AsksForValue(Long(key)) /\ V \subseteq 1..a
    BY <1>1, <1>2, <1>4, <1>7, <2>0 DEF a
  <2>2. ASSUME NEW i \in 1..a PROVE i \in W <=> i \in V
    BY <1>2
  <2>3. ASSUME NEW i \in 1..(2 * k) PROVE a + i \in W <=> i % 2 = 0
    <3>1. a + i \notin V
      BY <1>2, <2>1
    <3>2. \A j \in 1..(2 * k) : a + i = a + j => i = j
      BY <1>2
    <3> QED  BY <3>1, <3>2
  <2> HIDE DEF W
  <2>4. ASSUME NEW i \in 1..Len(u)
        PROVE  /\ i \in W <=> i > 1 /\ i - 1 \notin W /\ AsksForValue(u[i - 1])
               /\ i \notin W => u[i].dash > 0 /\ ~Flag(u[i])
               /\ i = Len(u) /\ i \notin W => ~AsksForValue(u[i])
    <3>1. CASE i \in 1..a
      <4>1. u[i] = s[i] /\ (i > 1 => i - 1 \in 1..a /\ u[i - 1] = s[i - 1]) /\ (i = Len(u) => i = a)
        BY <1>2, <2>0, <2>1, <3>1
      <4>2. /\ i \in V <=> i > 1 /\ i - 1 \notin V /\ AsksForValue(s[i - 1])
            /\ i \notin V => s[i].dash > 0 /\ ~Flag(s[i])
            /\ i = a /\ i \notin V => ~AsksForValue(s[i])
        BY <1>3, <3>1
      <4>3. (i \in W <=> i \in V) /\ (i > 1 => (i - 1 \in W <=> i - 1 \in V))
        BY <2>2, <3>1, <4>1
      <4> QED  BY <4>1, <4>2, <4>3
    <3>2. ASSUME NEW j \in 1..(2 * k), i = a + j PROVE
               /\ i \in W <=> i > 1 /\ i - 1 \notin W /\ AsksForValue(u[i - 1])
               /\ i \notin W => u[i].dash > 0 /\ ~Flag(u[i])
               /\ i = Len(u) /\ i \notin W => ~AsksForValue(u[i])
      <4>1. i \in W <=> j % 2 = 0
        BY <2>3, <3>2
      <4>2. CASE j % 2 = 0
        <5>0. j - 1 \in 1..(2 * k) /\ (j - 1) % 2 = 1
          BY <4>2, Parity
        <5>1. j - 1 \in 1..(2 * k) /\ (j - 1) % 2 = 1 /\ i - 1 = a + (j - 1) /\ i > 1
          BY <1>2, <3>2, <5>0
        <5>2. u[i - 1] = Long(key)
          <6>1. j - 1 \in 1..Len(t) /\ t[j - 1] = Long(key)
            BY <2>0, <5>1
          <6>2. u[a + (j - 1)] = t[j - 1]
            BY <1>2, <6>1
          <6> QED  BY <5>1, <6>1, <6>2
        <5>3. i - 1 \notin W
          BY <2>3, <5>1
        <5> QED  BY <2>1, <4>1, <4>2, <5>1, <5>2, <5>3
      <4>3. CASE j % 2 # 0
        <5>0. j % 2 = 1 /\ j # 2 * k
          BY <4>3, Parity
        <5>1. j % 2 = 1 /\ i # Len(u)
          BY <1>2, <2>1, <3>2, <5>0
        <5>2. u[i] = Long(key)
          BY <1>2, <2>0, <3>2, <5>1
        <5>3. ~(i > 1 /\ i - 1 \notin W /\ AsksForValue(u[i - 1]))
          <6>1. CASE j = 1
            <7>1. i - 1 = a /\ (i > 1 => a \in 1..a /\ u[a] = s[a])
              BY <1>2, <3>2, <6>1
            <7>2. i > 1 => ~(a \notin W /\ AsksForValue(s[a]))
              BY <1>3, <2>2, <7>1
            <7> QED  BY <7>1, <7>2
          <6>2. CASE j # 1
            <7>0. j - 1 \in 1..(2 * k) /\ (j - 1) % 2 = 0
              BY <5>1, <6>2, Parity
            <7>1. j - 1 \in 1..(2 * k) /\ (j - 1) % 2 = 0 /\ i - 1 = a + (j - 1)
              BY <1>2, <3>2, <7>0
            <7> QED  BY <2>3, <7>1
          <6> QED  BY <6>1, <6>2
        <5> QED  BY <1>4, <4>1, <5>1, <5>2, <5>3
      <4> QED  BY <4>2, <4>3
    <3>3. i \in 1..a \/ \E j \in 1..(2 * k) : i = a + j
      <4>1. i \in 1..a \/ (i - a \in 1..(2 * k) /\ i = a + (i - a))
        BY <1>2, <2>0, <2>1
      <4> QED  BY <4>1
    <3> QED  BY <3>1, <3>2, <3>3
  <2>5. W \in SUBSET (1..Len(u))
    <3>1. \A i \in 1..(2 * k) : a + i \in 1..Len(u)
      BY <1>2, <2>0, <2>1
    <3>2. V \subseteq 1..Len(u)
      BY <1>2, <2>0, <2>1
    <3> QED  BY <3>1, <3>2 DEF W
  <2>6. Groups(u, W)
    BY <2>4, Zenon DEF Groups
  <2>7. \A i \in 1..Len(t) : a + i \in W <=> i % 2 = 0
    BY <2>0, <2>3
  <2> QED  BY <2>2, <2>5, <2>6, <2>7
<1> QED  BY <1>5, <1>6, <1>7

(* the roles of the words of a group *)
LEMMA GroupRoles ==
  ASSUME NEW words, Len(words) \in Nat, NEW role, IsRole(words, role),
         NEW s \in Seq(LineWord), NEW V, Groups(s, V), Len(s) <= Len(words),
         \A i \in 1..Len(s) : words[i] = s[i]
  PROVE  \A i \in 1..Len(s) : role[i] = IF i \in V THEN "value" ELSE "option"
<1> DEFINE Right(i) == role[i] = IF i \in V THEN "value" ELSE "option"
           T == {i \in Nat : i \in 1..Len(s) /\ ~Right(i)}
<1> SUFFICES ASSUME T # {} PROVE FALSE
  OBVIOUS
<1>1. PICK i \in T : \A j \in T : i <= j
  BY LeastNumber
<1>2. Len(s) \in Nat /\ i \in 1..Len(s) /\ i \in 1..Len(words) /\ ~Right(i)
  BY <1>1, LenProperties
<1>3. ASSUME NEW j \in 1..(i - 1) PROVE j \in 1..Len(s) /\ Right(j) /\ words[j] = s[j]
  <2>1. j \in Nat /\ j \in 1..Len(s) /\ ~(i <= j)
    BY <1>2
  <2> QED  BY <1>1, <2>1
<1> HIDE DEF T
<1>4. role[i] = RoleOf(words, role, i) /\ words[i] = s[i]
  BY <1>2 DEF IsRole
<1>5. /\ i \in V <=> i > 1 /\ i - 1 \notin V /\ AsksForValue(s[i - 1])
      /\ i \notin V => s[i].dash > 0 /\ ~Flag(s[i])
  BY <1>2 DEF Groups
<1>6. Waits(words, role, i) <=> i \in V
  <2>1. CASE i = 1
    BY <1>5, <2>1 DEF Waits
  <2>2. CASE i # 1
    <3>1. i - 1 \in 1..(i - 1) /\ i > 1
      BY <1>2, <2>2
    <3>2. (role[i - 1] = "option" <=> i - 1 \notin V) /\ words[i - 1] = s[i - 1]
      BY <1>3, <3>1
    <3> QED  BY <1>5, <3>1, <3>2 DEF Waits
  <2> QED  BY <2>1, <2>2
<1>7. CASE i \in V
  BY <1>2, <1>4, <1>6, <1>7, RoleOfCases
<1>8. CASE i \notin V
  <2>1. ~\E j \in 1..(i - 1) : Ends(role, j)
    BY <1>3 DEF Ends
  <2>2. /\ words[i] # Dashes /\ ~IsFlag(words[i], "help", "h") /\ ~IsFlag(words[i], "force", "f")
        /\ words[i].dash > 0
    BY <1>4, <1>5, <1>8 DEF Flag
  <2>3. RoleOf(words, role, i) = "option"
    BY <1>6, <1>8, <2>1, <2>2, RoleOfCases
  <2> QED  BY <1>2, <1>4, <1>8, <2>3
<1> QED  BY <1>7, <1>8

LEMMA TailOfConcat ==
  ASSUME NEW S, NEW s \in Seq(S), NEW t \in Seq(S)
  PROVE  /\ s \o t \in Seq(S) /\ Len(s \o t) = Len(s) + Len(t)
         /\ \A i \in 1..Len(s) : (s \o t)[i] = s[i]
         /\ \A i \in (Len(s) + 1)..(Len(s) + Len(t)) : (s \o t)[i] \in ToSet(t)
<1> DEFINE u == s \o t
<1>1. /\ u \in Seq(S) /\ Len(u) = Len(s) + Len(t) /\ Len(s) \in Nat /\ Len(t) \in Nat
      /\ \A i \in 1..(Len(s) + Len(t)) : u[i] = IF i <= Len(s) THEN s[i] ELSE t[i - Len(s)]
  BY ConcatProperties, LenProperties
<1> HIDE DEF u
<1>2. ASSUME NEW i \in 1..Len(s) PROVE u[i] = s[i]
  <2>1. i \in 1..(Len(s) + Len(t)) /\ i <= Len(s)
    BY <1>1
  <2> QED  BY <1>1, <2>1
<1>3. ASSUME NEW i \in (Len(s) + 1)..(Len(s) + Len(t)) PROVE u[i] \in ToSet(t)
  <2>1. i \in 1..(Len(s) + Len(t)) /\ ~(i <= Len(s)) /\ i - Len(s) \in 1..Len(t)
    BY <1>1
  <2>2. u[i] = t[i - Len(s)]
    BY <1>1, <2>1
  <2>3. t[i - Len(s)] \in ToSet(t)
    BY <2>1, RangeOf
  <2> QED  BY <2>2, <2>3
<1> QED  BY <1>1, <1>2, <1>3 DEF u

One(set) == IF set THEN 1 ELSE 0

LEMMA FlagWordsAre ==
  ASSUME NEW set, NEW word \in LineWord
  PROVE  /\ FlagWords(set, word) \in Seq(LineWord) /\ Len(FlagWords(set, word)) = One(set)
         /\ \A w \in ToSet(FlagWords(set, word)) : w = word
<1>1. <<word>> \in Seq(LineWord) /\ Len(<<word>>) = 1 /\ ToSet(<<word>>) = {word}
  BY DEF ToSet
<1>2. <<>> \in Seq(LineWord) /\ Len(<<>>) = 0 /\ ToSet(<<>>) = {}
  BY EmptySeq DEF ToSet
<1> QED  BY <1>1, <1>2 DEF FlagWords, One

(* the line of a Lua call: its options, --force, --help, and its words *)
LuaLine(a, b, c, n) ==
  /\ \A i \in 1..a : DispatchLine[i] = lua.options[i]
  /\ \A i \in (a + 1)..b : DispatchLine[i] = Long("force")
  /\ \A i \in (b + 1)..c : DispatchLine[i] = Long("help")
  /\ \A i \in (c + 1)..n : DispatchLine[i] \in ToSet(lua.words) \cup ToSet(call.words)

LEMMA AtLeast ==
  ASSUME NEW x \in Nat, NEW y \in Nat, NEW z, z = x + y
  PROVE  x <= z
OBVIOUS

LEMMA DispatchedLine ==
  ASSUME lua.options \in Seq(LineWord), lua.words \in Seq(UserWord), call.words \in Seq(UserWord),
         NEW a, a = Len(lua.options), NEW b, b = a + One(lua.force), NEW c, c = b + One(lua.help),
         NEW n, n = Len(DispatchLine)
  PROVE  /\ DispatchLine \in Seq(LineWord) /\ a \in Nat /\ n \in Nat /\ c <= n
         /\ LuaLine(a, b, c, n)
<1> DEFINE F == FlagWords(lua.force, Long("force"))
           H == FlagWords(lua.help, Long("help"))
           s1 == lua.options \o F
           s2 == s1 \o H
           s3 == s2 \o lua.words
           s4 == s3 \o call.words
<1>1. DispatchLine = s4
  BY DEF DispatchLine
<1>2. /\ F \in Seq(LineWord) /\ Len(F) = One(lua.force) /\ \A w \in ToSet(F) : w = Long("force")
      /\ H \in Seq(LineWord) /\ Len(H) = One(lua.help) /\ \A w \in ToSet(H) : w = Long("help")
  BY FlagWordsAre DEF LineWord
<1>3. lua.words \in Seq(LineWord) /\ call.words \in Seq(LineWord)
  <2>1. UserWord \subseteq LineWord
    BY DEF LineWord
  <2> QED  BY <2>1, SeqDef
<1> HIDE DEF F, H
<1>4. /\ s1 \in Seq(LineWord) /\ Len(s1) = a + Len(F)
      /\ \A i \in 1..a : s1[i] = lua.options[i]
      /\ \A i \in (a + 1)..(a + Len(F)) : s1[i] \in ToSet(F)
  BY ZenonT(30), <1>2, TailOfConcat
<1> HIDE DEF s1
<1>5. /\ s2 \in Seq(LineWord) /\ Len(s2) = Len(s1) + Len(H)
      /\ \A i \in 1..Len(s1) : s2[i] = s1[i]
      /\ \A i \in (Len(s1) + 1)..(Len(s1) + Len(H)) : s2[i] \in ToSet(H)
  BY <1>2, <1>4, TailOfConcat
<1> HIDE DEF s2
<1>6. /\ s3 \in Seq(LineWord) /\ Len(s3) = Len(s2) + Len(lua.words)
      /\ \A i \in 1..Len(s2) : s3[i] = s2[i]
      /\ \A i \in (Len(s2) + 1)..(Len(s2) + Len(lua.words)) : s3[i] \in ToSet(lua.words)
  BY <1>3, <1>5, TailOfConcat
<1> HIDE DEF s3
<1>7. /\ s4 \in Seq(LineWord) /\ Len(s4) = Len(s3) + Len(call.words)
      /\ \A i \in 1..Len(s3) : s4[i] = s3[i]
      /\ \A i \in (Len(s3) + 1)..(Len(s3) + Len(call.words)) : s4[i] \in ToSet(call.words)
  BY <1>3, <1>6, TailOfConcat
<1> HIDE DEF s4
<1>8. /\ a \in Nat /\ Len(F) \in Nat /\ Len(H) \in Nat /\ Len(lua.words) \in Nat /\ Len(call.words) \in Nat
      /\ Len(s1) = b /\ Len(s2) = c /\ n = Len(s4)
      /\ n = Len(s3) + Len(call.words) /\ Len(s3) = c + Len(lua.words) /\ b = a + Len(F) /\ c = b + Len(H)
  BY <1>1, <1>2, <1>3, <1>4, <1>5, <1>6, <1>7, LenProperties
<1>w. b \in Nat /\ c \in Nat /\ Len(s3) \in Nat /\ n \in Nat /\ c <= Len(s3) /\ Len(s3) <= n
  <2>1. b \in Nat /\ c \in Nat /\ Len(s3) \in Nat /\ n \in Nat
    BY <1>4, <1>5, <1>6, <1>7, <1>8, LenProperties, Zenon
  <2>2. c <= Len(s3)
    BY <1>8, <2>1, AtLeast, Zenon
  <2>3. Len(s3) <= n
    BY <1>8, <2>1, AtLeast, Zenon
  <2> QED  BY <2>1, <2>2, <2>3
<1>9. ASSUME NEW i \in 1..c PROVE s4[i] = s2[i] /\ i \in 1..Len(s3)
  <2>1. i \in 1..Len(s2)
    BY <1>8
  <2>2. i \in 1..Len(s3)
    BY <1>w
  <2> QED  BY <1>6, <1>7, <2>1, <2>2
<1>10. ASSUME NEW i \in 1..b PROVE s4[i] = s1[i]
  <2>1. i \in 1..Len(s1) /\ i \in 1..c
    BY <1>8
  <2> QED  BY <1>5, <1>9, <2>1
<1>11. \A i \in 1..a : s4[i] = lua.options[i]
  <2>1. \A i \in 1..a : i \in 1..b
    BY <1>8
  <2> QED  BY <1>4, <1>10, <2>1
<1>12. \A i \in (a + 1)..b : s4[i] = Long("force")
  <2>1. \A i \in (a + 1)..b : i \in 1..b /\ i \in (a + 1)..(a + Len(F))
    BY <1>8
  <2> QED  BY <1>2, <1>4, <1>10, <2>1
<1>13. \A i \in (b + 1)..c : s4[i] = Long("help")
  <2>1. \A i \in (b + 1)..c : i \in 1..c /\ i \in (Len(s1) + 1)..(Len(s1) + Len(H))
    BY <1>8
  <2> QED  BY <1>2, <1>5, <1>9, <2>1
<1>14. ASSUME NEW i \in (c + 1)..n PROVE s4[i] \in ToSet(lua.words) \cup ToSet(call.words)
  <2>1. CASE i <= Len(s3)
    <3>1. i \in 1..Len(s3) /\ i \in (Len(s2) + 1)..(Len(s2) + Len(lua.words))
      BY <1>8, <2>1
    <3> QED  BY <1>6, <1>7, <3>1
  <2>2. CASE ~(i <= Len(s3))
    <3>1. i \in (Len(s3) + 1)..(Len(s3) + Len(call.words))
      BY <1>8, <2>2
    <3> QED  BY <1>7, <3>1
  <2> QED  BY <2>1, <2>2
<1>15. c <= n /\ n \in Nat
  BY <1>w
<1> QED  BY <1>1, <1>7, <1>8, <1>11, <1>12, <1>13, <1>14, <1>15 DEF LuaLine

(* what stands where on that line *)
LEMMA WordsAfterGroups ==
  ASSUME NEW V, Groups(lua.options, V), lua.options \in Seq(LineWord), lua.words \in Seq(UserWord),
         call.words \in Seq(UserWord), lua.force \in BOOLEAN, lua.help \in BOOLEAN,
         NEW role, IsRole(DispatchLine, role)
  PROVE  /\ \A i \in 1..Len(lua.options) : role[i] = IF i \in V THEN "value" ELSE "option"
         /\ \A i \in (Len(lua.options) + 1)..(Len(lua.options) + One(lua.force)) : role[i] = "force"
         /\ ~lua.help /\ (\A w \in ToSet(lua.words) \cup ToSet(call.words) : w.dash = 0) =>
              \A i \in (Len(lua.options) + One(lua.force) + 1)..Len(DispatchLine) : role[i] = "word"
         /\ lua.help => \E j \in 1..Len(DispatchLine) : role[j] = "help"
         /\ \A j \in 1..Len(DispatchLine) : role[j] = "help" =>
              \/ lua.help
              \/ \E w \in ToSet(lua.words) \cup ToSet(call.words) : IsFlag(w, "help", "h")
<1>1. Groups(lua.options, V)
  OBVIOUS
<1> DEFINE a == Len(lua.options)
           b == a + One(lua.force)
           c == b + One(lua.help)
           n == Len(DispatchLine)
<1>2. DispatchLine \in Seq(LineWord) /\ a \in Nat /\ n \in Nat /\ c <= n /\ LuaLine(a, b, c, n)
  BY DispatchedLine, Zenon
<1>3. /\ One(lua.force) = IF lua.force THEN 1 ELSE 0
      /\ One(lua.help) = IF lua.help THEN 1 ELSE 0
  BY DEF One
<1>4. a <= b /\ b <= c /\ b \in Nat /\ c \in Nat /\ a <= n
  <2>1. One(lua.force) \in Nat /\ One(lua.help) \in Nat
    BY <1>3
  <2>2. b \in Nat /\ c \in Nat
    <3> HIDE DEF a
    <3> QED  BY <1>2, <2>1
  <2>3. a <= b /\ b <= c
    BY <1>2, <2>1, <2>2, AtLeast, Zenon
  <2> HIDE DEF a, b, c, n
  <2> QED  BY <1>2, <2>2, <2>3
<1> HIDE DEF b, c
<1>5. \A i \in 1..a : role[i] = IF i \in V THEN "value" ELSE "option"
  <2>1. \A i \in 1..Len(lua.options) : DispatchLine[i] = lua.options[i]
    BY <1>2 DEF LuaLine
  <2>2. Len(DispatchLine) \in Nat /\ Len(lua.options) <= Len(DispatchLine)
    BY <1>2, <1>4
  <2>3. PICK words, s : words = DispatchLine /\ s = lua.options
    OBVIOUS
  <2>4. /\ s \in Seq(LineWord) /\ Groups(s, V) /\ Len(s) <= Len(words) /\ Len(words) \in Nat
        /\ \A i \in 1..Len(s) : words[i] = s[i]
        /\ IsRole(words, role)
    BY <1>1, <2>1, <2>2, <2>3
  <2>5. \A i \in 1..Len(s) : role[i] = IF i \in V THEN "value" ELSE "option"
    BY <2>4, GroupRoles
  <2> QED  BY <2>3, <2>5
<1>6. \A i \in 1..a : ~Ends(role, i) /\ role[i] # "help"
  BY <1>5 DEF Ends
<1>7. a > 0 => ~(role[a] = "option" /\ AsksForValue(DispatchLine[a]))
  <2>1. a > 0 => a \in 1..a /\ DispatchLine[a] = lua.options[a]
    BY <1>2 DEF LuaLine
  <2> QED  BY <1>1, <1>5, <2>1 DEF Groups
<1> HIDE DEF a, n
<1>8. \A i \in 1..n : role[i] = RoleOf(DispatchLine, role, i)
  BY DEF IsRole, n
<1>9. ASSUME NEW d, d = a + 1 PROVE ~Waits(DispatchLine, role, d)
  <2>1. d > 1 => a > 0 /\ d - 1 = a
    BY <1>2, <1>9
  <2> QED  BY <1>7, <2>1 DEF Waits
<1>10. lua.force => b = a + 1 /\ role[b] = "force"
  <2>1. SUFFICES ASSUME lua.force PROVE b = a + 1 /\ role[b] = "force"
    OBVIOUS
  <2>2. b = a + 1
    BY <1>3, <2>1 DEF b
  <2>3. b \in 1..n /\ b \in (a + 1)..b /\ b - 1 = a
    BY <1>2, <1>4, <2>2
  <2>4. DispatchLine[b] = Long("force")
    BY <1>2, <2>3 DEF LuaLine
  <2>5. Long("force") # Dashes /\ IsFlag(Long("force"), "force", "f") /\ ~IsFlag(Long("force"), "help", "h")
    BY DEF Long, Dashes, IsFlag
  <2>6. RoleOf(DispatchLine, role, b) = "force"
    BY <1>6, <1>9, <2>2, <2>3, <2>4, <2>5, RoleOfCases
  <2> QED  BY <1>8, <2>2, <2>3, <2>6
<1>11. ~lua.force => b = a
  BY <1>2, <1>3 DEF b
<1>12. lua.help => c = b + 1 /\ c \in 1..n /\ role[c] = "help"
  <2>1. SUFFICES ASSUME lua.help PROVE c = b + 1 /\ c \in 1..n /\ role[c] = "help"
    OBVIOUS
  <2>2. c = b + 1
    BY <1>3, <2>1 DEF c
  <2>3. c \in 1..n /\ c \in (b + 1)..c /\ c - 1 = b
    BY <1>2, <1>4, <2>2
  <2>4. DispatchLine[c] = Long("help")
    BY <1>2, <2>3 DEF LuaLine
  <2>5. Long("help") # Dashes /\ IsFlag(Long("help"), "help", "h")
    BY DEF Long, Dashes, IsFlag
  <2>6. \A j \in 1..b : ~Ends(role, j)
    <3>1. \A j \in 1..b : j \in 1..a \/ (j = b /\ lua.force)
      BY <1>2, <1>4, <1>10, <1>11
    <3> QED  BY <1>6, <1>10, <3>1 DEF Ends
  <2>7. ~Waits(DispatchLine, role, c)
    BY <1>9, <1>10, <1>11, <2>2, <2>3 DEF Waits
  <2>8. RoleOf(DispatchLine, role, c) = "help"
    BY <2>3, <2>4, <2>5, <2>6, <2>7, RoleOfCases
  <2> QED  BY <1>8, <2>2, <2>3, <2>8
<1>13. ASSUME NEW j \in 1..n, role[j] = "help", ~lua.help
       PROVE  \E w \in ToSet(lua.words) \cup ToSet(call.words) : IsFlag(w, "help", "h")
  <2>1. c = b
    BY <1>3, <1>4, <1>13 DEF c
  <2>2. j \in (c + 1)..n
    <3>1. j \notin 1..a
      BY <1>6, <1>13
    <3>2. ~(j = b /\ lua.force)
      BY <1>10, <1>13
    <3> QED  BY <1>2, <1>4, <1>10, <1>11, <2>1, <3>1, <3>2
  <2>3. IsFlag(DispatchLine[j], "help", "h")
    <3>1. RoleOf(DispatchLine, role, j) = "help"
      BY <1>8, <1>13
    <3> QED  BY <3>1, RoleOfCases
  <2> QED  BY <1>2, <2>2, <2>3 DEF LuaLine
<1>14. ASSUME ~lua.help, \A w \in ToSet(lua.words) \cup ToSet(call.words) : w.dash = 0
       PROVE  \A i \in (b + 1)..n : role[i] = "word"
  <2> DEFINE T == {i \in Nat : i \in (b + 1)..n /\ role[i] # "word"}
  <2>1. SUFFICES ASSUME T # {} PROVE FALSE
    BY <1>4
  <2>2. PICK i \in T : \A j \in T : i <= j
    BY <2>1, LeastNumber
  <2>3. i \in (b + 1)..n /\ role[i] # "word" /\ i \in Nat
    BY <2>2
  <2>4. \A j \in (b + 1)..(i - 1) : role[j] = "word"
    <3>1. SUFFICES ASSUME NEW j \in (b + 1)..(i - 1), role[j] # "word" PROVE FALSE
      OBVIOUS
    <3>2. j \in T /\ ~(i <= j)
      BY <1>2, <1>4, <2>3, <3>1
    <3> QED  BY <2>2, <3>2
  <2> HIDE DEF T
  <2>5. DispatchLine[i].dash = 0
    <3>1. c = b
      BY <1>3, <1>4, <1>14 DEF c
    <3>2. i \in (c + 1)..n
      BY <2>3, <3>1
    <3> QED  BY <1>2, <1>14, <3>2 DEF LuaLine
  <2>6. ~Waits(DispatchLine, role, i)
    <3>1. CASE i = b + 1
      <4>1. i - 1 = b
        BY <1>4, <3>1
      <4>2. CASE lua.force
        BY <1>10, <4>1, <4>2 DEF Waits
      <4>3. CASE ~lua.force
        BY <1>9, <1>11, <3>1, <4>3
      <4> QED  BY <4>2, <4>3
    <3>2. CASE i # b + 1
      <4>1. i - 1 \in (b + 1)..(i - 1)
        BY <1>4, <2>3, <3>2
      <4> QED  BY <2>4, <4>1 DEF Waits
    <3> QED  BY <3>1, <3>2
  <2>7. /\ ~(DispatchLine[i].dash > 0) /\ DispatchLine[i] # Dashes
        /\ ~IsFlag(DispatchLine[i], "help", "h") /\ ~IsFlag(DispatchLine[i], "force", "f")
    BY <2>5, FlagsDiffer
  <2>8. RoleOf(DispatchLine, role, i) = "word"
    BY <2>6, <2>7, RoleOfCases
  <2>9. i \in 1..n
    BY <1>2, <1>4, <2>3
  <2> QED  BY <1>8, <2>3, <2>8, <2>9
<1>15. \A i \in (a + 1)..b : role[i] = "force"
  <2>1. \A i \in (a + 1)..b : i = b /\ lua.force
    BY <1>2, <1>4, <1>10, <1>11
  <2> QED  BY <1>10, <2>1
<1> QED  BY <1>5, <1>12, <1>13, <1>14, <1>15 DEF n, a, b

-----------------------------------------------------------------------------
(* The table of a Lua call *)

LuaState == [todo : SUBSET TableEntry, options : Seq(LineWord), words : Seq(UserWord),
             force : BOOLEAN, help : BOOLEAN, allow_failure : BOOLEAN]
Given(key) == \E e \in call.options : e.key = key /\ e.on
HelpEntry == \E e \in call.options : e.key \in {"args", "positionals"} /\ HelpWord(e.words)

(* what the entries visited so far have left *)
Dispatched ==
  /\ lua.todo \subseteq call.options
  /\ lua.force => Given("force")
  /\ lua.help => Given("help")
  /\ lua.allow_failure => AllowsFailure
  /\ (\E w \in ToSet(lua.words) : IsFlag(w, "help", "h")) => HelpEntry
  /\ command # {} => Grouped(lua.options)
  /\ command = {} => lua.options = <<>> /\ lua.words = <<>>

LuaInv ==
  /\ lua \in LuaState
  /\ phase # "register" => Dispatched
  /\ phase = "register" => lua.todo = {} /\ lua.options = <<>> /\ lua.words = <<>>
                           /\ ~lua.force /\ ~lua.help /\ ~lua.allow_failure
  /\ phase \in {"parse", "end"} /\ command # {} /\ call.via = "commands" /\ outcome # "lua error" =>
       lua.help \/ lua.force \/ TheCommand.safety # "RequiresForce"

LEMMA NothingGrouped == Grouped(<<>>)
<1>1. Groups(<<>>, {})
  BY DEF Groups
<1> QED  BY <1>1 DEF Grouped

LEMMA SameGroups ==
  ASSUME TheCommand' = TheCommand, NEW s
  PROVE  Grouped(s)' <=> Grouped(s)
<1>1. \A w : AsksForValue(w)' <=> AsksForValue(w)
  BY SameMeaning
<1> QED  BY <1>1 DEF Grouped, Groups

LEMMA InitLua == Init => LuaInv
<1> SUFFICES ASSUME Init PROVE LuaInv
  OBVIOUS
<1>1. /\ lua = [todo |-> {}, options |-> <<>>, words |-> <<>>,
                force |-> FALSE, help |-> FALSE, allow_failure |-> FALSE]
      /\ phase = "register"
  BY DEF Init
<1>2. <<>> \in Seq(LineWord) /\ <<>> \in Seq(UserWord)
  BY EmptySeq
<1>3. lua \in LuaState
  BY <1>1, <1>2 DEF LuaState
<1> QED  BY <1>1, <1>3 DEF LuaInv

(* what one entry adds *)
LEMMA EntryVisited ==
  ASSUME RegistryInv, CallInv, LuaInv, UNCHANGED registry, DispatchEntry, UNCHANGED outcome
  PROVE  lua' \in LuaState /\ Dispatched'
<1>1. /\ phase = "table" /\ command # {} /\ call \in UserCall /\ outcome = ""
      /\ UNCHANGED <<call, command>> /\ TheCommand' = TheCommand
  BY CommandStays DEF DispatchEntry, CallInv, registry
<1>2. PICK e \in lua.todo :
        /\ ~EntryRefused(e)
        /\ lua' = LET rest == [lua EXCEPT !.todo = @ \ {e}]
                  IN CASE e.key \in {"args", "positionals"} -> [rest EXCEPT !.words = @ \o e.words]
                       [] e.key \in {"meta", "allow-failure"} -> [rest EXCEPT !.allow_failure = Holds(e)]
                       [] e.key = "force" -> [rest EXCEPT !.force = Holds(e)]
                       [] e.key = "help" -> [rest EXCEPT !.help = Holds(e)]
                       [] OTHER -> [rest EXCEPT !.options = @ \o EntryWords(e)]
  BY <1>1 DEF DispatchEntry, End
<1>3. lua \in LuaState /\ Dispatched /\ CommandOK
  BY <1>1, CommandFound DEF LuaInv
<1>4. e \in TableEntry /\ e \in call.options /\ lua.todo \ {e} \in SUBSET TableEntry
  BY <1>3 DEF LuaState, Dispatched
<1>5. e.words \in Seq(UserWord) /\ e.on \in BOOLEAN /\ e.key \in STRING
  BY <1>4 DEF TableEntry
<1>6. Grouped(lua.options) /\ lua.options \in Seq(LineWord) /\ lua.words \in Seq(UserWord)
  BY <1>1, <1>3 DEF Dispatched, LuaState
<1> DEFINE rest == [lua EXCEPT !.todo = @ \ {e}]
<1>7. /\ rest \in LuaState /\ rest.todo = lua.todo \ {e} /\ rest.options = lua.options
      /\ rest.words = lua.words /\ rest.force = lua.force /\ rest.help = lua.help
      /\ rest.allow_failure = lua.allow_failure
  BY <1>3, <1>4 DEF LuaState
<1> HIDE DEF rest
<1>a. CASE e.key \in {"args", "positionals"}
  <2>1. lua' = [rest EXCEPT !.words = @ \o e.words]
    BY <1>2, <1>a DEF rest
  <2>2. lua.words \o e.words \in Seq(UserWord) /\ ToSet(lua.words \o e.words) = ToSet(lua.words) \cup ToSet(e.words)
    BY <1>5, <1>6, RangeOfConcat
  <2>3. (\E w \in ToSet(e.words) : IsFlag(w, "help", "h")) => HelpEntry
    <3>1. (\E w \in ToSet(e.words) : IsFlag(w, "help", "h")) => HelpWord(e.words)
      BY <1>5, RangeOf DEF HelpWord
    <3> QED  BY <1>4, <1>a, <3>1 DEF HelpEntry
  <2>4. lua'.words = lua.words \o e.words /\ lua'.todo = lua.todo \ {e} /\ lua'.options = lua.options
        /\ lua'.force = lua.force /\ lua'.help = lua.help /\ lua'.allow_failure = lua.allow_failure
    BY <1>7, <2>1 DEF LuaState
  <2>5. lua' \in LuaState
    BY <1>7, <2>1, <2>2 DEF LuaState
  <2>6. Grouped(lua.options)'
    BY <1>1, <1>6, <2>4, SameGroups
  <2> QED  BY <1>1, <1>3, <2>2, <2>3, <2>4, <2>5, <2>6 DEF Dispatched, HelpEntry, Given, AllowsFailure, HelpWord
<1>b. CASE e.key \in {"meta", "allow-failure"}
  <2>1. lua' = [rest EXCEPT !.allow_failure = e.on]
    BY <1>2, <1>b DEF rest, Holds
  <2>2. /\ lua' \in LuaState /\ lua'.todo = lua.todo \ {e} /\ lua'.options = lua.options
        /\ lua'.words = lua.words /\ lua'.force = lua.force /\ lua'.help = lua.help
        /\ lua'.allow_failure = e.on
    BY <1>5, <1>7, <2>1 DEF LuaState
  <2>3. e.on => AllowsFailure
    BY <1>4, <1>b DEF AllowsFailure
  <2>4. Grouped(lua.options)'
    BY <1>1, <1>6, <2>2, SameGroups
  <2> QED  BY <1>1, <1>3, <2>2, <2>3, <2>4 DEF Dispatched, HelpEntry, Given, AllowsFailure, HelpWord
<1>c. CASE e.key = "force"
  <2>1. lua' = [rest EXCEPT !.force = e.on]
    BY <1>2, <1>c DEF rest, Holds
  <2>2. /\ lua' \in LuaState /\ lua'.todo = lua.todo \ {e} /\ lua'.options = lua.options
        /\ lua'.words = lua.words /\ lua'.force = e.on /\ lua'.help = lua.help
        /\ lua'.allow_failure = lua.allow_failure
    BY <1>5, <1>7, <2>1 DEF LuaState
  <2>3. e.on => Given("force")
    BY <1>4, <1>c DEF Given
  <2>4. Grouped(lua.options)'
    BY <1>1, <1>6, <2>2, SameGroups
  <2> QED  BY <1>1, <1>3, <2>2, <2>3, <2>4 DEF Dispatched, HelpEntry, Given, AllowsFailure, HelpWord
<1>d. CASE e.key = "help"
  <2>1. lua' = [rest EXCEPT !.help = e.on]
    BY <1>2, <1>d DEF rest, Holds
  <2>2. /\ lua' \in LuaState /\ lua'.todo = lua.todo \ {e} /\ lua'.options = lua.options
        /\ lua'.words = lua.words /\ lua'.force = lua.force /\ lua'.help = e.on
        /\ lua'.allow_failure = lua.allow_failure
    BY <1>5, <1>7, <2>1 DEF LuaState
  <2>3. e.on => Given("help")
    BY <1>4, <1>d DEF Given
  <2>4. Grouped(lua.options)'
    BY <1>1, <1>6, <2>2, SameGroups
  <2> QED  BY <1>1, <1>3, <2>2, <2>3, <2>4 DEF Dispatched, HelpEntry, Given, AllowsFailure, HelpWord
<1>e. CASE e.key \notin {"args", "positionals", "meta", "allow-failure", "force", "help"}
  <2>1. lua' = [rest EXCEPT !.options = @ \o EntryWords(e)]
    BY <1>2, <1>e DEF rest
  <2>2. EntryWords(e) \in Seq(LineWord) /\ Grouped(lua.options \o EntryWords(e))
    <3> DEFINE t == EntryWords(e)
               key == e.key
    <3>1. /\ t \in Seq(LineWord) /\ SpecOf(key) # {}
          /\ \/ t = <<>>
             \/ t = <<Long(key)>> /\ \A o \in SpecOf(key) : ~o.requires_value
             \/ /\ \A o \in SpecOf(key) : o.requires_value
                /\ \E k \in Nat : /\ Len(t) = 2 * k
                                  /\ \A i \in 1..(2 * k) : i % 2 = 1 => t[i] = Long(key)
      BY <1>2, <1>3, <1>4, <1>e, EntryAdds
    <3>2. key \notin {"help", "force"}
      BY <1>e
    <3> HIDE DEF t, key
    <3>3. Grouped(lua.options \o t)
      <4>1. PICK V \in SUBSET (1..Len(lua.options)) : Groups(lua.options, V)
        BY <1>6 DEF Grouped
      <4>2. \E W \in SUBSET (1..Len(lua.options \o t)) : Groups(lua.options \o t, W)
        <5>1. PICK s : s = lua.options
          OBVIOUS
        <5>2. s \in Seq(LineWord) /\ V \in SUBSET (1..Len(s)) /\ Groups(s, V)
          BY <1>6, <4>1, <5>1
        <5>3. \E W \in SUBSET (1..Len(s \o t)) : Groups(s \o t, W)
          BY <1>3, <3>1, <3>2, <5>2, GroupAdded
        <5> QED  BY <5>1, <5>3
      <4> QED  BY <4>2 DEF Grouped
    <3> QED  BY <3>1, <3>3 DEF t
  <2>3. lua.options \o EntryWords(e) \in Seq(LineWord)
    BY <1>6, <2>2, ConcatProperties
  <2>4. /\ lua' \in LuaState /\ lua'.todo = lua.todo \ {e} /\ lua'.options = lua.options \o EntryWords(e)
        /\ lua'.words = lua.words /\ lua'.force = lua.force /\ lua'.help = lua.help
        /\ lua'.allow_failure = lua.allow_failure
    BY <1>7, <2>1, <2>3 DEF LuaState
  <2>5. Grouped(lua.options)'
    <3> DEFINE s == lua.options \o EntryWords(e)
    <3>1. lua'.options = s /\ Grouped(s)
      BY <2>2, <2>4
    <3> HIDE DEF s
    <3> QED  BY <1>1, <3>1, SameGroups DEF Grouped, Groups
  <2> QED  BY <1>1, <1>3, <2>4, <2>5 DEF Dispatched, HelpEntry, Given, AllowsFailure, HelpWord
<1> QED  BY <1>a, <1>b, <1>c, <1>d, <1>e

(* steps that leave the table and the command alone *)
LEMMA LuaStays ==
  ASSUME LuaInv, phase # "register", UNCHANGED <<call, lua, command, table>>
  PROVE  lua' \in LuaState /\ Dispatched'
<1>1. TheCommand' = TheCommand
  BY CommandStays
<1>2. Grouped(lua.options) => Grouped(lua.options)'
  <2> DEFINE s == lua.options
  <2>1. s' = s
    OBVIOUS
  <2> QED  BY <1>1, SameGroups DEF Grouped, Groups
<1> QED  BY <1>2 DEF LuaInv, Dispatched, Given, HelpEntry, AllowsFailure, HelpWord

(* a command is found: nothing has been dispatched yet *)
LEMMA LuaBegins ==
  ASSUME LuaInv, phase # "register", command = {}, UNCHANGED <<call, lua>>
  PROVE  lua' \in LuaState /\ Dispatched'
<1>1. lua.options = <<>> /\ lua'.options = <<>>
  BY DEF LuaInv, Dispatched
<1>2. Grouped(<<>>)'
  BY NothingGrouped, PTL
<1>3. Grouped(lua.options)'
  BY <1>1, <1>2 DEF Grouped, Groups
<1> QED  BY <1>1, <1>3 DEF LuaInv, Dispatched, Given, HelpEntry, AllowsFailure, HelpWord

LEMMA LuaSteps ==
  ASSUME RegistryInv, CallInv, LuaInv, [Next]_vars
  PROVE  LuaInv'
<1>1. CASE UNCHANGED <<registry, line>>
  <2>1. UNCHANGED <<call, lua, command, table, phase, outcome>> /\ TheCommand' = TheCommand
    BY <1>1, CommandStays DEF registry, line
  <2>2. CASE phase = "register"
    BY <2>1, <2>2 DEF LuaInv
  <2>3. CASE phase # "register"
    BY <2>1, <2>3, LuaStays DEF LuaInv
  <2> QED  BY <2>2, <2>3
<1>2. CASE Register /\ UNCHANGED line /\ phase = "register"
  BY <1>2 DEF line, LuaInv
<1>3. CASE CallStep /\ UNCHANGED registry
  <2>1. UNCHANGED table
    BY <1>3 DEF registry
  <2>2. CASE Accept
    <3>1. phase = "register" /\ phase' = "start" /\ UNCHANGED <<lua, command>> /\ command = {}
      BY <2>2 DEF Accept, CallInv
    <3>2. Dispatched'
      <4>1. lua'.todo = {} /\ lua'.options = <<>> /\ lua'.words = <<>>
            /\ ~lua'.force /\ ~lua'.help /\ ~lua'.allow_failure
        BY <3>1 DEF LuaInv
      <4>2. ToSet(lua'.words) = {}
        BY <4>1 DEF ToSet
      <4> QED  BY <3>1, <4>1, <4>2 DEF Dispatched
    <3> QED  BY <3>1, <3>2 DEF LuaInv
  <2>3. CASE MainStarts \/ ExecStarts
    <3>1. phase = "start" /\ call.via # "commands" /\ UNCHANGED <<call, lua>> /\ command = {}
          /\ phase' \in {"parse", "end"}
      BY <2>3 DEF MainStarts, ExecStarts, CallInv, End
    <3> QED  BY <3>1, LuaBegins DEF LuaInv
  <2>4. CASE DispatchStarts
    <3>1. phase = "start" /\ phase' = "table" /\ UNCHANGED call /\ command = {}
          /\ lua' = [lua EXCEPT !.todo = call.options] /\ call \in UserCall
      BY <2>4 DEF DispatchStarts, CallInv
    <3>2. call.options \in SUBSET TableEntry
      BY <3>1 DEF UserCall
    <3>3. lua' \in LuaState /\ lua'.todo = call.options /\ lua'.options = <<>> /\ lua'.words = lua.words
          /\ lua'.force = lua.force /\ lua'.help = lua.help /\ lua'.allow_failure = lua.allow_failure
      BY <3>1, <3>2 DEF LuaInv, LuaState, Dispatched
    <3>4. Grouped(lua.options)'
      <4>1. Grouped(<<>>)'
        BY NothingGrouped, PTL
      <4> QED  BY <3>3, <4>1 DEF Grouped, Groups
    <3> QED  BY <3>1, <3>3, <3>4 DEF LuaInv, Dispatched, Given, HelpEntry, AllowsFailure, HelpWord
  <2>5. CASE ParseFlag \/ ParseOption \/ ParseOptionThrows \/ ParsePositional \/ Invoke
    <3>1. phase = "parse" /\ phase' \in {"parse", "end"} /\ UNCHANGED <<call, lua, command>> /\ outcome = ""
      BY <2>5 DEF ParseFlag, ParseOption, ParseOptionThrows, ParsePositional, Invoke, Parsing, CallInv, End, parser
    <3>2. TheCommand' = TheCommand
      BY <2>1, <3>1, CommandStays
    <3> QED  BY <2>1, <3>1, <3>2, LuaStays DEF LuaInv
  <2>6. CASE DispatchEntry
    <3>1. phase = "table" /\ UNCHANGED <<call, command>> /\ outcome = ""
      BY <2>6 DEF DispatchEntry, CallInv
    <3>2. CASE UNCHANGED <<phase, outcome>>
      BY <1>3, <2>6, <3>1, <3>2, EntryVisited DEF LuaInv
    <3>3. CASE End("lua error") /\ UNCHANGED lua
      BY <2>1, <3>1, <3>3, LuaStays DEF LuaInv, End
    <3> QED  BY <2>6, <3>2, <3>3 DEF DispatchEntry
  <2>7. CASE DispatchInvokes
    <3>1. phase = "table" /\ UNCHANGED <<call, lua, command>> /\ TheCommand' = TheCommand
      BY <2>1, <2>7, CommandStays DEF DispatchInvokes
    <3>2. \/ phase' = "end" /\ outcome' = "lua error"
          \/ phase' = "parse" /\ (lua.help \/ lua.force \/ TheCommand.safety # "RequiresForce")
      BY <2>7 DEF DispatchInvokes, End
    <3> QED  BY <2>1, <3>1, <3>2, LuaStays DEF LuaInv
  <2> QED  BY <1>3, <2>2, <2>3, <2>4, <2>5, <2>6, <2>7 DEF CallStep
<1> QED  BY <1>1, <1>2, <1>3, NextSplits

-----------------------------------------------------------------------------
(* How a call ends *)

EndInv ==
  /\ phase = "end" /\ command = {} =>
       /\ outcome \in {"no command", "unknown", "usage"} /\ call.via # "commands" /\ values = <<>>
       /\ outcome = "usage" => call.via = "main" /\ \E i \in DOMAIN call.words : GlobalFlag(call.words[i])
  /\ phase = "end" /\ command # {} =>
       /\ outcome \in {"usage", "argument error", "root", "done", "failed", "lua error"}
       /\ outcome = "lua error" => call.via = "commands" /\ values = <<>>
       /\ outcome = "usage" => help
       /\ Handled => /\ args = <<>> /\ ~help /\ ~Incomplete
                     /\ TheCommand.requires_root => call.root

LEMMA EndSteps ==
  ASSUME RegistryInv, CallInv, EndInv, [Next]_vars
  PROVE  EndInv'
<1>1. CASE UNCHANGED <<registry, line>>
  <2>1. TheCommand' = TheCommand
    BY <1>1, CommandStays DEF registry, line
  <2> QED  BY <1>1, <2>1 DEF line, parser, EndInv, Untouched, Handled, Incomplete
<1>2. CASE Register /\ UNCHANGED line /\ phase = "register"
  BY <1>2 DEF line, EndInv
<1>3. CASE CallStep /\ UNCHANGED registry
  <2>1. UNCHANGED table
    BY <1>3 DEF registry
  <2>2. CASE Accept \/ DispatchStarts
    BY <2>2 DEF Accept, DispatchStarts, EndInv
  <2>3. CASE ParseFlag \/ ParseOption \/ ParsePositional
    BY <2>3 DEF ParseFlag, ParseOption, ParsePositional, Parsing, EndInv
  <2>4. CASE MainStarts
    <3> DEFINE words == WithoutVerbose(call.words)
    <3>1. phase = "start" /\ call.via = "main" /\ call \in UserCall /\ UNCHANGED call /\ Untouched
          /\ command = {} /\ UNCHANGED <<values, positionals, only_words, help, force>>
      BY <2>4 DEF MainStarts, CallInv
    <3>2. call.words \in Seq(UserWord)
      BY <3>1 DEF UserCall
    <3>3. words \in Seq(UserWord) /\ ToSet(words) \subseteq ToSet(call.words)
      BY <3>2, VerboseGone
    <3>4. NameAt(words) = {} /\ words # <<>> => \E i \in DOMAIN call.words : GlobalFlag(call.words[i])
      <4>1. SUFFICES ASSUME NameAt(words) = {}, words # <<>>
                     PROVE  \E i \in DOMAIN call.words : GlobalFlag(call.words[i])
        OBVIOUS
      <4> HIDE DEF words
      <4>2. Len(words) \in Nat /\ Len(words) # 0 /\ DOMAIN words = 1..Len(words)
        BY <3>3, <4>1, EmptySeq, LenProperties
      <4>3. 1 \in DOMAIN words /\ 1..(1 - 1) = {}
        BY <4>2
      <4>4. GlobalFlag(words[1])
        BY <4>1, <4>3 DEF NameAt
      <4>5. words[1] \in ToSet(call.words)
        BY <3>3, <4>2, <4>3, RangeOf
      <4> QED  BY <3>2, <4>4, <4>5, RangeOf
    <3>5. \/ /\ NameAt(words) = {}
             /\ End(IF words = <<>> THEN "no command" ELSE "usage")
             /\ UNCHANGED <<command, args>>
          \/ \E i \in NameAt(words) :
             /\ command' = Find(words[i].text)
             /\ args' = SubSeq(words, i + 1, Len(words))
             /\ IF command' = {} THEN End("unknown") ELSE phase' = "parse" /\ UNCHANGED outcome
      BY <2>4 DEF MainStarts
    <3> HIDE DEF words
    <3>6. CASE NameAt(words) = {} /\ End(IF words = <<>> THEN "no command" ELSE "usage") /\ UNCHANGED <<command, args>>
      BY <3>1, <3>4, <3>6 DEF EndInv, End, Untouched
    <3>7. CASE \E i \in NameAt(words) :
             /\ command' = Find(words[i].text)
             /\ args' = SubSeq(words, i + 1, Len(words))
             /\ IF command' = {} THEN End("unknown") ELSE phase' = "parse" /\ UNCHANGED outcome
      BY <3>1, <3>7 DEF EndInv, End, Untouched
    <3> QED  BY <3>5, <3>6, <3>7
  <2>5. CASE ExecStarts
    BY <2>5 DEF ExecStarts, EndInv, End, CallInv, Untouched
  <2>6. CASE ParseOptionThrows
    BY <2>6 DEF ParseOptionThrows, Parsing, EndInv, End, Handled, CallInv
  <2>7. CASE Invoke
    <3>1. command # {} /\ UNCHANGED <<call, command, args, values, positionals, only_words, help, force, lua>>
          /\ args = <<>> /\ TheCommand' = TheCommand
      BY <2>1, <2>7, CommandStays DEF Invoke, parser, CallInv
    <3>2. Incomplete' <=> Incomplete
      BY <3>1 DEF Incomplete
    <3>3. \/ help /\ End("usage")
          \/ End("argument error") \/ End("root")
          \/ ~help /\ ~Incomplete /\ (TheCommand.requires_root => call.root) /\ (End("done") \/ End("failed"))
      BY <2>7 DEF Invoke
    <3> QED  BY <3>1, <3>2, <3>3 DEF EndInv, End, Handled
  <2>8. CASE DispatchEntry \/ DispatchInvokes
    BY <2>8 DEF DispatchEntry, DispatchInvokes, EndInv, End, CallInv, Untouched, parser, Handled
  <2> QED  BY <1>3, <2>2, <2>3, <2>4, <2>5, <2>6, <2>7, <2>8 DEF CallStep
<1> QED  BY <1>1, <1>2, <1>3, NextSplits

-----------------------------------------------------------------------------
(* The line the parser was given *)

Lines == IF call.via = "commands" THEN {DispatchLine} ELSE LineOf

(* all of the line is taken, or the parser stopped at an option that is bad *)
Stopped(words, role) ==
  \/ phase = "parse" \/ args = <<>>
  \/ outcome = "argument error" /\ \E i \in With(role, "option") : BadOption(words, role, i)

LineParsed(words, role) == Stopped(words, role) /\ \E n : ParserInv(words, role, n)

ParsedInv ==
  phase \in {"parse", "end"} /\ command # {} /\ outcome # "lua error" =>
    /\ Lines # {}
    /\ \A words \in Lines : \A role : IsRole(words, role) => LineParsed(words, role)

LEMMA SameLines ==
  ASSUME UNCHANGED <<call, lua>>
  PROVE  Lines' = Lines
BY DEF Lines, LineOf, DispatchLine

(* a line has one name at most *)
LEMMA OneName ==
  ASSUME NEW words \in Seq(UserWord), NEW i \in NameAt(words)
  PROVE  NameAt(words) = {i}
<1>1. \A j \in NameAt(words) : j \in 1..Len(words) /\ Len(words) \in Nat
  BY RangeOf DEF NameAt
<1>2. ASSUME NEW j \in NameAt(words), NEW k \in NameAt(words), j < k PROVE FALSE
  <2>1. j \in 1..(k - 1)
    BY <1>1, <1>2
  <2> QED  BY <2>1 DEF NameAt
<1>3. \A j \in NameAt(words) : j < i \/ i < j \/ j = i
  BY <1>1
<1> QED  BY <1>2, <1>3

LEMMA UserLine ==
  ASSUME NEW words \in Seq(UserWord), NEW i \in NameAt(words)
  PROVE  SubSeq(words, i + 1, Len(words)) \in Seq(LineWord)
<1>1. i \in 1..Len(words) /\ Len(words) \in Nat
  BY RangeOf DEF NameAt
<1>2. words \in Seq(LineWord)
  <2>1. UserWord \subseteq LineWord
    BY DEF LineWord
  <2> QED  BY <2>1, SeqDef
<1>3. \A k \in (i + 1)..Len(words) : words[k] \in LineWord
  BY <1>1, <1>2, ElementOfSeq
<1> QED  BY <1>1, <1>2, <1>3, SubSeqProperties

(* a line has been handed to the parser *)
LEMMA ParsingStarts ==
  ASSUME phase' = "parse", NEW words \in Seq(LineWord), args' = words, Lines' = {words},
         values' = <<>>, positionals' = <<>>, only_words' = FALSE, help' = FALSE, force' = FALSE
  PROVE  ParsedInv'
<1> SUFFICES ASSUME NEW role, IsRole(words, role)' PROVE LineParsed(words, role)'
  BY DEF ParsedInv
<1>1. ParserInv(words, role, 0)'
  BY ParserStarts
<1>2. (\E n : ParserInv(words, role, n))'
  BY <1>1
<1> QED  BY <1>2 DEF LineParsed, Stopped

LEMMA ParserSame ==
  ASSUME TheCommand' = TheCommand, UNCHANGED parser, NEW words, NEW role, NEW n, ParserInv(words, role, n)
  PROVE  ParserInv(words, role, n)'
<1>1. UNCHANGED <<args, values, positionals, only_words, help, force>>
  BY DEF parser
<1>2. Taken(words)' = Taken(words) /\ (WordsOnly' <=> WordsOnly)
  BY <1>1 DEF Taken, WordsOnly
<1>3. Follows(words, role)'
  BY <1>1, <1>2, SameMeaning DEF ParserInv, Follows
<1>4. PositionalsAre(words, role, n)'
  BY <1>1 DEF ParserInv, PositionalsAre, SoFar, With
<1>5. ValuesAre(values, words, role, n)'
  BY <1>1, ValuesSame DEF ParserInv
<1> QED  BY <1>2, <1>3, <1>4, <1>5 DEF ParserInv

(* one word parsed *)
LEMMA WordParsed ==
  ASSUME CommandOK, TheCommand' = TheCommand, NEW words, NEW role, NEW n, ParserInv(words, role, n),
         ParseFlag \/ ParseOption \/ ParsePositional
  PROVE  \E k : ParserInv(words, role, k)'
<1>1. PICK m : m = n + 1
  OBVIOUS
<1>2. CASE ParseFlag
  BY <1>1, <1>2, FlagParsed
<1>3. CASE ParseOption
  BY <1>1, <1>3, OptionParsed
<1>4. CASE ParsePositional
  BY <1>1, <1>4, PositionalParsed
<1> QED  BY <1>2, <1>3, <1>4

LEMMA ParsedSteps ==
  ASSUME RegistryInv, CallInv, LuaInv, EndInv, ParsedInv, [Next]_vars
  PROVE  ParsedInv'
<1>1. CASE UNCHANGED <<registry, line>>
  <2>1. /\ TheCommand' = TheCommand /\ Lines' = Lines
        /\ UNCHANGED <<parser, phase, args, outcome, command>>
    BY <1>1, CommandStays, SameLines DEF registry, line, parser
  <2>2. ASSUME NEW words, NEW role, LineParsed(words, role) PROVE LineParsed(words, role)'
    <3>1. Stopped(words, role)'
      BY <2>1, <2>2, SameMeaning DEF LineParsed, Stopped, With
    <3> QED  BY <2>1, <2>2, <3>1, ParserSame DEF LineParsed
  <2> QED  BY <2>1, <2>2, SameMeaning DEF ParsedInv
<1>2. CASE Register /\ UNCHANGED line /\ phase = "register"
  BY <1>2 DEF line, ParsedInv
<1>3. CASE CallStep /\ UNCHANGED registry
  <2>1. UNCHANGED table
    BY <1>3 DEF registry
  <2>2. CASE Accept \/ DispatchStarts
    BY <2>2 DEF Accept, DispatchStarts, ParsedInv
  <2>3. CASE MainStarts
    <3> DEFINE words == WithoutVerbose(call.words)
    <3>1. /\ phase = "start" /\ call.via = "main" /\ call \in UserCall /\ UNCHANGED call /\ Untouched
          /\ command = {} /\ UNCHANGED <<values, positionals, only_words, help, force, lua>>
      BY <2>3 DEF MainStarts, CallInv
    <3>2. words \in Seq(UserWord)
      BY <3>1, VerboseGone DEF UserCall
    <3>3. Lines' = {SubSeq(words, i + 1, Len(words)) : i \in NameAt(words)}
      BY <3>1 DEF Lines, LineOf
    <3>4. \/ command' = {}
          \/ \E i \in NameAt(words) :
               phase' = "parse" /\ args' = SubSeq(words, i + 1, Len(words))
      BY <2>3, <3>1 DEF MainStarts
    <3> HIDE DEF words
    <3>5. ASSUME NEW i \in NameAt(words), phase' = "parse", args' = SubSeq(words, i + 1, Len(words))
          PROVE  ParsedInv'
      <4> DEFINE l == SubSeq(words, i + 1, Len(words))
      <4>1. l \in Seq(LineWord)
        BY <3>2, UserLine
      <4>2. Lines' = {l} /\ args' = l
        BY <3>2, <3>3, <3>5, OneName
      <4> HIDE DEF l
      <4> QED  BY <3>1, <3>5, <4>1, <4>2, ParsingStarts DEF Untouched
    <3>6. CASE command' = {}
      BY <3>6 DEF ParsedInv
    <3> QED  BY <3>4, <3>5, <3>6
  <2>4. CASE ExecStarts
    <3>1. /\ phase = "start" /\ call.via = "exec" /\ call \in UserCall /\ UNCHANGED call /\ Untouched
          /\ UNCHANGED <<values, positionals, only_words, help, force>> /\ args' = call.words
          /\ (command' = {} \/ phase' = "parse")
      BY <2>4 DEF ExecStarts, CallInv
    <3>2. call.words \in Seq(LineWord)
      <4>1. UserWord \subseteq LineWord
        BY DEF LineWord
      <4> QED  BY <3>1, <4>1, SeqDef DEF UserCall
    <3>3. Lines' = {call.words}
      BY <3>1 DEF Lines, LineOf
    <3>4. CASE command' = {}
      BY <3>4 DEF ParsedInv
    <3>5. CASE phase' = "parse"
      <4> DEFINE l == call.words
      <4>1. l \in Seq(LineWord) /\ Lines' = {l} /\ args' = l
        BY <3>1, <3>2, <3>3
      <4> HIDE DEF l
      <4> QED  BY <3>1, <3>5, <4>1, ParsingStarts DEF Untouched
    <3> QED  BY <3>1, <3>4, <3>5
  <2>5. CASE ParseFlag \/ ParseOption \/ ParsePositional
    <3>1. phase = "parse" /\ UNCHANGED <<phase, outcome, call, lua, command>> /\ outcome = "" /\ command # {}
      BY <2>5 DEF ParseFlag, ParseOption, ParsePositional, Parsing, CallInv
    <3>2. TheCommand' = TheCommand /\ Lines' = Lines /\ CommandOK
      BY <2>1, <3>1, CommandStays, SameLines, CommandFound
    <3>3. ASSUME NEW words, NEW role, LineParsed(words, role) PROVE LineParsed(words, role)'
      <4>1. \E k : ParserInv(words, role, k)'
        BY <2>5, <3>2, <3>3, WordParsed DEF LineParsed
      <4> QED  BY <3>1, <4>1 DEF LineParsed, Stopped
    <3> QED  BY <3>1, <3>2, <3>3, SameMeaning DEF ParsedInv
  <2>6. CASE ParseOptionThrows
    <3>1. phase = "parse" /\ UNCHANGED <<call, lua, command, parser>> /\ outcome = "" /\ command # {}
          /\ outcome' = "argument error" /\ phase' = "end"
      BY <2>6 DEF ParseOptionThrows, Parsing, CallInv, End
    <3>2. TheCommand' = TheCommand /\ Lines' = Lines /\ CommandOK
      BY <2>1, <3>1, CommandStays, SameLines, CommandFound
    <3>3. ASSUME NEW words, NEW role, LineParsed(words, role) PROVE LineParsed(words, role)'
      <4>1. PICK n : ParserInv(words, role, n)
        BY <3>3 DEF LineParsed
      <4>2. \E i \in With(role, "option") : BadOption(words, role, i)
        BY <2>6, <3>2, <4>1, OptionThrown
      <4>3. Stopped(words, role)'
        BY <3>1, <3>2, <4>2, SameMeaning DEF Stopped, With
      <4> QED  BY <3>1, <3>2, <4>1, <4>3, ParserSame DEF LineParsed
    <3> QED  BY <3>1, <3>2, <3>3, SameMeaning DEF ParsedInv
  <2>7. CASE Invoke
    <3>1. phase = "parse" /\ UNCHANGED <<call, lua, command, parser, args>> /\ outcome = "" /\ command # {}
          /\ args = <<>>
      BY <2>7 DEF Invoke, CallInv, parser
    <3>2. TheCommand' = TheCommand /\ Lines' = Lines
      BY <2>1, <3>1, CommandStays, SameLines
    <3>3. ASSUME NEW words, NEW role, LineParsed(words, role) PROVE LineParsed(words, role)'
      BY <3>1, <3>2, <3>3, ParserSame DEF LineParsed, Stopped
    <3> QED  BY <3>1, <3>2, <3>3, SameMeaning DEF ParsedInv
  <2>8. CASE DispatchEntry
    BY <2>8 DEF DispatchEntry, End, ParsedInv, CallInv
  <2>9. CASE DispatchInvokes
    <3>1. /\ phase = "table" /\ call.via = "commands" /\ call \in UserCall /\ UNCHANGED <<call, lua>> /\ Untouched
          /\ UNCHANGED <<values, positionals, only_words, help, force>>
          /\ outcome' = "lua error" \/ (phase' = "parse" /\ args' = DispatchLine)
      BY <2>9 DEF DispatchInvokes, CallInv, End
    <3>2. DispatchLine \in Seq(LineWord)
      <4>1. lua.options \in Seq(LineWord) /\ lua.words \in Seq(UserWord) /\ call.words \in Seq(UserWord)
        BY <3>1 DEF LuaInv, LuaState, UserCall
      <4> QED  BY <4>1, DispatchedLine
    <3>3. Lines' = {DispatchLine}
      BY <3>1, SameLines DEF Lines
    <3>4. CASE outcome' = "lua error"
      BY <3>4 DEF ParsedInv
    <3>5. CASE phase' = "parse" /\ args' = DispatchLine
      <4> DEFINE l == DispatchLine
      <4>1. l \in Seq(LineWord) /\ Lines' = {l} /\ args' = l
        BY <3>2, <3>3, <3>5
      <4> HIDE DEF l
      <4> QED  BY <3>1, <3>5, <4>1, ParsingStarts DEF Untouched
    <3> QED  BY <3>1, <3>4, <3>5
  <2> QED  BY <1>3, <2>2, <2>3, <2>4, <2>5, <2>6, <2>7, <2>8, <2>9 DEF CallStep
<1> QED  BY <1>1, <1>2, <1>3, NextSplits

-----------------------------------------------------------------------------
(* The inductive invariant of a call, from the registration to its end *)
LineInv == RegistryInv /\ CallInv /\ LuaInv /\ EndInv /\ ParsedInv

LEMMA LineAlways == Spec => []LineInv
<1>1. Init => LineInv
  BY InitRegistry, InitCall, InitLua DEF Init, LineInv, EndInv, ParsedInv
<1>2. LineInv /\ [Next]_vars => LineInv'
  <2> SUFFICES ASSUME LineInv, [Next]_vars PROVE LineInv'
    OBVIOUS
  <2>1. Register \/ UNCHANGED registry
    BY DEF Next, vars, registry
  <2> QED  BY <2>1, RegistrySteps, CallSteps, LuaSteps, EndSteps, ParsedSteps DEF LineInv
<1> QED  BY <1>1, <1>2, PTL DEF Spec

(* what the line as a whole says, and what the parser has when it has taken all of it *)
LEMMA AllTaken ==
  ASSUME CommandOK, NEW words, NEW role, NEW n, ParserInv(words, role, n), args = <<>>
  PROVE  /\ words \in Seq(LineWord) /\ IsRole(words, role) /\ n = Len(words) /\ n \in Nat
         /\ \A r : SoFar(role, r, n) = With(role, r)
         /\ \A o : Before(words, role, o, n) = PlacesOf(words, role, o)
         /\ \A i \in With(role, "option") : ~BadOption(words, role, i)
         /\ help <=> \E j \in 1..Len(words) : role[j] = "help"
         /\ force <=> \E j \in 1..Len(words) : role[j] = "force"
<1>1. Follows(words, role) /\ n = Taken(words)
  BY DEF ParserInv
<1>2. words \in Seq(LineWord) /\ IsRole(words, role) /\ Len(words) \in Nat /\ DOMAIN role = 1..Len(words)
  BY <1>1, LenProperties DEF Follows, IsRole
<1>3. n = Len(words)
  <2>1. Len(args) = 0
    OBVIOUS
  <2> QED  BY <1>1, <1>2, <2>1 DEF Taken
<1>4. \A r : SoFar(role, r, n) = With(role, r)
  <2>1. \A r : \A i \in With(role, r) : i <= n
    BY <1>2, <1>3 DEF With
  <2> QED  BY <2>1 DEF SoFar
<1>5. \A o : Before(words, role, o, n) = PlacesOf(words, role, o)
  <2>1. \A o : \A i \in PlacesOf(words, role, o) : i <= n
    BY <1>2, <1>3 DEF With, PlacesOf
  <2> QED  BY <2>1 DEF Before
<1>6. \A i \in With(role, "option") : ~BadOption(words, role, i)
  BY <1>4 DEF ParserInv, ValuesAre
<1>7. /\ help <=> \E j \in 1..Len(words) : role[j] = "help"
      /\ force <=> \E j \in 1..Len(words) : role[j] = "force"
  BY <1>1, <1>3 DEF Follows
<1> QED  BY <1>2, <1>3, <1>4, <1>5, <1>6, <1>7

(* an option the command has is in the values once, or is repeatable *)
LEMMA ValuesOnce ==
  ASSUME CommandOK, NEW words, NEW role, NEW n, ParserInv(words, role, n), NEW key \in DOMAIN values
  PROVE  \E o \in SpecOf(key) : values[key] # <<>> /\ (o.repeatable \/ Len(values[key]) = 1)
<1>1. /\ words \in Seq(LineWord) /\ IsRole(words, role) /\ n = Taken(words) /\ ValuesAre(values, words, role, n)
      /\ Len(args) \in Nat /\ Len(words) \in Nat /\ Len(args) <= Len(words)
  BY LenProperties DEF ParserInv, Follows
<1>2. n \in Nat /\ n <= Len(words) /\ DOMAIN role = 1..Len(words)
  BY <1>1 DEF Taken, IsRole
<1>a. PICK i \in SoFar(role, "option", n) : \E o \in OptionOf(words[i]) : o.long = key
  BY <1>1 DEF ValuesAre
<1>3. PICK o \in OptionOf(words[i]) : o.long = key
  BY <1>a
<1>4. i \in 1..Len(words) /\ i \in With(role, "option") /\ i <= n /\ words[i] \in LineWord
  BY <1>1, <1>2, <1>3, ElementOfSeq DEF SoFar, With
<1>5. o \in SpecOf(key)
  BY <1>3, <1>4, OneOption DEF SpecOf
<1>6. OptionOf(words[i]) = {o}
  BY <1>3, <1>4, OneOption
<1>7. i \in Before(words, role, o, n)
  BY <1>4, <1>6 DEF Before, PlacesOf
<1>8. values[key] \in Seq(Values) /\ Len(values[key]) = Cardinality(Before(words, role, o, n))
  BY <1>1, <1>3 DEF ValuesAre
<1>9. Before(words, role, o, n) \subseteq 1..n /\ IsFiniteSet(Before(words, role, o, n))
  <2>1. \A j \in Before(words, role, o, n) : j \in 1..n
    BY <1>2 DEF Before, PlacesOf, With
  <2>2. Before(words, role, o, n) \subseteq 1..n /\ IsFiniteSet(1..n)
    BY <1>2, <2>1, FS_Interval
  <2> QED  BY <2>2, FS_Subset
<1>10. values[key] # <<>>
  <2>1. Cardinality(Before(words, role, o, n)) # 0
    BY <1>7, <1>9, FS_EmptySet
  <2> QED  BY <1>8, <2>1
<1>11. CASE ~o.repeatable
  <2>1. ASSUME NEW j \in Before(words, role, o, n), NEW k \in Before(words, role, o, n), j < k PROVE FALSE
    <3>1. /\ j \in With(role, "option") /\ k \in With(role, "option") /\ k \in SoFar(role, "option", n)
          /\ OptionOf(words[j]) = {o} /\ OptionOf(words[k]) = {o}
      BY DEF Before, PlacesOf, SoFar
    <3>2. BadOption(words, role, k)
      BY <1>11, <2>1, <3>1 DEF BadOption
    <3> QED  BY <1>1, <3>1, <3>2 DEF ValuesAre
  <2>2. \A j \in Before(words, role, o, n) : j < i \/ i < j \/ j = i
    BY <1>4, <1>9
  <2>3. Before(words, role, o, n) = {i}
    BY <1>7, <2>1, <2>2
  <2>4. Len(values[key]) = 1
    BY <1>8, <2>3, FS_Singleton
  <2> QED  BY <1>5, <1>10, <2>4
<1> QED  BY <1>5, <1>10, <1>11

LEMMA LinesTyped ==
  ASSUME CallInv, LuaInv, phase # "register", NEW words \in Lines
  PROVE  words \in Seq(LineWord)
<1>1. /\ call \in UserCall /\ call.words \in Seq(UserWord) /\ call.via \in {"main", "exec", "commands"}
      /\ lua.options \in Seq(LineWord) /\ lua.words \in Seq(UserWord)
  BY DEF CallInv, LuaInv, LuaState, UserCall
<1>2. UserWord \subseteq LineWord
  BY DEF LineWord
<1>3. CASE call.via = "commands"
  BY <1>1, <1>3, DispatchedLine DEF Lines
<1>4. CASE call.via = "exec"
  <2>1. words = call.words
    BY <1>4 DEF Lines, LineOf
  <2> QED  BY <1>1, <1>2, <2>1, SeqDef
<1>5. CASE call.via = "main"
  <2> DEFINE all == WithoutVerbose(call.words)
  <2>1. all \in Seq(UserWord)
    BY <1>1, VerboseGone
  <2>2. \E i \in NameAt(all) : words = SubSeq(all, i + 1, Len(all))
    BY <1>5 DEF Lines, LineOf
  <2> HIDE DEF all
  <2> QED  BY <2>1, <2>2, UserLine
<1> QED  BY <1>1, <1>3, <1>4, <1>5

(* every line of the call is parsed *)
LEMMA EveryLine ==
  ASSUME CallInv, LuaInv, ParsedInv, phase \in {"parse", "end"}, command # {},
         outcome # "lua error", NEW words \in Lines
  PROVE  /\ IsRole(words, Roles(words)) /\ Stopped(words, Roles(words))
         /\ \E n : ParserInv(words, Roles(words), n)
<1>1. words \in Seq(LineWord)
  BY LinesTyped
<1>2. IsRole(words, Roles(words))
  BY <1>1, RolesAre, LenProperties
<1> QED  BY <1>2 DEF ParsedInv, LineParsed

LEMMA HandledAtTheEnd ==
  ASSUME CallInv, EndInv, Handled
  PROVE  /\ phase = "end" /\ command # {} /\ outcome # "lua error" /\ args = <<>>
         /\ ~help /\ ~Incomplete /\ (TheCommand.requires_root => call.root)
<1>1. phase = "end"
  BY DEF CallInv, Handled
<1>2. command # {}
  BY <1>1 DEF EndInv, Handled
<1> QED  BY <1>1, <1>2 DEF EndInv, Handled

(* Types, with what they say of the values: each key is an option of the command
   and has one value unless the option is repeatable, and a handler runs only with
   each of the required options set. For every table main can register and every call. *)
THEOREM LineTypes == Spec => []TypeOK
<1>1. LineInv => TypeOK
  <2> SUFFICES ASSUME LineInv PROVE TypeOK
    OBVIOUS
  <2>1. RegistryInv /\ CallInv /\ LuaInv /\ EndInv /\ ParsedInv
    BY DEF LineInv
  <2>2. RegistryTypeOK
    BY <2>1 DEF RegistryInv, KeysEntered, RegistryTypeOK
  <2>3. command \subseteq 1..stored /\ Cardinality(command) <= 1
    <3>1. CASE command = {}
      BY <3>1, FS_EmptySet
    <3>2. CASE \E c \in 1..stored : command = {c}
      <4>1. PICK c \in 1..stored : command = {c}
        BY <3>2
      <4>2. Cardinality(command) = 1
        BY <4>1, FS_Singleton, Zenon
      <4> QED  BY <4>1, <4>2
    <3> QED  BY <2>1, <3>1, <3>2 DEF CallInv
  <2>4. ASSUME NEW key \in DOMAIN values
        PROVE  \E o \in SpecOf(key) : values[key] # <<>> /\ (o.repeatable \/ Len(values[key]) = 1)
    <3>1. values # <<>>
      <4>1. DOMAIN <<>> = {}
        OBVIOUS
      <4> QED  BY <2>4, <4>1
    <3>2. phase \in {"parse", "end"} /\ command # {} /\ outcome # "lua error"
      BY <2>1, <3>1 DEF CallInv, Untouched, EndInv
    <3>3. PICK words \in Lines : TRUE
      BY <2>1, <3>2 DEF ParsedInv
    <3>4. PICK n : ParserInv(words, Roles(words), n)
      BY <2>1, <3>2, EveryLine
    <3>5. CommandOK
      BY <2>1, <3>2, CommandFound
    <3> QED  BY <3>4, <3>5, ValuesOnce
  <2>5. Handled => {o.long : o \in {x \in ToSet(TheCommand.options) : x.required}} \subseteq DOMAIN values
    BY <2>1, HandledAtTheEnd DEF Incomplete
  <2>6. (phase = "end") = (outcome # "")
    BY <2>1 DEF CallInv, Outcomes
  <2> QED  BY <2>1, <2>2, <2>3, <2>4, <2>5, <2>6 DEF TypeOK, CallInv
<1> QED  BY <1>1, LineAlways, PTL

(* What a command gets is what each word of the line is for, wherever it stands,
   and a line is refused only for an option the whole line shows to be bad. For
   every table, every command and lines of any length. *)
THEOREM WordsHaveOneRole == Spec => []ParsesByRoles
<1>1. LineInv => ParsesByRoles
  <2> SUFFICES ASSUME LineInv, phase = "end", command # {}, call.via # "commands",
                      NEW words \in LineOf,
                      NEW role, role = Roles(words)
               PROVE  LET options == With(role, "option")
                          bad == \E i \in options : BadOption(words, role, i)
                      IN /\ bad => outcome = "argument error"
                         /\ ~bad =>
                              /\ DOMAIN values = {o.long : o \in UNION {OptionOf(words[i]) : i \in options}}
                              /\ \A i \in options : \A o \in OptionOf(words[i]) :
                                   /\ Len(values[o.long]) = Cardinality(PlacesOf(words, role, o))
                                   /\ values[o.long][Cardinality({j \in PlacesOf(words, role, o) : j <= i})]
                                        = GivenValue(words, o, i)
                              /\ Len(positionals) = Cardinality(With(role, "word"))
                              /\ \A i \in With(role, "word") :
                                   positionals[Cardinality({j \in With(role, "word") : j <= i})] = words[i].text
                              /\ help = (With(role, "help") # {})
                              /\ force = (With(role, "force") # {})
    BY DEF ParsesByRoles
  <2> DEFINE options == With(role, "option")
             bad == \E i \in options : BadOption(words, role, i)
  <2>1. RegistryInv /\ CallInv /\ LuaInv /\ EndInv /\ ParsedInv
    BY DEF LineInv
  <2>2. outcome # "lua error" /\ words \in Lines /\ CommandOK
    BY <2>1, CommandFound DEF EndInv, Lines
  <2>3. IsRole(words, role) /\ Stopped(words, role) /\ \E n : ParserInv(words, role, n)
    BY <2>1, <2>2, EveryLine
  <2>4. PICK n : ParserInv(words, role, n)
    BY <2>3
  <2>5. CASE args # <<>>
    BY <2>3, <2>5 DEF Stopped
  <2>6. CASE args = <<>>
    <3>0. DOMAIN role = 1..Len(words)
      BY <2>3 DEF IsRole
    <3>1. /\ n = Len(words) /\ words \in Seq(LineWord) /\ n \in Nat
          /\ \A r : SoFar(role, r, n) = With(role, r)
          /\ \A o : Before(words, role, o, n) = PlacesOf(words, role, o)
          /\ help <=> \E j \in 1..Len(words) : role[j] = "help"
          /\ force <=> \E j \in 1..Len(words) : role[j] = "force"
      BY <2>2, <2>4, <2>6, AllTaken
    <3>2. ~bad
      BY <2>2, <2>4, <2>6, AllTaken
    <3>3. ValuesAre(values, words, role, n) /\ PositionalsAre(words, role, n)
      BY <2>4 DEF ParserInv
    <3>4. DOMAIN values = {o.long : o \in UNION {OptionOf(words[i]) : i \in options}}
      <4>1. ASSUME NEW key \in DOMAIN values PROVE \E o \in UNION {OptionOf(words[i]) : i \in options} : o.long = key
        BY <3>1, <3>3 DEF ValuesAre
      <4>2. ASSUME NEW o \in UNION {OptionOf(words[i]) : i \in options} PROVE o.long \in DOMAIN values
        BY <3>1, <3>3 DEF ValuesAre
      <4> QED  BY ZenonT(30), <4>1, <4>2
    <3>5. ASSUME NEW i \in options, NEW o \in OptionOf(words[i])
          PROVE  /\ Len(values[o.long]) = Cardinality(PlacesOf(words, role, o))
                 /\ values[o.long][Cardinality({j \in PlacesOf(words, role, o) : j <= i})]
                      = GivenValue(words, o, i)
      <4>1. i \in SoFar(role, "option", n) /\ Before(words, role, o, n) = PlacesOf(words, role, o)
        BY <3>1
      <4>2. {j \in PlacesOf(words, role, o) : j <= i} = Before(words, role, o, i)
        BY DEF Before
      <4> QED  BY <3>3, <4>1, <4>2 DEF ValuesAre
    <3>6. \A i \in With(role, "word") :
            positionals[Cardinality({j \in With(role, "word") : j <= i})] = words[i].text
      BY <3>1, <3>3 DEF PositionalsAre, Rank
    <3>7. Len(positionals) = Cardinality(With(role, "word"))
      BY <3>1, <3>3 DEF PositionalsAre
    <3>8. help = (With(role, "help") # {}) /\ force = (With(role, "force") # {})
      BY <2>1, <3>0, <3>1 DEF With, CallInv
    <3> QED  BY <3>2, <3>4, <3>5, <3>6, <3>7, <3>8
  <2> QED  BY <2>5, <2>6
<1> QED  BY <1>1, LineAlways, PTL

(* The safety gate: whatever the table of commands, the words of the line, and the
   order in which lua_next visits the table, the handler of a command that requires
   --force runs only for a call that says so itself, and one that needs root only
   as root. *)
THEOREM NothingForcedByChance == Spec => []ForcedOnPurpose
<1>1. LineInv => ForcedOnPurpose
  <2> SUFFICES ASSUME LineInv, Handled PROVE ForcedOnPurpose
    BY DEF ForcedOnPurpose
  <2>1. RegistryInv /\ CallInv /\ LuaInv /\ EndInv /\ ParsedInv
    BY DEF LineInv
  <2>2. /\ phase = "end" /\ command # {} /\ outcome # "lua error" /\ args = <<>>
        /\ ~help /\ ~Incomplete /\ (TheCommand.requires_root => call.root)
    BY <2>1, HandledAtTheEnd
  <2>3. CommandOK
    BY <2>1, <2>2, CommandFound
  <2>4. ASSUME NEW words \in Lines
        PROVE  /\ IsRole(words, Roles(words))
               /\ ~\E j \in 1..Len(words) : Roles(words)[j] = "help"
               /\ force <=> \E j \in 1..Len(words) : Roles(words)[j] = "force"
    <3>1. PICK role : role = Roles(words)
      OBVIOUS
    <3>2. IsRole(words, role) /\ \E n : ParserInv(words, role, n)
      BY <2>1, <2>2, <3>1, EveryLine
    <3>3. /\ help <=> \E j \in 1..Len(words) : role[j] = "help"
          /\ force <=> \E j \in 1..Len(words) : role[j] = "force"
      BY <2>2, <2>3, <3>2, AllTaken
    <3> QED  BY <2>2, <3>1, <3>2, <3>3
  <2>5. SUFFICES ASSUME TheCommand.safety = "RequiresForce"
                 PROVE  IF call.via = "commands" THEN \E e \in call.options : e.key = "force" /\ e.on
                        ELSE \A words \in LineOf : With(Roles(words), "force") # {}
    BY <2>2 DEF ForcedOnPurpose
  <2>6. force
    BY <2>2, <2>5 DEF Incomplete
  <2>7. CASE call.via = "commands"
    <3>1. DispatchLine \in Lines
      BY <2>7 DEF Lines
    <3>2. PICK role : role = Roles(DispatchLine)
      OBVIOUS
    <3>3. IsRole(DispatchLine, role) /\ ~\E j \in 1..Len(DispatchLine) : role[j] = "help"
      BY <2>4, <3>1, <3>2
    <3>4. /\ Grouped(lua.options) /\ lua.options \in Seq(LineWord) /\ lua.words \in Seq(UserWord)
          /\ call.words \in Seq(UserWord) /\ lua.force \in BOOLEAN /\ lua.help \in BOOLEAN
      BY <2>1, <2>2 DEF LuaInv, LuaState, Dispatched, CallInv, UserCall
    <3>5. ~lua.help
      <4>1. PICK V : Groups(lua.options, V)
        BY <3>4 DEF Grouped
      <4> QED  BY <3>3, <3>4, <4>1, WordsAfterGroups
    <3>6. lua.force
      BY <2>1, <2>2, <2>5, <2>7, <3>5 DEF LuaInv
    <3> QED  BY <2>1, <2>2, <2>7, <3>6 DEF LuaInv, Dispatched, Given
  <2>8. CASE call.via # "commands"
    <3>1. SUFFICES ASSUME NEW words \in LineOf PROVE With(Roles(words), "force") # {}
      BY <2>8
    <3>2. words \in Lines
      BY <2>8 DEF Lines
    <3> QED  BY <2>4, <2>6, <3>2 DEF With, IsRole
  <2> QED  BY <2>7, <2>8
<1> QED  BY <1>1, LineAlways, PTL

LEMMA AtMost == \A a, b \in Nat : \A j \in 1..(a - b) : j \in 1..a
OBVIOUS

(* What is given as help is asked for: the roles of the line name a word for it. *)
LEMMA HelpIsAskedFor ==
  ASSUME LineInv, phase = "end", command # {}, outcome # "lua error", help
  PROVE  AsksForHelp
<1>1. RegistryInv /\ CallInv /\ LuaInv /\ EndInv /\ ParsedInv /\ CommandOK
  BY CommandFound DEF LineInv
<1>2. PICK words \in Lines : TRUE
  BY <1>1 DEF ParsedInv
<1>3. PICK role : role = Roles(words)
  OBVIOUS
<1>4. IsRole(words, role) /\ \E n : ParserInv(words, role, n)
  BY <1>1, <1>3, EveryLine
<1>5. \E j \in 1..Len(words) : role[j] = "help"
  <2>1. PICK n : Follows(words, role) /\ n = Taken(words)
    BY <1>4 DEF ParserInv
  <2>2. Len(words) \in Nat /\ Len(args) \in Nat
    BY <2>1, LenProperties DEF Follows
  <2>3. \A j \in 1..Taken(words) : j \in 1..Len(words)
    <3>1. \A a, b \in Nat : \A j \in 1..(a - b) : j \in 1..a
      BY AtMost
    <3> QED  BY <2>2, <3>1, Zenon DEF Taken
  <2> QED  BY <2>1, <2>3 DEF Follows
<1>6. CASE call.via = "commands"
  <2>1. words = DispatchLine
    BY <1>6 DEF Lines
  <2>2. /\ Grouped(lua.options) /\ lua.options \in Seq(LineWord) /\ lua.words \in Seq(UserWord)
        /\ call.words \in Seq(UserWord) /\ lua.force \in BOOLEAN /\ lua.help \in BOOLEAN
    BY <1>1 DEF LuaInv, LuaState, Dispatched, CallInv, UserCall
  <2>3. lua.help \/ \E w \in ToSet(lua.words) \cup ToSet(call.words) : IsFlag(w, "help", "h")
    <3>1. PICK V : Groups(lua.options, V)
      BY <2>2 DEF Grouped
    <3> QED  BY ZenonT(30), <1>4, <1>5, <2>1, <2>2, <3>1, WordsAfterGroups
  <2>4. (\E w \in ToSet(call.words) : IsFlag(w, "help", "h")) => HelpWord(call.words)
    <3>1. /\ DOMAIN call.words = 1..Len(call.words)
          /\ \A w : w \in ToSet(call.words) => \E i \in 1..Len(call.words) : w = call.words[i]
      BY <2>2, RangeOf
    <3> QED  BY <3>1 DEF HelpWord
  <2>5. Given("help") \/ HelpEntry \/ HelpWord(call.words)
    BY <1>1, <2>3, <2>4 DEF LuaInv, Dispatched
  <2> QED  BY <1>6, <2>5 DEF AsksForHelp, Given, HelpEntry
<1>7. CASE call.via # "commands"
  <2>1. words \in LineOf
    BY <1>7 DEF Lines
  <2>2. With(Roles(words), "help") # {}
    BY <1>3, <1>4, <1>5 DEF With, IsRole
  <2> QED  BY <1>7, <2>1, <2>2 DEF AsksForHelp
<1> QED  BY <1>6, <1>7

(* A command whose handler has not done its work never ends as if it had, unless the
   call asks for its help text: main and exec give a status other than 0, and
   commands.<name> raises unless the call allows failures. *)
THEOREM NoFailureIsSilent == Spec => []FailuresAreTold
<1>1. LineInv => FailuresAreTold
  <2> SUFFICES ASSUME LineInv, phase = "end", outcome # "done", ~AsksForHelp
               PROVE  /\ outcome = "lua error" \/ Status # 0
                      /\ call.via = "commands" /\ ~AllowsFailure => Raises
    BY DEF FailuresAreTold
  <2>1. CallInv /\ LuaInv /\ EndInv
    BY DEF LineInv
  <2>2. CASE command = {}
    <3>1. call.via # "commands" /\ outcome \in {"no command", "unknown"}
      BY <2>1, <2>2 DEF EndInv, AsksForHelp
    <3>2. Status # 0
      <4>1. CASE outcome = "no command"
        <5>1. Status = 1
          BY <4>1, Zenon DEF Status
        <5> QED  BY <5>1
      <4>2. CASE outcome = "unknown"
        BY <4>2 DEF Status
      <4> QED  BY <3>1, <4>1, <4>2
    <3> QED  BY <3>1, <3>2
  <2>3. CASE command # {}
    <3>1. outcome \in {"argument error", "root", "failed", "lua error"}
      BY <2>1, <2>3, HelpIsAskedFor DEF EndInv
    <3>2. outcome = "lua error" \/ Status # 0
      <4>1. CASE outcome = "argument error"
        <5>1. call.via = "main" => Status = 3
          BY <4>1, Zenon DEF Status
        <5>2. call.via # "main" => Status = 2
          BY <4>1, Zenon DEF Status
        <5>3. Status \in {2, 3}
          BY <5>1, <5>2, Zenon
        <5>4. 0 \notin {2, 3}
          OBVIOUS
        <5> QED  BY <5>3, <5>4, Zenon
      <4>2. CASE outcome = "root"
        BY <4>2 DEF Status
      <4>3. CASE outcome = "failed"
        BY <4>3 DEF Status
      <4> QED  BY <3>1, <4>1, <4>2, <4>3
    <3>3. lua.allow_failure => AllowsFailure
      BY <2>1 DEF LuaInv, Dispatched
    <3> QED  BY <3>2, <3>3 DEF Raises
  <2> QED  BY <2>2, <2>3
<1> QED  BY <1>1, LineAlways, PTL

-----------------------------------------------------------------------------
(* A Lua call comes through: the words each entry has added stand together on the
   line, and only there is a word for its key an option. *)

LEMMA EntryWordsAre ==
  ASSUME CommandOK, NEW e \in TableEntry, ~EntryRefused(e), e.key \notin Reserved
  PROVE  /\ EntryWords(e) \in Seq(LineWord)
         /\ \A k \in 1..Len(EntryWords(e)) : k % 2 = 1 => EntryWords(e)[k] = Long(e.key)
         /\ (\E o \in SpecOf(e.key) : ~o.requires_value) =>
              EntryWords(e) = IF e.on THEN <<Long(e.key)>> ELSE <<>>
         /\ (\A o \in SpecOf(e.key) : o.requires_value) =>
              /\ EntryText(e) \in Seq(LineWord) /\ Len(EntryText(e)) > 0
              /\ Len(EntryWords(e)) = 2 * Len(EntryText(e))
              /\ \A k \in 1..Len(EntryText(e)) : EntryWords(e)[2 * k] = EntryText(e)[k]
<1>1. e.key \notin {"args", "positionals", "meta", "allow-failure", "force", "help"}
  BY DEF Reserved
<1>2. /\ EntryWords(e) \in Seq(LineWord) /\ SpecOf(e.key) # {}
      /\ \/ EntryWords(e) = <<>>
         \/ EntryWords(e) = <<Long(e.key)>> /\ \A o \in SpecOf(e.key) : ~o.requires_value
         \/ /\ \A o \in SpecOf(e.key) : o.requires_value
            /\ \E k \in Nat : /\ Len(EntryWords(e)) = 2 * k
                              /\ \A i \in 1..(2 * k) : i % 2 = 1 => EntryWords(e)[i] = Long(e.key)
  BY <1>1, EntryAdds
<1>3. \A k \in 1..Len(EntryWords(e)) : k % 2 = 1 => EntryWords(e)[k] = Long(e.key)
  <2> DEFINE t == EntryWords(e)
  <2>1. CASE t = <<>>
    BY <2>1
  <2>2. CASE t = <<Long(e.key)>>
    BY <2>2
  <2>3. CASE \E k \in Nat : Len(t) = 2 * k /\ \A i \in 1..(2 * k) : i % 2 = 1 => t[i] = Long(e.key)
    BY <2>3
  <2> QED  BY <1>2, <2>1, <2>2, <2>3
<1>4. (\E o \in SpecOf(e.key) : ~o.requires_value) =>
        EntryWords(e) = IF e.on THEN <<Long(e.key)>> ELSE <<>>
  BY DEF EntryWords, Holds
<1>5. ASSUME \A o \in SpecOf(e.key) : o.requires_value
      PROVE  /\ EntryText(e) \in Seq(LineWord) /\ Len(EntryText(e)) > 0
             /\ Len(EntryWords(e)) = 2 * Len(EntryText(e))
             /\ \A k \in 1..Len(EntryText(e)) : EntryWords(e)[2 * k] = EntryText(e)[k]
  <2> DEFINE text == EntryText(e)
             n == Len(text)
  <2>1. /\ e.type \in {"boolean", "text", "list", "function"} /\ e.words \in Seq(UserWord)
        /\ e.type = "text" => Len(e.words) = 1
    BY DEF TableEntry
  <2>2. e.type # "function" /\ (e.type = "list" => Len(e.words) # 0)
    <3>1. PICK o \in SpecOf(e.key) : ~(CASE ~o.requires_value -> e.type # "boolean"
           [] o.requires_value /\ e.type = "list" ->
                Len(e.words) = 0 \/ (~o.repeatable /\ Len(e.words) > 1)
           [] OTHER -> e.type = "function")
      BY <1>1, <1>2 DEF EntryRefused
    <3>2. o.requires_value
      BY <1>5
    <3>3. e.type = "list" => ~(Len(e.words) = 0 \/ (~o.repeatable /\ Len(e.words) > 1))
      BY <3>1, <3>2
    <3>4. e.type # "list" => e.type # "function"
      BY <3>1, <3>2
    <3> QED  BY <3>3, <3>4
  <2>3. text \in Seq(LineWord) /\ n > 0
    <3>1. CASE e.type = "boolean"
      <4>1. Word(IF e.on THEN "true" ELSE "false") \in LineWord
        BY DEF LineWord
      <4> QED  BY <3>1, <4>1 DEF EntryText
    <3>2. CASE e.type # "boolean"
      <4>1. UserWord \subseteq LineWord
        BY DEF LineWord
      <4>2. text = e.words
        BY <3>2 DEF EntryText
      <4>3. text \in Seq(LineWord)
        BY <2>1, <4>1, <4>2, SeqDef
      <4>4. Len(e.words) \in Nat /\ Len(e.words) # 0
        <5>1. Len(e.words) \in Nat
          BY <2>1, LenProperties
        <5>2. e.type = "text" \/ e.type = "list"
          BY <2>1, <2>2, <3>2
        <5>3. CASE e.type = "text"
          <6>1. Len(e.words) = 1
            BY <2>1, <5>3
          <6> QED  BY <6>1
        <5>4. CASE e.type = "list"
          <6>1. Len(e.words) # 0
            BY <2>2, <5>4
          <6> QED  BY <5>1, <6>1
        <5> QED  BY <5>2, <5>3, <5>4
      <4> QED  BY <4>2, <4>3, <4>4
    <3> QED  BY <3>1, <3>2
  <2>4. n \in Nat
    BY <2>3, LenProperties
  <2>5. EntryWords(e) = [i \in 1..(2 * n) |-> IF i % 2 = 1 THEN Long(e.key) ELSE text[i \div 2]]
    BY <1>5, Zenon DEF EntryWords
  <2> HIDE DEF text, n
  <2>6. ASSUME NEW k \in 1..n PROVE EntryWords(e)[2 * k] = text[k]
    <3>1. 2 * k \in 1..(2 * n) /\ (2 * k) % 2 # 1 /\ (2 * k) \div 2 = k
      BY <2>4
    <3> QED  BY <2>5, <3>1
  <2>7. Len(EntryWords(e)) = 2 * n
    <3>1. 2 * n \in Nat /\ DOMAIN EntryWords(e) = 1..(2 * n)
      BY <2>4, <2>5
    <3> QED  BY <1>2, <3>1, LenProperties
  <2> QED  BY <2>3, <2>6, <2>7 DEF text, n
<1> QED  BY <1>2, <1>3, <1>4, <1>5

Block(s, V, e, p) ==
  LET t == EntryWords(e)
  IN /\ p + Len(t) <= Len(s)
     /\ \A k \in 1..Len(t) : s[p + k] = t[k]
     /\ \A i \in 1..Len(s) :
          i \notin V /\ s[i] = Long(e.key) <=> \E k \in 1..Len(t) : k % 2 = 1 /\ i = p + k

Blocks(s, V, E) ==
  /\ Groups(s, V)
  /\ \A i \in 1..Len(s) : i \notin V => \E e \in E : s[i] = Long(e.key)
  /\ \A e \in E : ~EntryRefused(e) /\ \E p \in Nat : Block(s, V, e, p)

LEMMA LongNames == \A key, other : Long(key) = Long(other) => key = other
BY DEF Long

(* a block stays where it is when others follow it *)
LEMMA BlockStays ==
  ASSUME NEW s, Len(s) \in Nat, NEW u, Len(u) \in Nat, Len(s) <= Len(u),
         \A i \in 1..Len(s) : u[i] = s[i],
         NEW V, NEW W, \A i \in 1..Len(s) : i \in W <=> i \in V,
         NEW e, Len(EntryWords(e)) \in Nat,
         \A i \in (Len(s) + 1)..Len(u) : i \notin W => u[i] # Long(e.key),
         NEW p \in Nat, Block(s, V, e, p)
  PROVE  Block(u, W, e, p)
<1> DEFINE t == EntryWords(e)
           Here(i) == \E k \in 1..Len(t) : k % 2 = 1 /\ i = p + k
<1>1. /\ p + Len(t) <= Len(s)
      /\ \A k \in 1..Len(t) : s[p + k] = t[k]
      /\ \A i \in 1..Len(s) : i \notin V /\ s[i] = Long(e.key) <=> Here(i)
  BY DEF Block
<1>2. \A k \in 1..Len(t) : p + k \in 1..Len(s)
  BY <1>1
<1>3. \A k \in 1..Len(t) : u[p + k] = t[k]
  BY <1>1, <1>2
<1>4. p + Len(t) <= Len(u)
  BY <1>1
<1>5. ASSUME NEW i \in 1..Len(u) PROVE i \notin W /\ u[i] = Long(e.key) <=> Here(i)
  <2>1. CASE i \in 1..Len(s)
    <3>1. u[i] = s[i] /\ (i \in W <=> i \in V) /\ (i \notin V /\ s[i] = Long(e.key) <=> Here(i))
      BY <1>1, <2>1
    <3> QED  BY <3>1
  <2>2. CASE i \notin 1..Len(s)
    <3>1. ~Here(i)
      BY <1>2, <2>2
    <3>2. i \in (Len(s) + 1)..Len(u)
      BY <2>2
    <3> QED  BY <3>1, <3>2
  <2> QED  BY <2>1, <2>2
<1> QED  BY <1>3, <1>4, <1>5 DEF Block

LEMMA NoBlocks == Groups(<<>>, {}) /\ Blocks(<<>>, {}, {})
BY DEF Blocks, Groups

LEMMA BlocksAdded ==
  ASSUME CommandOK, NEW s \in Seq(LineWord), NEW V \in SUBSET (1..Len(s)),
         NEW E \in SUBSET TableEntry, Blocks(s, V, E), \A f \in E : f.key \notin Reserved,
         NEW e \in TableEntry, ~EntryRefused(e), e.key \notin Reserved, \A f \in E : f.key # e.key
  PROVE  \E W \in SUBSET (1..Len(s \o EntryWords(e))) : Blocks(s \o EntryWords(e), W, E \cup {e})
<1> DEFINE t == EntryWords(e)
           a == Len(s)
           key == e.key
<1>1. /\ t \in Seq(LineWord) /\ \A k \in 1..Len(t) : k % 2 = 1 => t[k] = Long(key)
      /\ (\E o \in SpecOf(key) : ~o.requires_value) => t = <<Long(key)>> \/ t = <<>>
  BY EntryWordsAre
<1>2. /\ SpecOf(key) # {} /\ key \notin {"help", "force"}
      /\ \/ t = <<>>
         \/ t = <<Long(key)>> /\ \A o \in SpecOf(key) : ~o.requires_value
         \/ /\ \A o \in SpecOf(key) : o.requires_value
            /\ \E k \in Nat : /\ Len(t) = 2 * k
                              /\ \A i \in 1..(2 * k) : i % 2 = 1 => t[i] = Long(key)
  <2>1. key \notin {"args", "positionals", "meta", "allow-failure", "force", "help"}
    BY DEF Reserved
  <2> QED  BY <2>1, EntryAdds
<1>3. Groups(s, V)
  BY DEF Blocks
<1> HIDE DEF t, key
<1>4. PICK W \in SUBSET (1..Len(s \o t)) :
           /\ Groups(s \o t, W)
           /\ \A i \in 1..Len(s) : i \in W <=> i \in V
           /\ \A i \in 1..Len(t) : Len(s) + i \in W <=> i % 2 = 0
  BY <1>1, <1>2, <1>3, GroupAdded
<1> DEFINE u == s \o t
<1>5. /\ a \in Nat /\ Len(t) \in Nat /\ Len(u) = a + Len(t)
      /\ \A i \in 1..(a + Len(t)) : u[i] = IF i <= a THEN s[i] ELSE t[i - a]
  BY <1>1, ConcatProperties, LenProperties
<1>6. /\ Groups(u, W) /\ \A i \in 1..a : i \in W <=> i \in V
      /\ \A i \in 1..Len(t) : a + i \in W <=> i % 2 = 0
  BY <1>4
<1>7. /\ \A i \in 1..a : i \notin V => \E f \in E : s[i] = Long(f.key)
      /\ \A f \in E : ~EntryRefused(f) /\ \E p \in Nat : Block(s, V, f, p)
  BY DEF Blocks
<1> HIDE DEF u, a
<1>8. /\ \A i \in 1..a : u[i] = s[i] /\ i \in 1..Len(u)
      /\ \A k \in 1..Len(t) : u[a + k] = t[k] /\ a + k \in 1..Len(u) /\ a + k \notin 1..a
      /\ \A i \in 1..Len(u) : i \in 1..a \/ \E k \in 1..Len(t) : i = a + k
      /\ \A i \in (a + 1)..Len(u) : \E k \in 1..Len(t) : i = a + k
  <2>1. ASSUME NEW k \in 1..Len(t)
        PROVE  a + k \in 1..(a + Len(t)) /\ ~(a + k <= a) /\ (a + k) - a = k /\ a + k \notin 1..a
    BY <1>5
  <2>2. ASSUME NEW i \in 1..a PROVE i \in 1..(a + Len(t)) /\ i <= a
    BY <1>5
  <2>3. ASSUME NEW i \in 1..Len(u), i \notin 1..a PROVE \E k \in 1..Len(t) : i = a + k
    <3>1. i - a \in 1..Len(t) /\ i = a + (i - a)
      BY <1>5, <2>3
    <3> QED  BY <3>1
  <2>4. ASSUME NEW i \in (a + 1)..Len(u) PROVE i \in 1..Len(u) /\ i \notin 1..a
    BY <1>5
  <2> QED  BY <1>5, <2>1, <2>2, <2>3, <2>4
<1>9. \A k \in 1..Len(t) : k % 2 = 0 \/ k % 2 = 1
  BY <1>5
<1>10. \A i \in 1..Len(u) : i \notin W => \E f \in E \cup {e} : u[i] = Long(f.key)
  <2>1. ASSUME NEW i \in 1..a, i \notin W PROVE \E f \in E \cup {e} : u[i] = Long(f.key)
    BY <1>6, <1>7, <1>8, <2>1
  <2>2. ASSUME NEW k \in 1..Len(t), a + k \notin W PROVE u[a + k] = Long(e.key)
    BY <1>1, <1>6, <1>8, <1>9, <2>2 DEF key
  <2> QED  BY <1>8, <2>1, <2>2
<1>11. ASSUME NEW f \in E PROVE ~EntryRefused(f) /\ \E p \in Nat : Block(u, W, f, p)
  <2>1. PICK p \in Nat : Block(s, V, f, p)
    BY <1>7
  <2>2. Len(EntryWords(f)) \in Nat
    <3>1. EntryWords(f) \in Seq(LineWord)
      BY <1>7, EntryWordsAre
    <3> QED  BY <3>1, LenProperties
  <2>3. ASSUME NEW i \in (a + 1)..Len(u), i \notin W PROVE u[i] # Long(f.key)
    <3>1. PICK k \in 1..Len(t) : i = a + k
      BY <1>8
    <3>2. u[i] = Long(e.key)
      BY <1>1, <1>6, <1>8, <1>9, <2>3, <3>1 DEF key
    <3> QED  BY <3>2, LongNames
  <2>4. Len(s) \in Nat /\ Len(u) \in Nat /\ Len(s) <= Len(u)
    BY <1>5 DEF a
  <2>5. \A i \in 1..Len(s) : u[i] = s[i] /\ (i \in W <=> i \in V)
    BY <1>6, <1>8 DEF a
  <2>6. \A i \in (Len(s) + 1)..Len(u) : i \notin W => u[i] # Long(f.key)
    BY <2>3 DEF a
  <2>7. Block(u, W, f, p)
    BY <2>1, <2>2, <2>4, <2>5, <2>6, BlockStays
  <2> QED  BY <1>7, <2>7
<1>12. Block(u, W, e, a)
  <2>1. a + Len(t) <= Len(u)
    BY <1>5
  <2>2. ASSUME NEW i \in 1..Len(u)
        PROVE  i \notin W /\ u[i] = Long(e.key) <=> \E k \in 1..Len(t) : k % 2 = 1 /\ i = a + k
    <3>1. CASE i \in 1..a
      <4>1. ~\E k \in 1..Len(t) : i = a + k
        BY <1>8, <3>1
      <4>2. ~(i \notin W /\ u[i] = Long(e.key))
        BY <1>6, <1>7, <1>8, <3>1, LongNames
      <4> QED  BY <4>1, <4>2
    <3>2. ASSUME NEW k \in 1..Len(t), i = a + k
          PROVE  i \notin W /\ u[i] = Long(e.key) <=> \E j \in 1..Len(t) : j % 2 = 1 /\ i = a + j
      <4>1. \A j \in 1..Len(t) : a + j = a + k <=> j = k
        BY <1>5
      <4>2. i \notin W <=> k % 2 = 1
        BY <1>6, <1>9, <3>2
      <4>3. k % 2 = 1 => u[i] = Long(e.key)
        BY <1>1, <1>8, <3>2 DEF key
      <4> QED  BY <3>2, <4>1, <4>2, <4>3
    <3> QED  BY <1>8, <3>1, <3>2
  <2> QED  BY <1>8, <2>1, <2>2 DEF Block, t
<1>13. ~EntryRefused(e) /\ a \in Nat
  BY <1>5
<1>14. \A f \in E \cup {e} : ~EntryRefused(f) /\ \E p \in Nat : Block(u, W, f, p)
  BY <1>11, <1>12, <1>13
<1>15. Blocks(u, W, E \cup {e})
  BY <1>6, <1>10, <1>14, Zenon DEF Blocks
<1> QED  BY <1>15 DEF u, t

Named == {e \in call.options : e.key \notin Reserved}
OneSpelling == \A e, f \in call.options : e.key = f.key => e = f

(* what the entries visited so far have put on the line *)
TableInv ==
  phase \in {"table", "parse", "end"} /\ call.via = "commands" =>
    /\ ToSet(lua.words) = UNION {ToSet(e.words) : e \in Listed \ lua.todo}
    /\ OneSpelling =>
         \A s, E : s = lua.options /\ E = Named \ lua.todo =>
           \E V \in SUBSET (1..Len(s)) : Blocks(s, V, E)
    /\ phase # "table" /\ outcome # "lua error" => lua.todo = {}

LEMMA SameBlocks ==
  ASSUME TheCommand' = TheCommand, NEW s, NEW V, NEW E
  PROVE  Blocks(s, V, E)' <=> Blocks(s, V, E)
<1>1. \A w : AsksForValue(w)' <=> AsksForValue(w)
  BY SameMeaning
<1>2. \A e : SpecOf(e.key)' = SpecOf(e.key)
  BY SameMeaning
<1>3. \A e : EntryWords(e)' = EntryWords(e)
  BY <1>2 DEF EntryWords
<1>4. \A e : EntryRefused(e)' <=> EntryRefused(e)
  BY <1>2 DEF EntryRefused
<1>5. Groups(s, V)' <=> Groups(s, V)
  BY <1>1 DEF Groups
<1>6. \A e, p : Block(s, V, e, p)' <=> Block(s, V, e, p)
  BY <1>3 DEF Block
<1> QED  BY <1>4, <1>5, <1>6 DEF Blocks

(* one entry visited *)
LEMMA EntryPlaced ==
  ASSUME RegistryInv, CallInv, LuaInv, TableInv, UNCHANGED registry, DispatchEntry, UNCHANGED outcome
  PROVE  TableInv'
<1>1. /\ phase = "table" /\ command # {} /\ call \in UserCall /\ outcome = "" /\ call.via = "commands"
      /\ UNCHANGED <<call, command>> /\ TheCommand' = TheCommand
  BY CommandStays DEF DispatchEntry, CallInv, registry
<1>2. PICK e \in lua.todo :
        /\ ~EntryRefused(e)
        /\ lua' = LET rest == [lua EXCEPT !.todo = @ \ {e}]
                  IN CASE e.key \in {"args", "positionals"} -> [rest EXCEPT !.words = @ \o e.words]
                       [] e.key \in {"meta", "allow-failure"} -> [rest EXCEPT !.allow_failure = Holds(e)]
                       [] e.key = "force" -> [rest EXCEPT !.force = Holds(e)]
                       [] e.key = "help" -> [rest EXCEPT !.help = Holds(e)]
                       [] OTHER -> [rest EXCEPT !.options = @ \o EntryWords(e)]
        /\ UNCHANGED phase
  BY <1>1 DEF DispatchEntry, End
<1>3. lua \in LuaState /\ lua.todo \subseteq call.options /\ CommandOK
  BY <1>1, CommandFound DEF LuaInv, Dispatched
<1>4. e \in TableEntry /\ e \in call.options /\ call.options \in SUBSET TableEntry
  BY <1>1, <1>3 DEF LuaState, UserCall
<1>5. e.words \in Seq(UserWord) /\ lua.options \in Seq(LineWord) /\ lua.words \in Seq(UserWord)
  BY <1>3, <1>4 DEF TableEntry, LuaState
<1>6. /\ ToSet(lua.words) = UNION {ToSet(f.words) : f \in Listed \ lua.todo}
      /\ OneSpelling =>
           \A s, E : s = lua.options /\ E = Named \ lua.todo =>
             \E V \in SUBSET (1..Len(s)) : Blocks(s, V, E)
  BY <1>1 DEF TableInv
<1> DEFINE rest == [lua EXCEPT !.todo = @ \ {e}]
<1>7. rest.todo = lua.todo \ {e} /\ rest.options = lua.options /\ rest.words = lua.words /\ rest \in LuaState
  BY <1>3 DEF LuaState
<1> HIDE DEF rest
<1>8. /\ lua'.todo = lua.todo \ {e}
      /\ lua'.words = IF e.key \in {"args", "positionals"} THEN lua.words \o e.words ELSE lua.words
      /\ lua'.options = IF e.key \in Reserved THEN lua.options ELSE lua.options \o EntryWords(e)
  <2>1. CASE e.key \in {"args", "positionals"}
    BY <1>2, <1>7, <2>1 DEF rest, LuaState, Reserved
  <2>2. CASE e.key \in {"meta", "allow-failure"}
    BY <1>2, <1>7, <2>2 DEF rest, LuaState, Reserved
  <2>3. CASE e.key = "force"
    BY <1>2, <1>7, <2>3 DEF rest, LuaState, Reserved
  <2>4. CASE e.key = "help"
    BY <1>2, <1>7, <2>4 DEF rest, LuaState, Reserved
  <2>5. CASE e.key \notin Reserved
    BY <1>2, <1>7, <2>5 DEF rest, LuaState, Reserved
  <2> QED  BY <2>1, <2>2, <2>3, <2>4, <2>5 DEF Reserved
<1>9. Listed' = Listed /\ Named' = Named /\ (OneSpelling' <=> OneSpelling)
  BY <1>1 DEF Listed, Named, OneSpelling
<1>10. ToSet(lua'.words) = UNION {ToSet(f.words) : f \in Listed \ lua'.todo}
  <2>1. CASE e.key \in {"args", "positionals"}
    <3>1. ToSet(lua'.words) = ToSet(lua.words) \cup ToSet(e.words)
      BY <1>5, <1>8, <2>1, RangeOfConcat
    <3>2. Listed \ lua'.todo = (Listed \ lua.todo) \cup {e}
      BY <1>4, <1>8, <2>1 DEF Listed
    <3> QED  BY <1>6, <3>1, <3>2
  <2>2. CASE e.key \notin {"args", "positionals"}
    <3>1. Listed \ lua'.todo = Listed \ lua.todo
      BY <1>8, <2>2 DEF Listed
    <3> QED  BY <1>6, <1>8, <2>2, <3>1
  <2> QED  BY <2>1, <2>2
<1>11. ASSUME OneSpelling, NEW t, NEW F, t = lua'.options, F = Named' \ lua'.todo
       PROVE  \E W \in SUBSET (1..Len(t)) : Blocks(t, W, F)'
  <2>1. PICK s, E : s = lua.options /\ E = Named \ lua.todo
    OBVIOUS
  <2>2. PICK V \in SUBSET (1..Len(s)) : Blocks(s, V, E)
    BY <1>6, <1>11, <2>1
  <2>3. E \in SUBSET TableEntry /\ \A f \in E : f.key \notin Reserved
    BY <1>4, <2>1 DEF Named
  <2>4. t = lua'.options /\ F = Named \ lua'.todo
    BY <1>9, <1>11
  <2>5. SUFFICES \E W \in SUBSET (1..Len(t)) : Blocks(t, W, F)
    BY <1>1, SameBlocks
  <2>6. CASE e.key \in Reserved
    <3>1. t = s /\ F = E
      BY <1>8, <2>1, <2>4, <2>6 DEF Named
    <3> QED  BY <2>2, <3>1
  <2>7. CASE e.key \notin Reserved
    <3>1. t = s \o EntryWords(e) /\ F = E \cup {e}
      BY <1>4, <1>8, <2>1, <2>4, <2>7 DEF Named
    <3>2. \A f \in E : f.key # e.key
      <4>1. \A f \in E : f \in call.options /\ f # e
        BY <2>1 DEF Named
      <4> QED  BY <1>4, <1>11, <4>1 DEF OneSpelling
    <3>3. s \in Seq(LineWord)
      BY <1>5, <2>1
    <3>4. \E W \in SUBSET (1..Len(s \o EntryWords(e))) : Blocks(s \o EntryWords(e), W, E \cup {e})
      BY <1>2, <1>3, <1>4, <2>2, <2>3, <2>7, <3>2, <3>3, BlocksAdded
    <3> QED  BY <3>1, <3>4
  <2> QED  BY <2>6, <2>7
<1> QED  BY <1>1, <1>2, <1>9, <1>10, <1>11 DEF TableInv

(* the table of a call does not change once it has been visited *)
LEMMA TableStays ==
  ASSUME TableInv, phase \in {"table", "parse", "end"}, UNCHANGED <<call, lua, command, table>>,
         phase' # "table" /\ outcome' # "lua error" => lua.todo = {}
  PROVE  TableInv'
<1>1. TheCommand' = TheCommand
  BY CommandStays
<1>2. UNCHANGED <<call, lua>>
  OBVIOUS
<1>3. Listed' = Listed /\ Named' = Named /\ (OneSpelling' <=> OneSpelling)
  BY <1>2 DEF Listed, Named, OneSpelling
<1>4. ASSUME call.via = "commands"
      PROVE  /\ ToSet(lua.words) = UNION {ToSet(e.words) : e \in Listed \ lua.todo}
             /\ OneSpelling =>
                  \A s, E : s = lua.options /\ E = Named \ lua.todo =>
                    \E V \in SUBSET (1..Len(s)) : Blocks(s, V, E)
  BY <1>4 DEF TableInv
<1>5. ASSUME call.via = "commands", OneSpelling, NEW s, NEW E, s = lua'.options, E = Named' \ lua'.todo
      PROVE  \E V \in SUBSET (1..Len(s)) : Blocks(s, V, E)'
  <2>1. s = lua.options /\ E = Named \ lua.todo
    BY <1>2, <1>3, <1>5
  <2>2. PICK V \in SUBSET (1..Len(s)) : Blocks(s, V, E)
    BY <1>4, <1>5, <2>1
  <2>3. Blocks(s, V, E)'
    BY <1>1, <2>2, SameBlocks
  <2> QED  BY <2>3
<1>6. call.via = "commands" => ToSet(lua'.words) = UNION {ToSet(e.words) : e \in Listed' \ lua'.todo}
  BY <1>2, <1>3, <1>4
<1> QED  BY <1>2, <1>3, <1>5, <1>6 DEF TableInv

LEMMA TableSteps ==
  ASSUME RegistryInv, CallInv, LuaInv, TableInv, [Next]_vars
  PROVE  TableInv'
<1>1. CASE UNCHANGED <<registry, line>>
  <2>1. UNCHANGED <<call, lua, command, table, phase, outcome>>
    BY <1>1 DEF registry, line
  <2>2. CASE phase' \notin {"table", "parse", "end"} \/ call'.via # "commands"
    BY <2>2 DEF TableInv
  <2>3. CASE phase' \in {"table", "parse", "end"} /\ call'.via = "commands"
    BY <2>1, <2>3, TableStays DEF TableInv
  <2> QED  BY <2>2, <2>3
<1>2. CASE Register /\ UNCHANGED line /\ phase = "register"
  BY <1>2 DEF line, TableInv
<1>3. CASE CallStep /\ UNCHANGED registry
  <2>1. UNCHANGED table
    BY <1>3 DEF registry
  <2>2. CASE Accept
    BY <2>2 DEF Accept, TableInv
  <2>3. CASE MainStarts \/ ExecStarts
    BY <2>3 DEF MainStarts, ExecStarts, TableInv
  <2>4. CASE DispatchStarts
    <3>1. phase = "start" /\ UNCHANGED call /\ command = {} /\ phase' = "table"
          /\ lua' = [lua EXCEPT !.todo = call.options] /\ lua \in LuaState
      BY <2>4 DEF DispatchStarts, CallInv, LuaInv
    <3>2. lua'.todo = call.options /\ lua'.options = <<>> /\ lua'.words = <<>>
      BY <3>1 DEF LuaInv, LuaState, Dispatched
    <3>3. ToSet(lua'.words) = {} /\ Listed' \ lua'.todo = {} /\ Named' \ lua'.todo = {}
      <4>1. ToSet(<<>>) = {}
        BY DEF ToSet
      <4> QED  BY <3>1, <3>2, <4>1 DEF Listed, Named
    <3>4. Blocks(<<>>, {}, {})'
      BY NoBlocks, PTL
    <3>5. ASSUME NEW s, NEW E, s = lua'.options, E = Named' \ lua'.todo
          PROVE  \E V \in SUBSET (1..Len(s)) : Blocks(s, V, E)'
      <4>1. s = <<>> /\ E = {}
        BY <3>2, <3>3, <3>5
      <4> QED  BY <3>4, <4>1
    <3> QED  BY <3>1, <3>3, <3>5 DEF TableInv
  <2>5. CASE ParseFlag \/ ParseOption \/ ParseOptionThrows \/ ParsePositional \/ Invoke
    <3>1. phase = "parse" /\ UNCHANGED <<call, lua, command>> /\ outcome = ""
      BY <2>5 DEF ParseFlag, ParseOption, ParseOptionThrows, ParsePositional, Invoke, Parsing, CallInv, End, parser
    <3>2. CASE call.via # "commands"
      BY <3>1, <3>2 DEF TableInv
    <3>3. CASE call.via = "commands"
      <4>1. lua.todo = {}
        BY <3>1, <3>3 DEF TableInv
      <4> QED  BY <2>1, <3>1, <4>1, TableStays
    <3> QED  BY <3>2, <3>3
  <2>6. CASE DispatchEntry
    <3>1. phase = "table" /\ UNCHANGED <<call, command>> /\ outcome = ""
      BY <2>6 DEF DispatchEntry, CallInv
    <3>2. CASE UNCHANGED <<phase, outcome>>
      BY <1>3, <2>6, <3>2, EntryPlaced
    <3>3. CASE End("lua error") /\ UNCHANGED lua
      BY <2>1, <3>1, <3>3, TableStays DEF End
    <3> QED  BY <2>6, <3>2, <3>3 DEF DispatchEntry
  <2>7. CASE DispatchInvokes
    <3>1. phase = "table" /\ UNCHANGED <<call, lua, command>> /\ lua.todo = {}
      BY <2>7 DEF DispatchInvokes
    <3> QED  BY <2>1, <3>1, TableStays
  <2> QED  BY <1>3, <2>2, <2>3, <2>4, <2>5, <2>6, <2>7 DEF CallStep
<1> QED  BY <1>1, <1>2, <1>3, NextSplits

LEMMA TableAlways == Spec => [](LineInv /\ TableInv)
<1>1. Init => TableInv
  BY DEF Init, TableInv
<1>2. LineInv /\ TableInv /\ [Next]_vars => TableInv'
  BY TableSteps DEF LineInv
<1> QED  BY <1>1, <1>2, LineAlways, PTL DEF Spec

LEMMA PlacedAfter ==
  \A x, y \in Nat : \A k \in 1..y : x + k \in 1..(x + y) /\ ~(x + k <= x) /\ (x + k) - x = k
OBVIOUS

LEMMA Regrouped ==
  ASSUME NEW S, NEW r \in Seq(S), NEW t \in Seq(S), NEW u \in Seq(S), NEW w, w = t \o u
  PROVE  (r \o t) \o u = r \o w
<1>1. (r \o t) \o u = r \o (t \o u)
  BY ConcatAssociative
<1> QED  BY <1>1

(* the arguments of the call come last on its line *)
LEMMA ArgumentsOnLine ==
  ASSUME lua.options \in Seq(LineWord), lua.words \in Seq(UserWord), call.words \in Seq(UserWord), ~lua.help,
         NEW rest, rest = lua.words \o call.words, NEW b, b = Len(lua.options) + One(lua.force)
  PROVE  /\ rest \in Seq(UserWord) /\ b \in Nat /\ Len(rest) \in Nat
         /\ ToSet(rest) = ToSet(lua.words) \cup ToSet(call.words)
         /\ Len(DispatchLine) = b + Len(rest)
         /\ \A k \in 1..Len(rest) : DispatchLine[b + k] = rest[k]
<1> DEFINE F == FlagWords(lua.force, Long("force"))
           H == FlagWords(lua.help, Long("help"))
           s == lua.options \o F
<1>1. F \in Seq(LineWord) /\ Len(F) = One(lua.force)
  BY FlagWordsAre DEF LineWord
<1>2. H = <<>>
  BY DEF FlagWords
<1>3. rest \in Seq(UserWord) /\ ToSet(rest) = ToSet(lua.words) \cup ToSet(call.words)
  BY ConcatProperties, RangeOfConcat
<1>4. lua.words \in Seq(LineWord) /\ call.words \in Seq(LineWord) /\ rest \in Seq(LineWord)
  <2>1. UserWord \subseteq LineWord
    BY DEF LineWord
  <2> QED  BY <1>3, <2>1, SeqDef
<1>5. DispatchLine = ((s \o H) \o lua.words) \o call.words
  BY DEF DispatchLine
<1> HIDE DEF F, H
<1>6. s \in Seq(LineWord) /\ Len(s) = b
  BY <1>1, ConcatProperties
<1> HIDE DEF s
<1>7. s \o H = s
  BY <1>2, <1>6, ConcatEmptySeq
<1>8. DispatchLine = s \o rest
  <2>1. PICK r, t, u : r = s /\ t = lua.words /\ u = call.words
    OBVIOUS
  <2>2. r \in Seq(LineWord) /\ t \in Seq(LineWord) /\ u \in Seq(LineWord) /\ rest = t \o u
    BY <1>4, <1>6, <2>1
  <2>3. (r \o t) \o u = r \o rest
    BY SMTT(30), <2>2, Regrouped
  <2>4. DispatchLine = (r \o t) \o u
    BY <1>5, <1>7, <2>1
  <2> QED  BY <2>1, <2>3, <2>4
<1>9. /\ Len(s \o rest) = Len(s) + Len(rest) /\ Len(s) \in Nat /\ Len(rest) \in Nat
      /\ \A i \in 1..(Len(s) + Len(rest)) : (s \o rest)[i] = IF i <= Len(s) THEN s[i] ELSE rest[i - Len(s)]
  BY <1>4, <1>6, ConcatProperties, LenProperties
<1>10. ASSUME NEW k \in 1..Len(rest) PROVE (s \o rest)[Len(s) + k] = rest[k]
  <2>1. Len(s) + k \in 1..(Len(s) + Len(rest)) /\ ~(Len(s) + k <= Len(s)) /\ (Len(s) + k) - Len(s) = k
    BY <1>9, PlacedAfter, Zenon
  <2> QED  BY <1>9, <2>1
<1> QED  BY <1>3, <1>6, <1>8, <1>9, <1>10

(* every other place of a line *)
Odd(p, n) == {p + (2 * j - 1) : j \in 1..n}

LEMMA OddPlaces ==
  ASSUME NEW p \in Nat, NEW n \in Nat
  PROVE  Cardinality(Odd(p, n)) = n
<1> DEFINE f == [j \in 1..n |-> p + (2 * j - 1)]
<1>1. f \in Bijection(1..n, Odd(p, n))
  <2>1. f \in [1..n -> Odd(p, n)]
    BY DEF Odd
  <2>2. \A j, k \in 1..n : f[j] = f[k] => j = k
    OBVIOUS
  <2>3. \A x \in Odd(p, n) : \E j \in 1..n : f[j] = x
    BY DEF Odd
  <2>4. IsInjective(f)
    BY <2>2 DEF IsInjective
  <2> HIDE DEF f
  <2> QED  BY <2>1, <2>3, <2>4 DEF Bijection, Injection, Surjection
<1>2. ExistsBijection(1..n, Odd(p, n))
  BY <1>1 DEF ExistsBijection
<1>3. IsFiniteSet(1..n) /\ Cardinality(1..n) = n
  <2>1. IsFiniteSet(1..n) /\ Cardinality(1..n) = IF 1 > n THEN 0 ELSE n - 1 + 1
    BY FS_Interval
  <2> QED  BY <2>1
<1> QED  BY <1>2, <1>3, FS_Bijection

LEMMA OddRank ==
  ASSUME NEW p \in Nat, NEW n \in Nat, NEW j \in 1..n
  PROVE  Rank(p + (2 * j - 1), Odd(p, n)) = j
<1>1. {x \in Odd(p, n) : x <= p + (2 * j - 1)} = Odd(p, j)
  <2>1. \A k \in 1..n : p + (2 * k - 1) <= p + (2 * j - 1) <=> k \in 1..j
    OBVIOUS
  <2>2. \A k \in 1..j : k \in 1..n
    OBVIOUS
  <2> QED  BY <2>1, <2>2 DEF Odd
<1>2. j \in Nat
  OBVIOUS
<1> QED  BY <1>1, <1>2, OddPlaces DEF Rank

LEMMA LastRank ==
  ASSUME NEW b \in Nat, NEW n \in Nat
  PROVE  /\ Cardinality((b + 1)..(b + n)) = n
         /\ \A k \in 1..n : Rank(b + k, (b + 1)..(b + n)) = k
<1>1. \A k \in Nat : Cardinality((b + 1)..(b + k)) = k
  <2>1. ASSUME NEW k \in Nat PROVE Cardinality((b + 1)..(b + k)) = k
    <3>1. Cardinality((b + 1)..(b + k)) = IF b + 1 > b + k THEN 0 ELSE (b + k) - (b + 1) + 1
      BY FS_Interval
    <3> QED  BY <3>1
  <2> QED  BY <2>1
<1>2. ASSUME NEW k \in 1..n PROVE {x \in (b + 1)..(b + n) : x <= b + k} = (b + 1)..(b + k)
  OBVIOUS
<1>3. \A k \in 1..n : k \in Nat
  OBVIOUS
<1> QED  BY <1>1, <1>2, <1>3 DEF Rank

(* the words s of the entries E come first on the line, and only they are options
   and values *)
OptionsFirst(s, V, E, words, role) ==
  /\ s \in Seq(LineWord) /\ V \in SUBSET (1..Len(s)) /\ E \in SUBSET TableEntry /\ Blocks(s, V, E)
  /\ words \in Seq(LineWord) /\ IsRole(words, role)
  /\ Len(s) <= Len(words)
  /\ \A i \in 1..Len(s) : words[i] = s[i]
  /\ \A i \in 1..Len(s) : role[i] = IF i \in V THEN "value" ELSE "option"
  /\ \A i \in (Len(s) + 1)..Len(words) : role[i] # "option"

(* the options of a Lua call: those of its line, in the blocks of its entries *)
LEMMA OptionsOnLine ==
  ASSUME CommandOK, NEW s, NEW V, NEW E, NEW words, NEW role, OptionsFirst(s, V, E, words, role)
  PROVE  /\ \A i : i \in With(role, "option") <=> i \in 1..Len(s) /\ i \notin V
         /\ \A i \in With(role, "option") : \E e \in E : words[i] = Long(e.key)
         /\ \A e \in E : \A o \in SpecOf(e.key) : \A i :
              i \in PlacesOf(words, role, o) <=> i \in 1..Len(s) /\ i \notin V /\ s[i] = Long(e.key)
<1>0. /\ Len(s) <= Len(words) /\ \A i \in 1..Len(s) : words[i] = s[i]
      /\ \A i \in 1..Len(s) : role[i] = IF i \in V THEN "value" ELSE "option"
      /\ \A i \in (Len(s) + 1)..Len(words) : role[i] # "option"
      /\ s \in Seq(LineWord) /\ V \in SUBSET (1..Len(s)) /\ E \in SUBSET TableEntry /\ Blocks(s, V, E)
      /\ words \in Seq(LineWord) /\ IsRole(words, role)
  BY DEF OptionsFirst
<1>1. Len(s) \in Nat /\ Len(words) \in Nat /\ DOMAIN role = 1..Len(words)
  BY <1>0, LenProperties DEF IsRole
<1>2. \A i \in 1..Len(words) : i \in 1..Len(s) \/ i \in (Len(s) + 1)..Len(words)
  BY <1>1
<1>3. \A i \in 1..Len(s) : i \in 1..Len(words)
  BY <1>0, <1>1
<1>4. \A i : i \in With(role, "option") <=> i \in 1..Len(s) /\ i \notin V
  BY <1>0, <1>1, <1>2, <1>3 DEF With
<1>5. \A i \in With(role, "option") : \E e \in E : words[i] = Long(e.key)
  BY <1>0, <1>4 DEF Blocks
<1>6. \A key : OptionOf(Long(key)) = SpecOf(key)
  BY DEF OptionOf, SpecOf, Long
<1>7. ASSUME NEW e \in E, NEW o \in SpecOf(e.key), NEW i
      PROVE  i \in PlacesOf(words, role, o) <=> i \in 1..Len(s) /\ i \notin V /\ s[i] = Long(e.key)
  <2>1. ASSUME i \in PlacesOf(words, role, o) PROVE i \in 1..Len(s) /\ i \notin V /\ s[i] = Long(e.key)
    <3>1. i \in With(role, "option") /\ OptionOf(words[i]) = {o}
      BY <2>1 DEF PlacesOf
    <3>2. PICK f \in E : words[i] = Long(f.key)
      BY <1>5, <3>1
    <3>3. o \in SpecOf(f.key)
      BY <1>6, <3>1, <3>2
    <3>4. f.key = e.key
      BY <3>3 DEF SpecOf
    <3> QED  BY <1>0, <1>4, <3>1, <3>2, <3>4
  <2>2. ASSUME i \in 1..Len(s), i \notin V, s[i] = Long(e.key) PROVE i \in PlacesOf(words, role, o)
    <3>1. OptionOf(words[i]) = SpecOf(e.key)
      BY <1>0, <1>6, <2>2
    <3>2. SpecOf(e.key) = {o}
      BY OneOption
    <3> QED  BY <1>4, <2>2, <3>1, <3>2 DEF PlacesOf
  <2> QED  BY <2>1, <2>2
<1> QED  BY <1>4, <1>5, <1>7

LEMMA OddNumbers ==
  \A n \in Nat : /\ \A k \in 1..(2 * n) : k % 2 = 1 => \E j \in 1..n : k = 2 * j - 1
                 /\ \A j \in 1..n : 2 * j - 1 \in 1..(2 * n) /\ 2 * j \in 1..(2 * n) /\ (2 * j - 1) % 2 = 1
OBVIOUS

LEMMA NextPlace == \A p, j \in Nat : (p + (2 * j - 1)) + 1 = p + 2 * j
OBVIOUS

(* the values of an option are the words of its entry *)
LEMMA EntryGivesValues ==
  ASSUME CommandOK, NEW s \in Seq(LineWord), NEW V \in SUBSET (1..Len(s)),
         NEW e \in TableEntry, ~EntryRefused(e), e.key \notin Reserved,
         NEW p \in Nat, Block(s, V, e, p), NEW o \in SpecOf(e.key), o.requires_value,
         NEW words, \A i \in 1..Len(s) : words[i] = s[i], NEW role, NEW n, ValuesAre(values, words, role, n),
         SoFar(role, "option", n) = With(role, "option"),
         Before(words, role, o, n) = PlacesOf(words, role, o),
         \A i : i \in PlacesOf(words, role, o) <=> i \in 1..Len(s) /\ i \notin V /\ s[i] = Long(e.key)
  PROVE  values[e.key] = TextsOf(EntryText(e))
<1> DEFINE t == EntryWords(e)
           text == EntryText(e)
           m == Len(text)
           P == PlacesOf(words, role, o)
<1>1. /\ text \in Seq(LineWord) /\ m > 0 /\ Len(t) = 2 * m
      /\ \A j \in 1..m : t[2 * j] = text[j]
      /\ \A k \in 1..Len(t) : k % 2 = 1 => t[k] = Long(e.key)
  <2>1. \A x \in SpecOf(e.key) : x.requires_value
    BY OneOption
  <2> QED  BY <2>1, EntryWordsAre
<1>2. /\ p + Len(t) <= Len(s)
      /\ \A k \in 1..Len(t) : s[p + k] = t[k]
      /\ \A i \in 1..Len(s) : i \notin V /\ s[i] = Long(e.key) <=> \E k \in 1..Len(t) : k % 2 = 1 /\ i = p + k
  BY DEF Block
<1>3. m \in Nat /\ Len(s) \in Nat
  BY <1>1, LenProperties
<1>4. o.long = e.key /\ \A i \in P : OptionOf(words[i]) = {o} /\ i \in With(role, "option")
  BY DEF SpecOf, PlacesOf
<1>5. \A i : i \in P <=> i \in 1..Len(s) /\ i \notin V /\ s[i] = Long(e.key)
  OBVIOUS
<1> HIDE DEF t, text, m, P
<1>6. \A k \in 1..(2 * m) : p + k \in 1..Len(s)
  BY <1>1, <1>2, <1>3
<1>7. P = Odd(p, m)
  <2>1. ASSUME NEW i \in P PROVE i \in Odd(p, m)
    <3>1. PICK k \in 1..(2 * m) : k % 2 = 1 /\ i = p + k
      BY <1>1, <1>2, <1>5
    <3>2. PICK j \in 1..m : k = 2 * j - 1
      BY <1>3, <3>1, OddNumbers
    <3> QED  BY <3>1, <3>2 DEF Odd
  <2>2. ASSUME NEW j \in 1..m PROVE p + (2 * j - 1) \in P
    <3>1. 2 * j - 1 \in 1..(2 * m) /\ (2 * j - 1) % 2 = 1
      BY <1>3, OddNumbers
    <3> QED  BY <1>1, <1>2, <1>5, <1>6, <3>1
  <2> QED  BY <2>1, <2>2 DEF Odd
<1>8. /\ \A i \in P : i \in SoFar(role, "option", n) /\ o \in OptionOf(words[i])
      /\ Before(words, role, o, n) = P
  BY <1>4 DEF P
<1>9. ASSUME NEW i \in P
      PROVE  /\ values[e.key] \in Seq(Values) /\ Len(values[e.key]) = Cardinality(P)
             /\ values[e.key][Rank(i, P)] = GivenValue(words, o, i)
  <2>1. Cardinality(Before(words, role, o, i)) = Rank(i, P)
    BY DEF Before, Rank, P
  <2> QED  BY <1>4, <1>8, <2>1 DEF ValuesAre
<1>10. ASSUME NEW j \in 1..m PROVE values[e.key][j] = text[j].text
  <2>1. PICK i : i = p + (2 * j - 1)
    OBVIOUS
  <2>2. i \in P
    BY <1>7, <2>1 DEF Odd
  <2>3. Rank(i, P) = j
    BY <1>3, <1>7, <2>1, OddRank
  <2>4. words[i].glued = <<>>
    <3>1. words[i] = Long(e.key)
      BY <1>5, <2>2
    <3> QED  BY <3>1 DEF Long
  <2>5. i + 1 = p + 2 * j /\ 2 * j \in 1..(2 * m)
    <3>1. j \in Nat
      OBVIOUS
    <3> QED  BY <1>3, <2>1, <3>1, NextPlace, OddNumbers
  <2>6. words[i + 1] = text[j]
    <3>1. PICK k \in 1..(2 * m) : k = 2 * j
      BY <2>5
    <3>2. p + k \in 1..Len(s) /\ s[p + k] = t[k] /\ t[k] = text[j]
      BY <1>1, <1>2, <1>6, <3>1
    <3>3. words[p + k] = s[p + k] /\ i + 1 = p + k
      BY <2>5, <3>1, <3>2
    <3> QED  BY <3>2, <3>3
  <2>7. GivenValue(words, o, i) = words[i + 1].text
    BY <2>4 DEF GivenValue
  <2> QED  BY <1>9, <2>2, <2>3, <2>6, <2>7
<1>11. values[e.key] \in Seq(Values) /\ Len(values[e.key]) = m
  <2>1. 1 \in 1..m
    BY <1>1, <1>3
  <2>2. p + (2 * 1 - 1) \in P
    BY <1>7, <2>1 DEF Odd
  <2>3. Cardinality(P) = m
    BY <1>3, <1>7, OddPlaces
  <2> QED  BY <1>9, <2>2, <2>3
<1>12. DOMAIN values[e.key] = 1..m /\ DOMAIN text = 1..m
  BY <1>1, <1>11, LenProperties DEF m
<1>13. values[e.key] = [k \in 1..m |-> values[e.key][k]]
  <2>1. values[e.key] = [k \in DOMAIN values[e.key] |-> values[e.key][k]]
    BY <1>11, LenProperties
  <2> QED  BY <1>12, <2>1
<1>14. TextsOf(text) = [k \in 1..m |-> text[k].text]
  BY <1>12 DEF TextsOf
<1> QED  BY <1>10, <1>13, <1>14 DEF text

(* A Lua call comes through: in whatever order lua_next visits the table, the
   handler gets exactly the options and the words of the call. For every command,
   every options table and values of any length, also those that look like options. *)
THEOREM LuaCallsArrive == Spec => []LuaCallsRoundTrip
<1>1. LineInv /\ TableInv => LuaCallsRoundTrip
  <2> SUFFICES ASSUME LineInv, TableInv, Handled, call.via = "commands",
                      \A w \in GivenWords : w.dash = 0, OneSpelling
               PROVE  /\ \A e \in call.options : \A o \in SpecOf(e.key) :
                           e.key \notin Reserved =>
                             IF ~o.requires_value THEN (e.key \in DOMAIN values) = e.on
                             ELSE values[e.key] = TextsOf(EntryText(e))
                      /\ DOMAIN values \subseteq {e.key : e \in call.options}
                      /\ positionals = TextsOf(lua.words \o call.words)
                      /\ ToSet(lua.words \o call.words) = GivenWords
    BY DEF LuaCallsRoundTrip, OneSpelling
  <2>1. RegistryInv /\ CallInv /\ LuaInv /\ EndInv /\ ParsedInv
    BY DEF LineInv
  <2>2. phase = "end" /\ command # {} /\ outcome # "lua error" /\ args = <<>> /\ ~help
    BY <2>1, HandledAtTheEnd
  <2>3. CommandOK
    BY <2>1, <2>2, CommandFound
  <2>4. /\ lua.options \in Seq(LineWord) /\ lua.words \in Seq(UserWord) /\ call.words \in Seq(UserWord)
        /\ lua.force \in BOOLEAN /\ lua.help \in BOOLEAN /\ call.options \in SUBSET TableEntry
    BY <2>1, <2>2 DEF LuaInv, LuaState, CallInv, UserCall
  <2>5. /\ lua.todo = {} /\ ToSet(lua.words) = UNION {ToSet(e.words) : e \in Listed}
        /\ \A s, E : s = lua.options /\ E = Named => \E V \in SUBSET (1..Len(s)) : Blocks(s, V, E)
    <3>1. lua.todo = {}
      BY <2>2 DEF TableInv
    <3>2. Listed \ lua.todo = Listed /\ Named \ lua.todo = Named
      BY <3>1
    <3> QED  BY <2>2, <3>1, <3>2 DEF TableInv
  <2>6. PICK words, s, E : words = DispatchLine /\ s = lua.options /\ E = Named
    OBVIOUS
  <2>7. PICK V \in SUBSET (1..Len(s)) : Blocks(s, V, E)
    BY <2>5, <2>6
  <2>8. PICK role : role = Roles(words)
    OBVIOUS
  <2>9. words \in Lines
    BY <2>6 DEF Lines
  <2>10. IsRole(words, role) /\ \E k : ParserInv(words, role, k)
    BY <2>1, <2>2, <2>8, <2>9, EveryLine
  <2>11. PICK n : ParserInv(words, role, n)
    BY <2>10
  <2>12. /\ words \in Seq(LineWord) /\ n = Len(words) /\ n \in Nat
         /\ \A r : SoFar(role, r, n) = With(role, r)
         /\ \A o : Before(words, role, o, n) = PlacesOf(words, role, o)
         /\ ~\E j \in 1..Len(words) : role[j] = "help"
    BY <2>2, <2>3, <2>11, AllTaken
  <2>13. ValuesAre(values, words, role, n) /\ PositionalsAre(words, role, n)
    BY <2>11 DEF ParserInv
  <2>14. Groups(lua.options, V) /\ IsRole(DispatchLine, role)
    BY <2>6, <2>7, <2>10 DEF Blocks
  <2>15. /\ \A i \in 1..Len(lua.options) : role[i] = IF i \in V THEN "value" ELSE "option"
         /\ \A i \in (Len(lua.options) + 1)..(Len(lua.options) + One(lua.force)) : role[i] = "force"
         /\ ~lua.help /\ (\A w \in ToSet(lua.words) \cup ToSet(call.words) : w.dash = 0) =>
              \A i \in (Len(lua.options) + One(lua.force) + 1)..Len(DispatchLine) : role[i] = "word"
         /\ lua.help => \E j \in 1..Len(DispatchLine) : role[j] = "help"
    BY SMTT(30), <2>4, <2>14, WordsAfterGroups
  <2>16. ~lua.help
    BY <2>6, <2>12, <2>15
  <2>17. PICK rest, b : rest = lua.words \o call.words /\ b = Len(lua.options) + One(lua.force)
    OBVIOUS
  <2>18. /\ rest \in Seq(UserWord) /\ b \in Nat /\ Len(rest) \in Nat
         /\ ToSet(rest) = ToSet(lua.words) \cup ToSet(call.words)
         /\ Len(words) = b + Len(rest)
         /\ \A k \in 1..Len(rest) : words[b + k] = rest[k]
    BY <2>4, <2>6, <2>16, <2>17, ArgumentsOnLine
  <2>19. ToSet(rest) = GivenWords
    BY <2>5, <2>18 DEF GivenWords
  <2>20. /\ \A i \in 1..Len(s) : role[i] = IF i \in V THEN "value" ELSE "option"
         /\ \A i \in (Len(s) + 1)..b : role[i] = "force"
         /\ \A i \in (b + 1)..Len(words) : role[i] = "word"
    BY <2>6, <2>15, <2>16, <2>17, <2>18, <2>19
  <2>21. /\ \A i \in 1..Len(s) : words[i] = s[i]
         /\ s \in Seq(LineWord) /\ Len(s) \in Nat /\ Len(s) <= b /\ b <= Len(words)
    <3>1. LuaLine(Len(s), b, b + One(lua.help), Len(words))
      BY <2>4, <2>6, <2>17, DispatchedLine, Zenon
    <3>2. s \in Seq(LineWord) /\ Len(s) \in Nat
      BY <2>4, <2>6, LenProperties
    <3>3. One(lua.force) \in Nat /\ b = Len(s) + One(lua.force)
      BY <2>6, <2>17 DEF One
    <3>4. Len(s) <= b /\ b <= Len(words)
      BY <2>18, <3>2, <3>3, AtLeast, Zenon
    <3> QED  BY <2>6, <3>1, <3>2, <3>4 DEF LuaLine
  <2>22. /\ \A i \in (Len(s) + 1)..Len(words) : i \in (Len(s) + 1)..b \/ i \in (b + 1)..Len(words)
         /\ \A i \in 1..Len(words) : i \in 1..Len(s) \/ i \in (Len(s) + 1)..b \/ i \in (b + 1)..Len(words)
         /\ \A i \in (b + 1)..Len(words) : i \in 1..Len(words)
    BY <2>12, <2>18, <2>21
  <2>23. \A i \in (Len(s) + 1)..Len(words) : role[i] # "option"
    BY <2>20, <2>22
  <2>24. E \in SUBSET TableEntry /\ \A e \in E : e.key \notin Reserved /\ e \in call.options
    BY <2>4, <2>6 DEF Named
  <2>25. /\ \A i : i \in With(role, "option") <=> i \in 1..Len(s) /\ i \notin V
         /\ \A i \in With(role, "option") : \E e \in E : words[i] = Long(e.key)
         /\ \A e \in E : \A o \in SpecOf(e.key) : \A i :
              i \in PlacesOf(words, role, o) <=> i \in 1..Len(s) /\ i \notin V /\ s[i] = Long(e.key)
    <3>1. Len(s) <= Len(words)
      BY <2>12, <2>18, <2>21
    <3>2. OptionsFirst(s, V, E, words, role)
      BY <2>7, <2>10, <2>12, <2>20, <2>21, <2>23, <2>24, <3>1 DEF OptionsFirst
    <3> QED  BY <2>3, <3>2, OptionsOnLine
  <2>26. positionals = TextsOf(rest)
    <3>1. With(role, "word") = (b + 1)..(b + Len(rest))
      <4>1. DOMAIN role = 1..Len(words)
        BY <2>10 DEF IsRole
      <4>2. \A i \in With(role, "word") : i \in (b + 1)..Len(words)
        BY <2>20, <2>22, <4>1 DEF With
      <4>3. \A i \in (b + 1)..Len(words) : i \in With(role, "word")
        BY <2>20, <2>22, <4>1 DEF With
      <4> QED  BY <2>18, <4>2, <4>3
    <3>2. SoFar(role, "word", n) = (b + 1)..(b + Len(rest))
      BY <2>12, <3>1
    <3>3. /\ positionals \in Seq(Texts) /\ Len(positionals) = Cardinality((b + 1)..(b + Len(rest)))
          /\ \A i \in (b + 1)..(b + Len(rest)) :
               positionals[Rank(i, (b + 1)..(b + Len(rest)))] = words[i].text
      BY <2>13, <3>2 DEF PositionalsAre
    <3>4. /\ Cardinality((b + 1)..(b + Len(rest))) = Len(rest)
          /\ \A k \in 1..Len(rest) : Rank(b + k, (b + 1)..(b + Len(rest))) = k
      BY <2>18, LastRank
    <3>5. ASSUME NEW k \in 1..Len(rest) PROVE positionals[k] = rest[k].text
      <4>1. b + k \in (b + 1)..(b + Len(rest))
        BY <2>18
      <4> QED  BY <2>18, <3>3, <3>4, <4>1
    <3>6. DOMAIN positionals = 1..Len(rest) /\ DOMAIN rest = 1..Len(rest)
      BY <2>18, <3>3, <3>4, LenProperties
    <3>7. positionals = [k \in DOMAIN positionals |-> positionals[k]]
      BY <3>3, LenProperties
    <3>8. TextsOf(rest) = [k \in 1..Len(rest) |-> rest[k].text]
      BY <3>6 DEF TextsOf
    <3> QED  BY <3>5, <3>6, <3>7, <3>8
  <2>27. \A key : key \in DOMAIN values <=>
           \E i \in With(role, "option") : \E o \in OptionOf(words[i]) : o.long = key
    BY <2>12, <2>13 DEF ValuesAre
  <2>28. \A key : OptionOf(Long(key)) = SpecOf(key)
    BY DEF OptionOf, SpecOf, Long
  <2>29. \A key \in DOMAIN values :
           \E i \in With(role, "option") : \E e \in E : words[i] = Long(e.key) /\ e.key = key
    <3>1. SUFFICES ASSUME NEW key \in DOMAIN values
                   PROVE  \E i \in With(role, "option") : \E e \in E : words[i] = Long(e.key) /\ e.key = key
      OBVIOUS
    <3>2. PICK i \in With(role, "option") : \E o \in OptionOf(words[i]) : o.long = key
      BY <2>27
    <3>3. PICK e \in E : words[i] = Long(e.key)
      BY <2>25
    <3>4. e.key = key
      BY <2>28, <3>2, <3>3 DEF SpecOf
    <3> QED  BY <3>3, <3>4
  <2>30. DOMAIN values \subseteq {e.key : e \in call.options}
    BY <2>24, <2>29
  <2>31. ASSUME NEW e \in call.options, NEW o \in SpecOf(e.key), e.key \notin Reserved
         PROVE  IF ~o.requires_value THEN (e.key \in DOMAIN values) = e.on
                ELSE values[e.key] = TextsOf(EntryText(e))
    <3>1. e \in E /\ e \in TableEntry
      BY <2>4, <2>6, <2>31 DEF Named
    <3>2. ~EntryRefused(e) /\ \E p \in Nat : Block(s, V, e, p)
      BY <2>7, <3>1 DEF Blocks
    <3>3. PICK p \in Nat : Block(s, V, e, p)
      BY <3>2
    <3>4. CASE o.requires_value
      <4>1. values[e.key] = TextsOf(EntryText(e))
        <5>1. /\ CommandOK /\ s \in Seq(LineWord) /\ V \in SUBSET (1..Len(s))
              /\ e \in TableEntry /\ ~EntryRefused(e) /\ Block(s, V, e, p)
              /\ \A i \in 1..Len(s) : words[i] = s[i]
          BY <2>3, <2>7, <2>21, <3>1, <3>2, <3>3
        <5>2. /\ e.key \notin Reserved /\ o \in SpecOf(e.key) /\ o.requires_value
          BY <2>31, <3>4
        <5>3. /\ ValuesAre(values, words, role, n)
              /\ SoFar(role, "option", n) = With(role, "option")
              /\ Before(words, role, o, n) = PlacesOf(words, role, o)
          BY <2>12, <2>13
        <5>4. \A i : i \in PlacesOf(words, role, o) <=> i \in 1..Len(s) /\ i \notin V /\ s[i] = Long(e.key)
          BY <2>25, <3>1, <5>2
        <5> QED  BY <5>1, <5>2, <5>3, <5>4, EntryGivesValues
      <4> QED  BY <3>4, <4>1
    <3>5. CASE ~o.requires_value
      <4> DEFINE t == EntryWords(e)
      <4>1. t = IF e.on THEN <<Long(e.key)>> ELSE <<>>
        BY <2>3, <2>31, <3>1, <3>2, <3>5, EntryWordsAre
      <4>2. /\ \A k \in 1..Len(t) : s[p + k] = t[k]
            /\ \A i \in 1..Len(s) : i \notin V /\ s[i] = Long(e.key)
                                    <=> \E k \in 1..Len(t) : k % 2 = 1 /\ i = p + k
            /\ p + Len(t) <= Len(s)
        BY <3>3 DEF Block
      <4> HIDE DEF t
      <4>3. ASSUME e.on PROVE e.key \in DOMAIN values
        <5>1. t = <<Long(e.key)>>
          BY <4>1, <4>3
        <5>2. Len(t) = 1 /\ t[1] = Long(e.key)
          BY <5>1
        <5>3. p + 1 \in 1..Len(s) /\ 1 \in 1..Len(t) /\ 1 % 2 = 1
          BY <2>21, <4>2, <5>2
        <5>4. p + 1 \notin V /\ s[p + 1] = Long(e.key)
          BY <4>2, <5>3
        <5>5. p + 1 \in With(role, "option") /\ words[p + 1] = Long(e.key)
          BY <2>21, <2>25, <5>3, <5>4
        <5>6. o \in OptionOf(words[p + 1]) /\ o.long = e.key
          BY <2>28, <5>5 DEF SpecOf
        <5> QED  BY <2>27, <5>5, <5>6
      <4>4. ASSUME e.key \in DOMAIN values PROVE e.on
        <5>1. PICK i \in With(role, "option") : \E f \in E : words[i] = Long(f.key) /\ f.key = e.key
          BY <2>29, <4>4
        <5>2. i \in 1..Len(s) /\ i \notin V /\ s[i] = Long(e.key)
          BY <2>21, <2>25, <5>1
        <5>3. PICK k \in 1..Len(t) : k % 2 = 1 /\ i = p + k
          BY <4>2, <5>2
        <5>4. SUFFICES ASSUME ~e.on PROVE FALSE
          OBVIOUS
        <5>5. Len(t) = 0
          BY <4>1, <5>4
        <5> QED  BY <5>3, <5>5
      <4>5. e.on \in BOOLEAN
        BY <3>1 DEF TableEntry
      <4> QED  BY <3>5, <4>3, <4>4, <4>5
    <3>6. o.requires_value \in BOOLEAN
      BY <2>3, <2>31, OneOption, OptionsOfCommand
    <3> QED  BY <3>4, <3>5, <3>6
  <2> QED  BY <2>17, <2>19, <2>26, <2>30, <2>31
<1> QED  BY <1>1, TableAlways, PTL
=============================================================================
