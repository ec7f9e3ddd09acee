------------------------------ MODULE CommandLine ------------------------------
(* One command of the nandworks tool from the words of the user to its handler:
   main (src/nandworks.cpp) with the registry it has filled (CommandRegistry),
   parse_command_arguments (src/src/driver/cli_parser.cpp)
   and the two ways a Lua script invokes a command, exec and commands.<name>
   (src/src/scripting/lua_engine.cpp).

   A word is a record: its text, the number of dashes it starts with (2, 1 or
   0), the option name after them and the value glued to it (--name=value, -nvalue),
   <<>> when there is none. *)
EXTENDS CommandRegistry, FiniteSets

CONSTANT Calls   \* for a table: the calls of users and scripts to look at, as a set

(* a short option has a name, a word at most one value glued to it *)
UserWord ==
  {w \in [text : STRING, dash : 0..2, name : STRING, glued : Seq(STRING)] :
     Len(w.glued) <= 1 /\ (w.dash = 1 => w.name # "")}
(* the entries of an options table, see DispatchStarts *)
TableEntry ==
  {e \in [key : STRING, type : {"boolean", "text", "list", "function"}, words : Seq(UserWord),
          on : BOOLEAN] : e.type = "text" => Len(e.words) = 1}
UserCall ==
  [via : {"main", "exec", "commands"}, root : BOOLEAN, name : STRING, words : Seq(UserWord),
   options : SUBSET TableEntry]

ASSUME CallAssumption == \A t \in DOMAIN Tables : Calls[t] \subseteq UserCall

VARIABLES
  call,        \* the call: who makes it, with which words, as root or not
  phase,       \* "register", "start", "table", "parse", "end"
  command,     \* the index of the command found, as a set of at most one
  args,        \* raw_args: the words left to parse
  values,      \* option_values
  positionals, \* positionals
  only_words,  \* positional_mode
  help, force, \* --help and --force were seen
  lua,         \* locals of lua_command_dispatch
  outcome      \* how the call ended, "" before

parser == <<args, values, positionals, only_words, help, force>>
line == <<call, phase, command, parser, lua, outcome>>
vars == <<registry, line>>

TheCommand == Wanted[CHOOSE i \in command : TRUE]

Word(text) == [text |-> text, dash |-> 0, name |-> "", glued |-> <<>>]
Long(name) == [text |-> "--" \o name, dash |-> 2, name |-> name, glued |-> <<>>]
Dashes == Long("")

IsFlag(word, long, short) ==
  \/ word.dash = 2 /\ word.name = long /\ word.glued = <<>>
  \/ word.dash = 1 /\ word.name = short /\ word.glued = <<>>

NoCall == [via |-> "none"]

Init ==
  /\ RegistryInit
  /\ call = NoCall /\ phase = "register" /\ command = {} /\ outcome = ""
  /\ args = <<>> /\ values = <<>> /\ positionals = <<>>
  /\ only_words = FALSE /\ help = FALSE /\ force = FALSE
  /\ lua = [todo |-> {}, options |-> <<>>, words |-> <<>>,
            force |-> FALSE, help |-> FALSE, allow_failure |-> FALSE]

End(how) == phase' = "end" /\ outcome' = how

(* main looks a name up only when the registry is complete. *)
Accept ==
  /\ phase = "register" /\ registration = "ready"
  /\ call' \in Calls[table] /\ phase' = "start"
  /\ UNCHANGED <<command, parser, lua, outcome>>

-----------------------------------------------------------------------------
(* main *)

(* --verbose and -v are taken out of the line wherever they stand *)
WithoutVerbose(words) ==
  LET kept[i \in 0..Len(words)] ==
        IF i = 0 THEN <<>>
        ELSE IF IsFlag(words[i], "verbose", "v") THEN kept[i - 1] ELSE Append(kept[i - 1], words[i])
  IN kept[Len(words)]

GlobalFlag(word) == IsFlag(word, "help", "h") \/ word = Long("list-commands")

(* the command name: the first word that is no global flag *)
NameAt(words) == {i \in DOMAIN words :
  ~GlobalFlag(words[i]) /\ \A j \in 1..(i - 1) : GlobalFlag(words[j])}

MainStarts ==
  /\ phase = "start" /\ call.via = "main"
  /\ LET words == WithoutVerbose(call.words)
     IN \/ /\ NameAt(words) = {}
           /\ End(IF words = <<>> THEN "no command" ELSE "usage")
           /\ UNCHANGED <<command, args>>
        \/ \E i \in NameAt(words) :
             /\ command' = Find(words[i].text)
             /\ args' = SubSeq(words, i + 1, Len(words))
             /\ IF command' = {} THEN End("unknown") ELSE phase' = "parse" /\ UNCHANGED outcome
  /\ UNCHANGED <<call, values, positionals, only_words, help, force, lua>>

-----------------------------------------------------------------------------
(* parse_command_arguments, one word a step *)

Push(f, key, value) ==
  [k \in DOMAIN f \cup {key} |->
     IF k # key THEN f[k] ELSE IF k \in DOMAIN f THEN Append(f[k], value) ELSE <<value>>]

OptionOf(word) ==
  {o \in ToSet(TheCommand.options) :
     \/ word.dash = 2 /\ o.long = word.name
     \/ word.dash = 1 /\ o.short = word.name}

Parsing == phase = "parse" /\ args # <<>>
WordsOnly == only_words \/ (TheCommand.stops /\ positionals # <<>>)
Flag(word) == word = Dashes \/ IsFlag(word, "help", "h") \/ IsFlag(word, "force", "f")
OptionWord(word) == ~WordsOnly /\ ~Flag(word) /\ word.dash > 0

TakesNext(o, word) == o.requires_value /\ word.glued = <<>>

ParseFlag ==
  /\ Parsing /\ ~WordsOnly /\ Flag(Head(args))
  /\ only_words' = (Head(args) = Dashes)
  /\ help' = (help \/ IsFlag(Head(args), "help", "h"))
  /\ force' = (force \/ IsFlag(Head(args), "force", "f"))
  /\ args' = Tail(args)
  /\ UNCHANGED <<call, phase, command, values, positionals, lua, outcome>>

(* what makes the parser throw at an option *)
OptionRefused(o, word) ==
  \/ ~o.requires_value /\ word.glued # <<>>
  \/ TakesNext(o, word) /\ Len(args) = 1
  \/ ~o.repeatable /\ o.long \in DOMAIN values

(* Mutant: the value is read but not taken off the line *)
RestKeepsValue(o) == Tail(args)
Rest(o) == IF TakesNext(o, Head(args)) THEN Tail(Tail(args)) ELSE Tail(args)

ValueOf(o, word) ==
  CASE ~o.requires_value  -> "true"
    [] TakesNext(o, word) -> args[2].text
    [] OTHER              -> word.glued[1]

ParseOption ==
  /\ Parsing /\ OptionWord(Head(args))
  /\ \E o \in OptionOf(Head(args)) :
       /\ ~OptionRefused(o, Head(args))
       /\ values' = Push(values, o.long, ValueOf(o, Head(args)))
       /\ args' = Rest(o)
  /\ UNCHANGED <<call, phase, command, positionals, only_words, help, force, lua, outcome>>

ParseOptionThrows ==
  /\ Parsing /\ OptionWord(Head(args))
  /\ \A o \in OptionOf(Head(args)) : OptionRefused(o, Head(args))
  /\ End("argument error")
  /\ UNCHANGED <<call, command, parser, lua>>

ParsePositional ==
  /\ Parsing /\ (WordsOnly \/ Head(args).dash = 0)
  /\ positionals' = Append(positionals, Head(args).text)
  /\ only_words' = WordsOnly
  /\ args' = Tail(args)
  /\ UNCHANGED <<call, phase, command, values, help, force, lua, outcome>>

(* Mutant: --force is not asked for *)
IncompleteSafe ==
  \/ \E o \in ToSet(TheCommand.options) : o.required /\ o.long \notin DOMAIN values
  \/ Len(positionals) \notin TheCommand.min_positionals..TheCommand.max_positionals

Incomplete ==
  \/ \E o \in ToSet(TheCommand.options) : o.required /\ o.long \notin DOMAIN values
  \/ Len(positionals) \notin TheCommand.min_positionals..TheCommand.max_positionals
  \/ TheCommand.safety = "RequiresForce" /\ ~force

(* the rest of parse_command_arguments, the checks of main and invoke_command,
   and the handler, which may throw *)
Invoke ==
  /\ phase = "parse" /\ args = <<>>
  /\ \/ help /\ End("usage")
     \/ ~help /\ Incomplete /\ End("argument error")
     \/ ~help /\ ~Incomplete /\ TheCommand.requires_root /\ ~call.root /\ End("root")
     \/ /\ ~help /\ ~Incomplete /\ (TheCommand.requires_root => call.root)
        /\ End("done") \/ End("failed")
  /\ UNCHANGED <<call, command, parser, lua>>

-----------------------------------------------------------------------------
(* exec(name, words...) *)

ExecStarts ==
  /\ phase = "start" /\ call.via = "exec"
  /\ command' = Find(call.name)
  /\ args' = call.words
  /\ IF command' = {} THEN End("unknown") ELSE phase' = "parse" /\ UNCHANGED outcome
  /\ UNCHANGED <<call, values, positionals, only_words, help, force, lua>>

(* commands.<name>(options, words...). An entry of the options table is
   [key, type, words, on]: the normalised key, the type of its value ("boolean",
   "text", "list" or "function"), the words of a text or a list, and the truth of
   a boolean. lua_next visits the entries in an order of its own. *)
DispatchStarts ==
  /\ phase = "start" /\ call.via = "commands"
  /\ command' = Find(call.name) /\ command' # {}
  /\ lua' = [lua EXCEPT !.todo = call.options]
  /\ phase' = "table"
  /\ UNCHANGED <<call, parser, outcome>>

SpecOf(key) == {o \in ToSet(TheCommand.options) : o.long = key}

EntryRefused(e) ==
  CASE e.key \in {"args", "positionals", "meta"} -> e.type # "list"
    [] e.key \in {"allow-failure", "force", "help"} -> e.type # "boolean"
    [] OTHER -> \A o \in SpecOf(e.key) :
         CASE ~o.requires_value -> e.type # "boolean"
           [] o.requires_value /\ e.type = "list" ->
                Len(e.words) = 0 \/ (~o.repeatable /\ Len(e.words) > 1)
           [] OTHER -> e.type = "function"

EntryText(e) == IF e.type = "boolean" THEN <<Word(IF e.on THEN "true" ELSE "false")>> ELSE e.words

(* Mutant: an entry counts when it is there *)
HoldsWhenPresent(e) == TRUE
Holds(e) == e.on

(* the words an option entry adds to the line *)
EntryWords(e) ==
  CASE \E o \in SpecOf(e.key) : ~o.requires_value -> IF Holds(e) THEN <<Long(e.key)>> ELSE <<>>
    [] OTHER -> [i \in 1..2*Len(EntryText(e)) |->
                   IF i % 2 = 1 THEN Long(e.key) ELSE EntryText(e)[i \div 2]]

DispatchEntry ==
  /\ phase = "table"
  /\ \E e \in lua.todo :
       IF EntryRefused(e)
         THEN End("lua error") /\ UNCHANGED lua
         ELSE /\ LET rest == [lua EXCEPT !.todo = @ \ {e}]
                 IN lua' = CASE e.key \in {"args", "positionals"} -> [rest EXCEPT !.words = @ \o e.words]
                             [] e.key \in {"meta", "allow-failure"} -> [rest EXCEPT !.allow_failure = Holds(e)]
                             [] e.key = "force" -> [rest EXCEPT !.force = Holds(e)]
                             [] e.key = "help" -> [rest EXCEPT !.help = Holds(e)]
                             [] OTHER -> [rest EXCEPT !.options = @ \o EntryWords(e)]
              /\ UNCHANGED <<phase, outcome>>
  /\ UNCHANGED <<call, command, parser>>

FlagWords(set, word) == IF set THEN <<word>> ELSE <<>>

(* Mutant: the positional words go first *)
LineWordsFirst == lua.words \o call.words \o lua.options
                  \o FlagWords(lua.force, Long("force")) \o FlagWords(lua.help, Long("help"))
DispatchLine == lua.options \o FlagWords(lua.force, Long("force"))
                \o FlagWords(lua.help, Long("help")) \o lua.words \o call.words

DispatchInvokes ==
  /\ phase = "table" /\ lua.todo = {}
  /\ IF ~lua.help /\ TheCommand.safety = "RequiresForce" /\ ~lua.force
       THEN End("lua error") /\ UNCHANGED args
       ELSE phase' = "parse" /\ args' = DispatchLine /\ UNCHANGED outcome
  /\ UNCHANGED <<call, command, values, positionals, only_words, help, force, lua>>

Next ==
  \/ Register /\ UNCHANGED line
  \/ /\ UNCHANGED registry
     /\ \/ Accept
        \/ MainStarts \/ ExecStarts \/ DispatchStarts
        \/ ParseFlag \/ ParseOption \/ ParseOptionThrows \/ ParsePositional \/ Invoke
        \/ DispatchEntry \/ DispatchInvokes

Spec == Init /\ [][Next]_vars

-----------------------------------------------------------------------------
(* Status of the call: the exit code of main, the result of invoke_command. The
   codes of a handler that did not do its work are one here, "failed": which of
   them it was matters to nobody but the caller. *)
Status ==
  CASE outcome = "no command"     -> 1
    [] outcome = "unknown"        -> IF call.via = "main" THEN 2 ELSE 1
    [] outcome = "argument error" -> IF call.via = "main" THEN 3 ELSE 2
    [] outcome = "failed"         -> 4
    [] outcome = "root"           -> 5
    [] OTHER                      -> 0

(* lua_command_dispatch raises a Lua error instead of returning *)
Raises ==
  /\ call.via = "commands"
  /\ outcome = "lua error" \/ (Status # 0 /\ ~lua.allow_failure)

Handled == outcome \in {"done", "failed"}

(* A word is consumed at most once: whatever the parser has taken, the rest of
   the line is a suffix of what it was given, no option has two values unless it is
   repeatable, and the
   handler of a command runs with each of its required options set. *)
TypeOK ==
  /\ RegistryTypeOK
  /\ phase \in {"register", "start", "table", "parse", "end"}
  /\ command \subseteq 1..stored /\ Cardinality(command) <= 1
  /\ phase = "parse" => command # {}
  /\ \A key \in DOMAIN values :
       \E o \in SpecOf(key) : values[key] # <<>> /\ (o.repeatable \/ Len(values[key]) = 1)
  /\ {only_words, help, force} \subseteq BOOLEAN
  /\ (phase = "end") = (outcome # "")
  /\ Handled => {o.long : o \in {x \in ToSet(TheCommand.options) : x.required}} \subseteq DOMAIN values

(* Whatever was registered (nothing changes it afterwards), and also when a
   duplicate alias has stopped it half way: find resolves every entered key to a command that claims it, a stored
   command is always found by its own name, and the keys of a command that is
   not in place are exactly the aliases still pending. So no
   name or alias belongs to two commands once the registry is ready. *)
FindsItsCommand ==
  phase = "register" =>
    /\ \A key \in DOMAIN lookup : key \in ToSet(Keys(commands[lookup[key]]))
    /\ \A i \in DOMAIN commands :
         LET missing == {key \in ToSet(Keys(commands[i])) : i \notin Find(key)}
         IN /\ commands[i].name \notin missing
            /\ missing \subseteq (IF i = stored THEN ToSet(pending) ELSE {})

-----------------------------------------------------------------------------
(* What the words of a line are for, read off the whole line *)
AsksForValue(word) == word.glued = <<>> /\ \E o \in OptionOf(word) : o.requires_value
Ends(role, j) == role[j] = "end" \/ (TheCommand.stops /\ role[j] = "word")

RoleOf(words, role, i) ==
  IF i > 1 /\ role[i - 1] = "option" /\ AsksForValue(words[i - 1]) THEN "value"
  ELSE IF \E j \in 1..(i - 1) : Ends(role, j) THEN "word"
  ELSE IF words[i] = Dashes THEN "end"
  ELSE IF IsFlag(words[i], "help", "h") THEN "help"
  ELSE IF IsFlag(words[i], "force", "f") THEN "force"
  ELSE IF words[i].dash > 0 THEN "option" ELSE "word"

Roles(words) == LET role[i \in 1..Len(words)] == RoleOf(words, role, i) IN role

With(role, r) == {i \in DOMAIN role : role[i] = r}

(* the words main or exec hands to the parser *)
LineOf ==
  IF call.via = "exec" THEN {call.words}
  ELSE LET words == WithoutVerbose(call.words)
       IN {SubSeq(words, i + 1, Len(words)) : i \in NameAt(words)}

(* the option at i is unknown, has a value too many, none, or is repeated *)
BadOption(words, role, i) ==
  \/ OptionOf(words[i]) = {}
  \/ \E o \in OptionOf(words[i]) :
       \/ ~o.requires_value /\ words[i].glued # <<>>
       \/ o.requires_value /\ words[i].glued = <<>> /\ i = Len(words)
       \/ ~o.repeatable /\ \E j \in With(role, "option") : j < i /\ OptionOf(words[j]) = {o}

GivenValue(words, o, i) ==
  IF ~o.requires_value THEN "true"
  ELSE IF words[i].glued # <<>> THEN words[i].glued[1] ELSE words[i + 1].text

(* the places of an option *)
PlacesOf(words, role, o) == {i \in With(role, "option") : OptionOf(words[i]) = {o}}

(* What the parser hands to a command is what each word of the line is for,
   wherever it stands: a word after an option that takes one is its value and
   nothing else, a word after -- or, for a script, after its path is an argument,
   the arguments and the values of a repeatable option come in the order of the line,
   and a line is refused only for an option that is unknown, repeated, without
   its value or with one too many. *)
ParsesByRoles ==
  phase = "end" /\ command # {} /\ call.via # "commands" =>
    \A words \in LineOf :
    LET role == Roles(words)
        options == With(role, "option")
        bad == \E i \in options : BadOption(words, role, i)
    IN /\ bad => outcome = "argument error"
       /\ ~bad =>
            /\ DOMAIN values = {o.long : o \in UNION {OptionOf(words[i]) : i \in options}}
            /\ \A i \in options : \A o \in OptionOf(words[i]) :
                 /\ Len(values[o.long]) = Cardinality(PlacesOf(words, role, o))
                 /\ values[o.long][Cardinality({j \in PlacesOf(words, role, o) : j <= i})]
                      = GivenValue(words, o, i)
            /\ Len(positionals) = Cardinality(With(role, "word"))
            /\ \A i \in With(role, "word") :
                 positionals[Cardinality({j \in With(role, "word") : j <= i})] = words[i].text
            /\ help = (With(role, "help") # {})
            /\ force = (With(role, "force") # {})

(* A destructive command runs its handler only for a call that says so itself: a
   word --force or -f that is no value and no argument, or force = true in the
   options of the Lua call; and a command that needs root only as root. *)
ForcedOnPurpose ==
  Handled =>
    /\ TheCommand.requires_root => call.root
    /\ TheCommand.safety = "RequiresForce" =>
         IF call.via = "commands" THEN \E e \in call.options : e.key = "force" /\ e.on
         ELSE \A words \in LineOf : With(Roles(words), "force") # {}

(* the entries whose words become arguments, and all arguments of the call *)
Listed == {e \in call.options : e.key \in {"args", "positionals"}}
GivenWords == ToSet(call.words) \cup UNION {ToSet(e.words) : e \in Listed}

(* the keys that name no option of the command *)
Reserved == {"args", "positionals", "meta", "allow-failure", "force", "help"}

TextsOf(words) == [i \in DOMAIN words |-> words[i].text]

(* In whatever order lua_next visits the table, the handler gets exactly the
   options of the Lua call, also those whose value looks like an option, and its
   words, when those do not start with a dash and no two keys of the table are
   spellings of one option. *)
LuaCallsRoundTrip ==
  /\ Handled /\ call.via = "commands"
  /\ \A w \in GivenWords : w.dash = 0
  /\ \A e, f \in call.options : e.key = f.key => e = f
  =>
    /\ \A e \in call.options : \A o \in SpecOf(e.key) :
         e.key \notin Reserved =>
           IF ~o.requires_value THEN (e.key \in DOMAIN values) = e.on
           ELSE values[e.key] = TextsOf(EntryText(e))
    /\ DOMAIN values \subseteq {e.key : e \in call.options}
    /\ positionals = TextsOf(lua.words \o call.words)
    /\ ToSet(lua.words \o call.words) = GivenWords

HelpWord(words) == \E i \in DOMAIN words : IsFlag(words[i], "help", "h")

(* The call asks for the help text, or main is given global flags only. *)
AsksForHelp ==
  CASE call.via = "commands" ->
         \/ HelpWord(call.words)
         \/ \E e \in call.options :
              \/ e.key = "help" /\ e.on
              \/ e.key \in {"args", "positionals"} /\ HelpWord(e.words)
    [] command = {}          -> \E i \in DOMAIN call.words : GlobalFlag(call.words[i])
    [] OTHER                 -> \E words \in LineOf : With(Roles(words), "help") # {}

AllowsFailure == \E e \in call.options : e.key \in {"meta", "allow-failure"} /\ e.on

(* A command whose handler has not done its work, and that was not asked for its
   help text, never ends as if it had: main and exec give a status other than 0,
   and commands.<name> raises unless the call allows failures. *)
FailuresAreTold ==
  phase = "end" /\ outcome # "done" /\ ~AsksForHelp =>
    /\ outcome = "lua error" \/ Status # 0
    /\ call.via = "commands" /\ ~AllowsFailure => Raises
=============================================================================
