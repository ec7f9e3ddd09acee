------------------------------ MODULE CommandTable ------------------------------
(* The commands of the nandworks tool: the table that nandworks.cpp,
   script_command.cpp and onfi_commands.cpp register (CommandRegistry does). Names
   are lower case here, as normalize makes them. *)
EXTENDS Naturals, Sequences, SequencesExt

Unlimited == 99     \* static_cast<std::size_t>(-1)

OptionSpec == [long : STRING, short : STRING, requires_value : BOOLEAN, required : BOOLEAN,
               repeatable : BOOLEAN]
CommandSpec == [name : STRING, aliases : Seq(STRING), options : Seq(OptionSpec),
                safety : {"Safe", "RequiresForce"}, min_positionals : Nat, max_positionals : Nat,
                requires_root : BOOLEAN, stops : BOOLEAN]

Option(l, s, takes, needed) ==
  [long |-> l, short |-> s, requires_value |-> takes, required |-> needed, repeatable |-> FALSE]
Switch(l, s) == Option(l, s, FALSE, FALSE)
Optional(l, s) == Option(l, s, TRUE, FALSE)
Required(l, s) == Option(l, s, TRUE, TRUE)
None == ""          \* no short name

Command(n, others, safety, options) ==
  [name |-> n, aliases |-> others, options |-> options, safety |-> safety,
   min_positionals |-> 0, max_positionals |-> 0,
   requires_root |-> TRUE, stops |-> FALSE]

(* no root user, no session, and words after the name *)
Tool(n, others, options, least, most, stops) ==
  [Command(n, others, "Safe", options) EXCEPT !.min_positionals = least,
     !.max_positionals = most, !.requires_root = FALSE, !.stops = stops]

Builtins == <<
  Tool("help", <<"?", "list">>, <<>>, 0, 1, FALSE),
  Tool("version", <<"about">>, <<>>, 0, 0, FALSE) >>

ScriptCommands == <<
  Tool("script", <<"lua">>, <<Switch("allow-unsafe", None)>>, 1, Unlimited, TRUE) >>

BlockAndPage == <<Required("block", "b"), Required("page", "p")>>
Spare == Switch("include-spare", "s")

ReadCommands == <<
  Command("probe", <<"onfi-info", "info">>, "Safe",
    <<Switch("jedec", None), Switch("bytewise", None), Switch("refresh", None)>>),
  Command("read-id", <<"id">>, "Safe", <<Switch("refresh", None)>>),
  Command("status", <<>>, "Safe", <<Switch("raw", None)>>),
  Command("parameters", <<"param">>, "Safe",
    <<Switch("jedec", None), Switch("bytewise", None), Switch("raw", None), Optional("output", "o")>>),
  Command("read-page", <<"read">>, "Safe",
    BlockAndPage \o <<Spare, Switch("bytewise", None), Optional("output", "o")>>) >>

BlockCommands == <<
  Command("program-page", <<"program">>, "RequiresForce",
    BlockAndPage \o <<Required("input", "i"), Spare, Switch("pad", None), Switch("verify", "v")>>),
  Command("read-block", <<"readb">>, "Safe",
    <<Required("block", "b"), Optional("pages", "p"), Spare, Switch("bytewise", None),
      Optional("output", "o")>>),
  Command("program-block", <<"programb">>, "RequiresForce",
    <<Required("block", "b"), Optional("pages", "p"), Optional("input", "i"), Spare,
      Switch("pad", None), Switch("verify", "v"), Switch("random", "r")>>),
  Command("verify-page", <<"vp">>, "Safe", BlockAndPage \o <<Spare, Optional("input", "i")>>),
  Command("verify-block", <<"vb">>, "Safe",
    <<Required("block", "b"), Optional("pages", "p"), Spare, Optional("input", "i")>>) >>

MaintenanceCommands == <<
  Command("erase-chip", <<"erase-all">>, "RequiresForce",
    <<Optional("start", None), Optional("count", None)>>),
  Command("scan-bad-blocks", <<"bad-blocks">>, "Safe", <<Optional("block", "b")>>),
  Command("set-feature", <<"feature-set">>, "RequiresForce",
    <<Required("address", "a"), Required("data", "d")>>),
  Command("get-feature", <<"feature-get">>, "Safe", <<Required("address", "a")>>),
  Command("reset-device", <<"reset">>, "Safe", <<>>),
  Command("device-init", <<"init">>, "Safe", <<>>),
  Command("wait-ready", <<"wait">>, "Safe", <<>>) >>

RawCommands == <<
  Command("raw-command", <<"cmd">>, "RequiresForce", <<Required("value", "v")>>),
  Command("raw-address", <<"addr">>, "RequiresForce", <<Required("bytes", "b")>>),
  Command("raw-send-data", <<"data">>, "RequiresForce", <<Required("bytes", "b")>>),
  Command("raw-read-data", <<"data-read">>, "Safe", <<Required("count", "c")>>),
  Command("raw-change-column", <<"column">>, "RequiresForce", <<Required("column", "c")>>) >>

TimedCommands == <<
  Command("measure-erase", <<"timed-erase">>, "RequiresForce",
    <<Required("block", "b"), Switch("json", None)>>),
  Command("measure-program", <<"timed-program">>, "RequiresForce",
    BlockAndPage \o <<Switch("include-spare", None), Option("input", "i", FALSE, TRUE),
                      Switch("pad", None), Switch("json", None)>>),
  Command("measure-read", <<"timed-read">>, "Safe",
    BlockAndPage \o <<Switch("include-spare", None), Optional("output", "o"), Switch("json", None)>>),
  Command("erase-block", <<"erase">>, "RequiresForce", <<Required("block", "b")>>) >>

OnfiCommands == ReadCommands \o BlockCommands \o MaintenanceCommands \o RawCommands \o TimedCommands

(* set_flags: every ONFI command needs root *)
SetFlags(cmds) == [i \in DOMAIN cmds |-> [cmds[i] EXCEPT !.requires_root = TRUE]]

Table == Builtins \o ScriptCommands \o SetFlags(OnfiCommands)

-----------------------------------------------------------------------------
(* What build_lookup asks of the options of a command, or no line of it is parsed:
   names that are not empty and not given twice. *)
Distinct(options) ==
  \A i, j \in DOMAIN options :
    /\ options[i].long # ""
    /\ i # j => /\ options[i].long # options[j].long
                /\ options[i].short # None => options[i].short # options[j].short

(* The keys register_command enters for a command. *)
Keys(command) == <<command.name>> \o command.aliases
=============================================================================
