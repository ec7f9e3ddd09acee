------------------------------ MODULE MCCommandLine ------------------------------
EXTENDS CommandLine

-----------------------------------------------------------------------------
(* The table of the program, and all tables of two commands, and of three without
   aliases, over three names that may collide. A table is named by the names and
   aliases of its commands, that of the program by the empty sequence. *)
Names == {"a", "b", "c"}
Claims(most) == UNION {[1..k -> Names] : k \in 1..most}
TableNames == {<<>>} \cup UNION {[1..2 -> Claims(3)], [1..3 -> Claims(1)]}
AllTables ==
  [n \in TableNames |->
     IF n = <<>> THEN Table ELSE [i \in DOMAIN n |-> Command(n[i][1], Tail(n[i]), "Safe", <<>>)]]

-----------------------------------------------------------------------------
(* Every line of at most four words for three commands. *)
Glued(text, dash, name, value) == [text |-> text, dash |-> dash, name |-> name, glued |-> <<value>>]
Short(name) == [text |-> "-" \o name, dash |-> 1, name |-> name, glued |-> <<>>]
Line(root, words) == [via |-> "main", root |-> root, name |-> "", words |-> words, options |-> {}]
Exec(root, name, words) == [via |-> "exec", root |-> root, name |-> name, words |-> words, options |-> {}]

Words == {Dashes, Long("help"), Short("f"), Short("v"), Word("w"),
          Long("value"), Long("start"), Glued("--value=w", 2, "value", "w"),
          Glued("-v0", 1, "v", "0"), Long("allow-unsafe"), Glued("--allow-unsafe=w", 2, "allow-unsafe", "w")}
Upto(n) == UNION {[1..k -> Words] : k \in 0..n}

LineCalls ==
  {Line(TRUE, <<Word(n)>> \o ws) : n \in {"raw-command", "lua", "erase-chip"}, ws \in Upto(4)}
  \cup {Line(FALSE, ws) : ws \in Upto(2)}
  \cup {Line(FALSE, <<Word(n)>> \o ws) : n \in {"help", "raw-command"}, ws \in Upto(2)}
  \cup {Exec(root, n, ws) : root \in BOOLEAN, n \in {"raw-command", "none"}, ws \in Upto(3)}

-----------------------------------------------------------------------------
(* Calls of commands.<name> with at most three entries in the options table. *)
Entry(key, type, words, on) == [key |-> key, type |-> type, words |-> words, on |-> on]
Flags(key) == {Entry(key, "boolean", <<>>, on) : on \in BOOLEAN}
Entries ==
  UNION {Flags("force"), Flags("help"), Flags("allow-unsafe"), Flags("allow-failure"),
    {Entry("meta", "list", <<>>, on) : on \in BOOLEAN},
    {Entry("value", "text", <<w>>, FALSE) : w \in {Word("1"), Long("help"), Dashes}},
    {Entry("value", "list", [i \in 1..k |-> Word("1")], FALSE) : k \in 0..2},
    {Entry("value", "boolean", <<>>, TRUE), Entry("start", "text", <<Word("0")>>, FALSE),
     Entry("args", "list", <<Word("path")>>, FALSE), Entry("args", "text", <<Word("path")>>, FALSE)}}

OptionTables == {t \in {{}} \cup {{a, b, c} : a, b, c \in Entries} :
                   \A a, b \in t : a # b => a.key # b.key}

ScriptCalls ==
  {[via |-> "commands", root |-> root, name |-> n, words |-> ws, options |-> t] :
     root \in BOOLEAN, n \in {"raw-command", "erase-chip", "script"},
     ws \in {<<>>, <<Word("w")>>, <<Long("help")>>}, t \in OptionTables}

-----------------------------------------------------------------------------
(* The example lines of docs/driver_cli.md and README.md *)
Ask(n, options, words) == Line(TRUE, <<Word(n)>> \o options \o words)
Set(n, value) == <<Long(n), Word(value)>>
BlockPage == Set("block", "10") \o Set("page", "4")
Force == <<Long("force")>>

Examples == {
  Ask("help", <<>>, <<Word("read-page")>>), Ask("probe", <<>>, <<>>), Ask("read-id", <<>>, <<>>),
  Ask("status", <<Long("raw")>>, <<>>), Ask("scan-bad-blocks", Set("block", "42"), <<>>),
  Ask("parameters", Set("output", "onfi.bin"), <<>>), Ask("wait-ready", <<>>, <<>>),
  Ask("read-page", BlockPage \o <<Long("include-spare")>> \o Set("output", "page.bin"), <<>>),
  Ask("read-block", Set("block", "10") \o Set("pages", "0-3") \o Set("output", "block10.bin"), <<>>),
  Ask("raw-read-data", Set("count", "32"), <<>>),
  Ask("program-page", BlockPage \o Set("input", "payload.bin") \o <<Long("verify")>>, Force),
  Ask("program-block", Set("block", "10") \o Set("pages", "0-3") \o <<Long("random")>>, Force),
  Ask("erase-block", Set("block", "10"), Force),
  Ask("erase-chip", Set("start", "0") \o Set("count", "2048"), Force),
  Ask("set-feature", Set("address", "0x01") \o Set("data", "0x04,0x00,0x00,0x00"), Force),
  Ask("raw-command", Set("value", "0x90"), Force), Ask("raw-address", Set("bytes", "0x00,0x00,0x00"), Force),
  Ask("raw-send-data", Set("bytes", "0xAA,0x55"), Force), Ask("measure-erase", Set("block", "10"), Force),
  Ask("measure-read", BlockPage \o Set("output", "read.bin"), <<>>),
  Ask("verify-page", BlockPage \o Set("input", "payload.bin"), <<>>),
  Ask("verify-block", Set("block", "10") \o Set("pages", "0-3") \o Set("input", "payload.bin"), <<>>),
  Ask("reset-device", <<>>, <<>>), Ask("device-init", <<>>, <<>>),
  Ask("script", <<>>, <<Word("workflows/probe.lua"), Dashes, Word("device0")>>),
  Ask("script", <<Long("allow-unsafe")>>, <<Word("tools/dump.lua")>>) }

AllCalls == [n \in TableNames |-> IF n = <<>> THEN LineCalls \cup ScriptCalls \cup Examples ELSE {}]
=============================================================================
