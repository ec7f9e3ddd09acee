------------------------------ MODULE CommandRegistry ------------------------------
(* register_command of src/src/driver/command_registry.cpp, key by key: a command
   is stored and its name entered before its aliases are tried, and the first key
   already taken throws out of main with the command half entered. *)
EXTENDS CommandTable

CONSTANT Tables    \* tables of commands that may be registered, by their name

ASSUME RegistryAssumption ==
  \A t \in DOMAIN Tables :
    /\ Tables[t] \in Seq(CommandSpec)
    /\ \A i \in DOMAIN Tables[t] : Distinct(Tables[t][i].options)

VARIABLES
  table,       \* the name of the table main registers
  stored,      \* the size of commands_: the commands of the table stored so far
  lookup,      \* lookup_: key -> index in commands_
  pending,     \* aliases of the last command still to enter
  registration \* "open", "ready", or "terminated" by the exception

registry == <<table, stored, lookup, pending, registration>>

(* the commands main registers, and those in commands_ *)
Wanted == Tables[table]
commands == SubSeq(Wanted, 1, stored)

RegistryInit ==
  /\ table \in DOMAIN Tables
  /\ stored = 0 /\ lookup = <<>> /\ pending = <<>> /\ registration = "open"

(* Mutant: the index is taken after push_back *)
EnteredAfterPush(key) ==
  [k \in DOMAIN lookup \cup {key} |-> IF k = key THEN stored' + 1 ELSE lookup[k]]
Entered(key) == [k \in DOMAIN lookup \cup {key} |-> IF k = key THEN stored' ELSE lookup[k]]

Throws ==
  /\ registration' = "terminated"
  /\ UNCHANGED <<table, lookup, pending>>

RegisterAlias ==
  /\ registration = "open" /\ pending # <<>>
  /\ UNCHANGED stored
  /\ IF Head(pending) \in DOMAIN lookup
       THEN Throws
       ELSE /\ lookup' = Entered(Head(pending)) /\ pending' = Tail(pending)
            /\ UNCHANGED <<table, registration>>

(* the next command of the table, when the one before it is in place *)
NextCommand ==
  IF registration = "open" /\ pending = <<>> /\ stored < Len(Wanted)
  THEN {Wanted[stored + 1]} ELSE {}

(* Mutant: the command is stored before its name is checked *)
StoreThenCheck ==
  \E command \in NextCommand :
    /\ stored' = stored + 1
    /\ IF command.name \in DOMAIN lookup
         THEN Throws
         ELSE /\ lookup' = Entered(command.name) /\ pending' = command.aliases
              /\ UNCHANGED <<table, registration>>

RegisterName ==
  \E command \in NextCommand :
    IF command.name \in DOMAIN lookup
      THEN Throws /\ UNCHANGED stored
      ELSE /\ stored' = stored + 1
           /\ lookup' = Entered(command.name) /\ pending' = command.aliases
           /\ UNCHANGED <<table, registration>>

Ready ==
  /\ registration = "open" /\ pending = <<>> /\ stored = Len(Wanted)
  /\ registration' = "ready"
  /\ UNCHANGED <<table, stored, lookup, pending>>

(* find: the index of the command entered under a name, at most one *)
Find(name) == {lookup[key] : key \in DOMAIN lookup \cap {name}}

Register == RegisterName \/ RegisterAlias \/ Ready

-----------------------------------------------------------------------------
(* The lookup never points past the stored commands. *)
RegistryTypeOK ==
  /\ table \in DOMAIN Tables /\ registration \in {"open", "ready", "terminated"}
  /\ stored \in 0..Len(Wanted)
  /\ \A key \in DOMAIN lookup : lookup[key] \in 1..stored
=============================================================================
