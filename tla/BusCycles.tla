------------------------------ MODULE BusCycles -----------------------------
(***************************************************************************)
(* What the pin driver promises about the bus: the package latches the     *)
(* cycles of each call, in order and each once, and nothing else; the      *)
(* bytes a call reads are the bytes the package put out, in order.  Between *)
(* the death of a process and the next session at most one data cycle may  *)
(* slip through, and never a command or an address.                        *)
(***************************************************************************)
EXTENDS Naturals, Sequences

CONSTANT Bytes

VARIABLES
  phase,      \* "off" without a session, "idle" between two calls, "call"
  wanted,     \* the cycles the call has to deliver
  asked,      \* how many bytes it has to read
  latched,    \* the cycles the package has latched since the call began
  handed      \* the bytes read, as positions in the package's output

busVars == <<phase, wanted, asked, latched, handed>>

Cycle == [kind : {"command", "address", "data"}, byte : Bytes]

Init ==
  /\ phase = "off" /\ wanted = <<>> /\ asked = 0
  /\ latched = <<>> /\ handed = <<>>

Begin ==
  /\ phase = "idle" /\ phase' = "call"
  /\ wanted' \in Seq(Cycle) /\ asked' \in Nat
  /\ latched' = <<>> /\ handed' = <<>>

Latch ==
  /\ phase = "call" /\ Len(latched) < Len(wanted)
  /\ latched' = Append(latched, wanted[Len(latched) + 1])
  /\ UNCHANGED <<phase, wanted, asked, handed>>

Hand ==
  /\ phase = "call" /\ Len(handed) < asked
  /\ handed' = Append(handed, Len(handed) + 1)
  /\ UNCHANGED <<phase, wanted, asked, latched>>

End ==
  /\ phase = "call" /\ phase' = "idle"
  /\ latched = wanted /\ Len(handed) = asked
  /\ UNCHANGED <<wanted, asked, latched, handed>>

Die ==
  /\ phase # "off" /\ phase' = "off"
  /\ wanted' = <<>> /\ asked' = 0
  /\ UNCHANGED <<latched, handed>>

(* A new process prepares the pins and begins a session. *)
Prepare ==
  /\ phase = "off"
  /\ latched' = <<>> /\ handed' = <<>>
  /\ UNCHANGED <<phase, wanted, asked>>

Stray ==
  /\ phase = "off" /\ latched = <<>>
  /\ Len(latched') = 1 /\ latched'[1].kind = "data"
  /\ UNCHANGED <<phase, wanted, asked, handed>>

Start ==
  /\ phase = "off" /\ phase' = "idle"
  /\ UNCHANGED <<wanted, asked, latched, handed>>

Next == Begin \/ Latch \/ Hand \/ End \/ Die \/ Prepare \/ Stray \/ Start

Spec == Init /\ [][Next]_busVars
=============================================================================
