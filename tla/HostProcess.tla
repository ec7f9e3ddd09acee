------------------------------- MODULE HostProcess -------------------------------
(* One process of the host at a time, and the GPIO library under it. A nandworks
   process reaches the pins through the HAL object of its DriverContext
   (DriverSession); an application (apps, examples) holds them through GpioSession
   objects and a HAL object of its own. Both take and release them by gpio_init and
   gpio_shutdown (Gpio). The start of a session takes two steps here: first the
   constructor of the HAL takes the pins, then get_started returns or throws. *)
EXTENDS DriverSession

CONSTANTS Sessions, Interfaces, Policies, DefaultPolicy, Masks

VARIABLES
  refcount, memory_locked, scheduler_elevated, prev_policy, affinity_pinned,
  prev_affinity_valid, prev_affinity, os, holder, before, spoiled,  \* see Gpio
  process,   \* "nandworks", an "application", or "ended"
  starting   \* the HAL of the driver is constructed, get_started still runs

G == INSTANCE Gpio

ASSUME HostAssumption == G!GpioAssumption

library == <<refcount, memory_locked, scheduler_elevated, prev_policy, affinity_pinned,
             prev_affinity_valid, prev_affinity, os, holder, before, spoiled>>
hostVars == <<vars, library, process, starting>>

HostInit == Init /\ G!Init /\ process = "ended" /\ starting = FALSE

-----------------------------------------------------------------------------
Launch ==
  /\ process = "ended"
  /\ process' \in {"nandworks", "application"}
  /\ G!NewProcess
  /\ UNCHANGED <<vars, starting>>

-----------------------------------------------------------------------------
(* nandworks *)

(* calls of the script and commands of main that may start the package *)
MayStart ==
  \/ MainCommand \/ RunCommand
  \/ StartSession \/ TimedOrGeometry \/ WithSessionEnters \/ WithSessionRefused

(* require_onfi makes the HAL object *)
HalConstructed ==
  /\ onfi = "none" /\ ~starting /\ (proc = "down" \/ InScript)
  /\ \E hal \in Interfaces : G!Construct(hal)
  /\ starting' = TRUE
  /\ UNCHANGED <<vars, process>>

(* std::make_unique throws, nothing has been constructed *)
HalThrows ==
  /\ onfi = "none" /\ ~starting
  /\ MayStart /\ onfi' = "none"
  /\ \E hal \in Interfaces : G!ConstructThrows(hal)
  /\ UNCHANGED <<process, starting>>

GetStartedReturns ==
  /\ starting /\ starting' = FALSE
  /\ MayStart /\ onfi' = "constructed"
  /\ UNCHANGED <<library, process>>

(* Mutant: onfi_ is let go without the destructor *)
HalLeaks == UNCHANGED library
HalDestroyed == \E hal \in Interfaces : G!Destroy(hal)

(* require_onfi_started throws the object away and passes the error on *)
GetStartedThrows ==
  /\ starting /\ starting' = FALSE
  /\ MayStart /\ onfi' = "none"
  /\ HalDestroyed
  /\ UNCHANGED process

(* all other steps: a session is used or closed, or there is none *)
DriverStep ==
  /\ ~starting
  /\ Next
  /\ IF onfi = "constructed" /\ onfi' = "none"
       THEN HalDestroyed
       ELSE onfi' = onfi /\ UNCHANGED library
  /\ process' = IF proc = "leaving" THEN "ended" ELSE process
  /\ UNCHANGED starting

Nandworks ==
  /\ process = "nandworks"
  /\ HalConstructed \/ HalThrows \/ GetStartedReturns \/ GetStartedThrows \/ DriverStep

-----------------------------------------------------------------------------
(* an application: its objects end before main returns, also by an exception *)
Application ==
  /\ process = "application"
  /\ G!ObjectStep
  /\ UNCHANGED <<vars, process, starting>>

ApplicationEnds ==
  /\ process = "application" /\ \A h \in G!Holders : holder[h] = "absent"
  /\ process' = "ended"
  /\ UNCHANGED <<vars, library, starting>>

(* an operator, while the process does not hold the pins *)
Operator ==
  /\ process # "ended"
  /\ G!OutsideChange
  /\ UNCHANGED <<vars, process, starting>>

HostNext == Launch \/ Nandworks \/ Application \/ ApplicationEnds \/ Operator

HostSpec == HostInit /\ [][HostNext]_hostVars

-----------------------------------------------------------------------------
(* The session and the library keep to their types, and the HAL of the driver
   holds the pins exactly while the driver has it or is starting with it: on every
   way out of a start, a session, a script or a process it lets go. *)
HostTypeOK ==
  /\ TypeOK /\ G!TypeOK
  /\ process \in {"nandworks", "application", "ended"} /\ starting \in BOOLEAN
  /\ process # "application" =>
       refcount = IF starting \/ onfi = "constructed" THEN 1 ELSE 0
  /\ process = "ended" => refcount = 0 /\ onfi = "none" /\ ~started

(* see Gpio *)
Balanced == G!Balanced
HoldersHavePins == G!HoldersHavePins
LastOneRestores == G!LastOneRestores

(* Inside the callback of with_session, unless code inside shut the driver down
   itself, the package is started, the pins are mapped and the process is
   real-time (README.md: with_session "ensures the driver is started before your
   code runs"). No inner with_session, command, script or error takes the session
   or the pins of an outer one away. *)
SessionInsideCallback ==
  \A i \in DOMAIN frames :
    frames[i].kind = "session" /\ ~frames[i].closed =>
      started /\ os.mapped /\ os.policy = "fifo"

=============================================================================
