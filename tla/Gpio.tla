---------------------------------- MODULE Gpio ----------------------------------
(* The GPIO library as src/src/gpio.cpp uses it: gpio_init maps the pins, locks
   memory, makes the process real-time and pins it to one CPU; gpio_shutdown
   undoes this when the last holder lets go. Holders are the GpioSession objects
   of the apps and the HAL objects (interface), which call gpio_init in their
   constructor. Everything runs in one thread, so a call is one step; what makes
   it hard is that every system call inside may fail. *)
EXTENDS Naturals, FiniteSets

CONSTANTS
  Sessions,     \* GpioSession objects
  Interfaces,   \* HAL objects, which throw when gpio_init fails and cannot move
  Policies,     \* ordinary scheduling policies
  DefaultPolicy,\* SCHED_OTHER
  Masks         \* CPU masks other than the single pinned CPU

GpioAssumption ==
  /\ IsFiniteSet(Sessions) /\ IsFiniteSet(Interfaces)
  /\ Sessions \cap Interfaces = {}
  /\ "fifo" \notin Policies /\ "error" \notin Policies /\ DefaultPolicy \in Policies
  /\ "pinned" \notin Masks /\ "none" \notin Masks

VARIABLES
  refcount,              \* g_init_refcount
  memory_locked,         \* g_memory_locked
  scheduler_elevated,    \* g_scheduler_elevated
  prev_policy,           \* g_prev_policy with g_prev_param; "error" is -1
  affinity_pinned,       \* g_affinity_pinned
  prev_affinity_valid,   \* g_prev_affinity_valid
  prev_affinity,         \* g_prev_affinity; "none" after CPU_ZERO
  os,                    \* what the kernel holds: [mapped, policy, affinity]
  holder,                \* each object: "absent", "active" or "inactive"
  before,                \* history: policy and affinity before the pins were taken
  spoiled                \* history: a query or a restore that was needed failed

flags == <<memory_locked, scheduler_elevated, prev_policy, affinity_pinned,
           prev_affinity_valid, prev_affinity>>
vars == <<refcount, flags, os, holder, before, spoiled>>

Holders == Sessions \cup Interfaces
Active == {h \in Holders : holder[h] = "active"}

TypeOK ==
  /\ refcount \in Nat
  /\ memory_locked \in BOOLEAN /\ scheduler_elevated \in BOOLEAN
  /\ prev_policy \in Policies \cup {"fifo", "error"}
  /\ affinity_pinned \in BOOLEAN /\ prev_affinity_valid \in BOOLEAN
  /\ prev_affinity \in Masks \cup {"pinned", "none"}
  /\ os \in [mapped : BOOLEAN, policy : Policies \cup {"fifo"},
             affinity : Masks \cup {"pinned"}]
  /\ holder \in [Holders -> {"absent", "active", "inactive"}]
  /\ before \in [policy : Policies \cup {"fifo"}, affinity : Masks \cup {"pinned"}]
  /\ spoiled \in BOOLEAN

Init ==
  /\ refcount = 0
  /\ memory_locked = FALSE /\ scheduler_elevated = FALSE
  /\ prev_policy = DefaultPolicy
  /\ affinity_pinned = FALSE /\ prev_affinity_valid = FALSE
  /\ prev_affinity = "none"
  /\ os \in [mapped : {FALSE}, policy : Policies, affinity : Masks]
  /\ before = [policy |-> os.policy, affinity |-> os.affinity]
  /\ spoiled = FALSE
  /\ holder = [h \in Holders |-> "absent"]

(* A process that starts after another has the file-scope state afresh, and the
   policy and the CPUs of its shell. *)
NewProcess ==
  /\ refcount' = 0
  /\ memory_locked' = FALSE /\ scheduler_elevated' = FALSE
  /\ prev_policy' = DefaultPolicy
  /\ affinity_pinned' = FALSE /\ prev_affinity_valid' = FALSE
  /\ prev_affinity' = "none"
  /\ os' \in [mapped : {FALSE}, policy : Policies, affinity : Masks]
  /\ before' = [policy |-> os'.policy, affinity |-> os'.affinity]
  /\ spoiled' = FALSE
  /\ holder' = [h \in Holders |-> "absent"]

-----------------------------------------------------------------------------
(* gpio_init *)

AddReference ==
  /\ refcount > 0
  /\ refcount' = refcount + 1
  /\ UNCHANGED <<flags, os, before, spoiled>>

(* mlockall only warns, and is not tried again once it has worked *)
LocksMemory == memory_locked' \in {memory_locked, TRUE}

(* bcm2835_init fails before anything has happened *)
MappingFails == refcount = 0 /\ UNCHANGED <<refcount, flags, os, before, spoiled>>

(* the scheduler cannot be asked or set: the pins are unmapped again *)
ElevationFails ==
  /\ refcount = 0
  /\ LocksMemory
  /\ prev_policy' \in {os.policy, "error"}
  /\ UNCHANGED <<refcount, scheduler_elevated, affinity_pinned,
                 prev_affinity_valid, prev_affinity, os, before, spoiled>>

(* Mutant: the policy to go back to is asked for after it has been changed *)
SavePolicyLate == prev_policy' = "fifo"
SavePolicy == prev_policy' = os.policy

(* Both affinity calls only warn. *)
PinCpu(asked, pinned) ==
  IF affinity_pinned
  THEN UNCHANGED <<affinity_pinned, prev_affinity_valid, prev_affinity, spoiled>>
       /\ os' = [os EXCEPT !.mapped = TRUE, !.policy = "fifo"]
  ELSE /\ prev_affinity' = IF asked THEN os.affinity ELSE "none"
       /\ prev_affinity_valid' = (prev_affinity_valid \/ asked)
       /\ affinity_pinned' = pinned
       /\ os' = [mapped |-> TRUE, policy |-> "fifo",
                 affinity |-> IF pinned THEN "pinned" ELSE os.affinity]
       /\ spoiled' = (spoiled \/ (pinned /\ ~asked))

TakePins ==
  /\ refcount = 0
  /\ LocksMemory
  /\ SavePolicy
  /\ \E asked, pinned \in BOOLEAN : PinCpu(asked, pinned)
  /\ scheduler_elevated' = TRUE
  /\ refcount' = 1
  /\ before' = [policy |-> os.policy, affinity |-> os.affinity]

GpioInitSucceeds == AddReference \/ TakePins
GpioInitFails == MappingFails \/ ElevationFails

-----------------------------------------------------------------------------
(* gpio_shutdown *)

NothingToRelease == refcount = 0 /\ UNCHANGED <<refcount, flags, os, before, spoiled>>

DropReference ==
  /\ refcount > 1
  /\ refcount' = refcount - 1
  /\ UNCHANGED <<flags, os, before, spoiled>>

(* the last one: both restoring calls only warn *)
ReleasePins ==
  /\ refcount = 1
  /\ refcount' = 0
  /\ LET restores_policy == scheduler_elevated /\ prev_policy # "error"
         restores_mask == affinity_pinned /\ prev_affinity_valid
     IN \E policy_ok, mask_ok \in BOOLEAN :
          /\ os' = [mapped |-> FALSE,
                    policy |-> IF restores_policy /\ policy_ok THEN prev_policy ELSE os.policy,
                    affinity |-> IF restores_mask /\ mask_ok THEN prev_affinity ELSE os.affinity]
          /\ spoiled' = (spoiled \/ (restores_policy /\ ~policy_ok)
                                 \/ (restores_mask /\ ~mask_ok))
  /\ scheduler_elevated' = FALSE
  /\ affinity_pinned' = FALSE
  /\ prev_affinity_valid' = FALSE
  /\ prev_policy' = DefaultPolicy
  /\ UNCHANGED <<memory_locked, prev_affinity, before>>

(* Mutant: the early return for a count still above zero is dropped *)
GpioShutdownAtOnce ==
  \/ NothingToRelease
  \/ /\ refcount > 0
     /\ refcount' = refcount - 1
     /\ os' = [os EXCEPT !.mapped = FALSE, !.policy = prev_policy]
     /\ UNCHANGED <<flags, before, spoiled>>
GpioShutdown == NothingToRelease \/ DropReference \/ ReleasePins

-----------------------------------------------------------------------------
(* GpioSession and interface objects *)

ConstructInactive(s) ==      \* throw_on_failure = false
  /\ s \in Sessions /\ holder[s] = "absent"
  /\ GpioInitFails
  /\ holder' = [holder EXCEPT ![s] = "inactive"]

ConstructThrows(h) ==
  /\ holder[h] = "absent"
  /\ GpioInitFails
  /\ UNCHANGED holder

Construct(h) ==
  /\ holder[h] = "absent"
  /\ GpioInitSucceeds
  /\ holder' = [holder EXCEPT ![h] = "active"]

(* Mutant: the moved-from session keeps its reference *)
MovedFromStaysActive(s, t) == [holder EXCEPT ![t] = holder[s]]
Moved(s, t) == [holder EXCEPT ![t] = holder[s], ![s] = "inactive"]

MoveConstruct(s, t) ==
  /\ holder[s] # "absent" /\ holder[t] = "absent"
  /\ holder' = Moved(s, t)
  /\ UNCHANGED <<refcount, flags, os, before, spoiled>>

MoveAssign(s, t) ==
  /\ s # t /\ holder[s] # "absent" /\ holder[t] # "absent"
  /\ IF holder[t] = "active"
     THEN GpioShutdown
     ELSE UNCHANGED <<refcount, flags, os, before, spoiled>>
  /\ holder' = Moved(s, t)

Destroy(h) ==
  /\ holder[h] # "absent"
  /\ IF holder[h] = "active"
     THEN GpioShutdown
     ELSE UNCHANGED <<refcount, flags, os, before, spoiled>>
  /\ holder' = [holder EXCEPT ![h] = "absent"]

(* The profiler calls gpio_shutdown before it has any holder. *)
BenchmarkGpioInit == Active = {} /\ GpioShutdown /\ UNCHANGED holder

(* Outside the process: an operator may use chrt or taskset between sessions. *)
OutsideChange ==
  /\ refcount = 0
  /\ \E p \in Policies, m \in Masks : os' = [os EXCEPT !.policy = p, !.affinity = m]
  /\ before' = [policy |-> os'.policy, affinity |-> os'.affinity]
  /\ spoiled' = FALSE
  /\ UNCHANGED <<refcount, flags, holder>>

ObjectStep ==
  \/ \E h \in Holders : Construct(h) \/ ConstructThrows(h) \/ Destroy(h)
  \/ \E s \in Sessions : ConstructInactive(s)
  \/ \E s, t \in Sessions : MoveConstruct(s, t) \/ MoveAssign(s, t)
  \/ BenchmarkGpioInit

Next == ObjectStep \/ OutsideChange

Spec == Init /\ [][Next]_vars

-----------------------------------------------------------------------------
(* The reference count of gpio.cpp is the number of objects that believe they
   hold the pins, whatever was moved, assigned or failed to construct. *)
Balanced == refcount = Cardinality(Active)

(* While any object holds the pins they are mapped and the process is real-time:
   no other object's end, and no failed attempt, may take that away. *)
HoldersHavePins ==
  Active # {} => os.mapped /\ os.policy = "fifo" /\ scheduler_elevated

(* Once nobody holds the pins they are unmapped, and the process runs under the
   policy and on the CPUs it had before, unless a system call refused to say or
   to restore them (gpio.hpp: gpio_shutdown "Restore scheduler state and release
   bcm2835 resources when finished."). *)
LastOneRestores ==
  Active = {} =>
    /\ ~os.mapped
    /\ ~spoiled => os.policy = before.policy /\ os.affinity = before.affinity
=============================================================================
