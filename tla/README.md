# NANDWorks, specified

TLA+ modules for the NANDWorks driver (the repository this directory belongs
to), the TLC configurations that model-check them and the TLAPS proofs of what
matters most. Source paths below are relative to the repository.

## 1. The system and its parts

NANDWorks drives one raw NAND package from the GPIO pins of a Raspberry Pi. One
thread, scheduled SCHED_FIFO, toggles pins; the package answers on the data bus
and on the R/B# line. There are no interrupts: everything that
happens concurrently happens between that thread and the NAND package, which
works on its own once it has been given a command, and keeps working when the
process is gone.

| Part | Source | State it keeps | Operations |
| --- | --- | --- | --- |
| NAND package (external) | none | cells, job under way, R/B#, status, address and page registers, output mode | command, address and data cycles; completion |
| Pin driver (HAL) | `src/microprocessor_interface.cpp` | pin levels and directions, WP# among them | `send_command`, `send_addresses`, `send_data`, `wait_ready_blocking`, pin defaults |
| `onfi_interface` | `src/onfi/erase.cpp`, `program.cpp`, `read.cpp`, `init.cpp`, `onfi_interface.cpp` | `erase_enabled_`, geometry, `interface_type`, `flash_chip` | erase, program, partial erase and program, read, features, status, start-up |
| `OnfiController`, `NandDevice` | `src/onfi/controller.cpp`, `device.cpp` | none (a copy of the geometry) | the same operations without WP# handling; block loops |
| Timed commands | `src/onfi/timed_commands.cpp` | none | erase, program, read with a measured busy window and timeouts |
| Session | `src/driver/driver_context.cpp`, `src/scripting/lua_engine.cpp` | started flag, parameter type; the Lua call stack | start, re-read parameters, shut down; `with_session` |
| GPIO and scheduler | `src/gpio.cpp` | reference count, saved scheduler and affinity, locked memory | init, shutdown, `GpioSession` |
| Commands | `src/driver/commands/onfi_commands.cpp`, `src/onfi/device.cpp` | none; the plan and buffer of the command under way | one handler per CLI command, page loops |
| CLI | `nandworks.cpp`, `src/driver/cli_parser.cpp`, `command_registry.cpp`, the dispatch of `lua_engine.cpp` | registry, the line being parsed | register, look up, parse, dispatch |
| Identification | `src/onfi/identify.cpp`, `param_page.cpp`, `address.cpp` | none | decode IDs, parameter pages and addresses |

How they meet. A command handler or a Lua script asks the session for a started
`onfi_interface`; the first request runs `get_started`. The handler then reaches
the array through one of three families of functions: the *legacy* members of
`onfi_interface` (used by the apps and examples), `NandDevice` (*device*, used by
`erase-block`, `program-page`, `read-page`) or `onfi::timed` (*timed*, used by
`measure-*` and Lua). All three share the pins, WP# and the package, and differ
in what they wait for and in who drives WP#:

| | drives WP# | before the command | after the confirm | status decides the result |
| --- | --- | --- | --- | --- |
| legacy | `enable_erase` / `disable_erase` | erase waits for R/B#, program does not | waits for R/B# high | no, only logged |
| device | never | nothing | waits for R/B# high, twice | yes, FAIL bit |
| timed | `enable_erase` / `disable_erase` | waits 5 ms, then throws | sees R/B# low (5 ms), then high (1 s) | yes, with the busy window |

What is hard here: the race between a command and the fall of R/B#; the status
byte, which belongs to the last write and not to this one; data output, which a
status read redirects; WP#, a level that outlives every call and is assumed by
one family and lowered by the two others; processes that die in the middle and
leave a package at work; waits without a timeout. Above the bus it is mostly
failure half-way: a system call of `gpio_init`, a start, a page of a block, an
alias of a command, a Lua error four calls deep; and boundaries: 16-bit fields, fixed
address lengths, one pass over a command line. `PROJECT.json` lists these
hazards at the lines where they bite, with the properties aimed at each.

## 2. The modules

| Module | Models |
| --- | --- |
| `NandTarget` | the NAND package, external, as the driver uses it |
| `OnfiArrayOps` | all three families of functions, session start, device-init, reset, set-feature, status and raw 0xFF, composed with `NandTarget` |
| `OnfiArrayOpsInv` | the invariants that explain why the properties of `OnfiArrayOps` hold: `Inv` for a prompt R/B#, `LateInv` for a late one |
| `OnfiArrayOps_proofs` | type correctness, the two invariants and the properties of the runs |
| `FlashStore` | abstract: what a caller may rely on about the array |
| `OnfiArrayOpsStore` | the refinement mapping from `OnfiArrayOps` to `FlashStore` |
| `OnfiArrayOpsStore_proofs` | the proof of that refinement |
| `NandBus` | the pin driver, pin by pin, with the package's side of the bus |
| `BusCycles` | abstract: what the pin driver promises about the bus |
| `Gpio` | `gpio_init`, `gpio_shutdown` with every system call that may fail, `GpioSession` and HAL objects |
| `DriverSession` | `DriverContext`, the commands and Lua calls that start, re-read and close it, the Lua call stack |
| `HostProcess` | the two composed: processes of the tool and of applications, one after another |
| `CommandTable` | the table of commands and options, data |
| `CommandRegistry` | `register_command` and `find` |
| `CommandLine` | `main`, `parse_command_arguments`, `exec` and `commands.<name>`, on top of the registry |
| `BlockOps` | the page and block commands, page by page over an array |
| `Addressing` | parameter page, stored geometry, address bytes, transfer lengths |
| `NandBus_proofs`, `HostProcess_proofs`, `CommandLine_proofs`, `BlockOps_proofs`, `Addressing_proofs` | the proofs about these modules, for every value of their constants |
| `MC...` | constants for TLC, one module for each of `OnfiArrayOps`, `NandBus`, `HostProcess`, `CommandLine`, `BlockOps`, `Addressing` |

They stack. `NandBus` refines the single step that `OnfiArrayOps` makes of a bus
transaction (`KeepsBusPromise`); `OnfiArrayOps` settles what one operation on the
package comes to (`KeepsStorePromise`), which `BlockOps` takes as one step, with a
FAIL that may strike any of them; `Addressing` says which page the bytes of such an
operation name; `CommandLine` says which command runs with which arguments, and
`HostProcess` under which session it runs.

### NandTarget

`array` holds one content per page: a payload, `"erased"` or `"corrupt"`.
`activity` is the job under way and `rb` the line. While a job runs, every
command but READ STATUS and RESET is ignored. `Begin` lowers R/B# with the
command, except for the jobs in `LateBusy`, whose line falls later (`RbFalls`);
the driver polls without a delay, so a package with a long tWB is one of them.
`CmdConfirm` with WP# low changes no cell and clears FAIL; the package may or may
not show a busy pulse. `CmdReset` aborts a write and leaves its cells
`"corrupt"`. `Completes(pass)` ends a job; a write may fail, which sets FAIL and
spoils its cells. A job may also never complete: no fairness is built in.

### OnfiArrayOps

A call is a record (family, kind, page, payload), and each kind of call is the
tuple of its phases, one tuple per function: `LegacyEraseBlock` is
`onfi_interface::erase_block`, `TimedReadPage` is `onfi::timed::read_page` and so
on. A phase is one wait, one bus transaction or one WP# decision, and one action:

| Phase | Action | Code |
| --- | --- | --- |
| `mark_enabled` | `MarkEnabled` | `initialize_onfi` sets `erase_enabled_` |
| `pins` | `PinsInactive` | `set_pin_direction_inactive`, which raises WP# |
| `enable`, `disable` | `EnableErase`, `DisableErase` | with their early returns |
| `setup`, `load`, `confirm` | `SendSetup`, `Load`, `SendConfirm` | 0x60/0x80/0x00, address and data cycles, 0xD0/0x10/0x30 |
| `status`, `sample` | `SendStatus`, `Sample` | 0x70, then one byte by `get_data` |
| `fetch` | `Fetch` | `get_data` of a page |
| `reset`, `identify`, `feature` | `SendReset`, `SendIdentify`, `SendFeature` | 0xFF, 0xED and 0xEC, SET FEATURES |
| `await` | `AwaitReady` | `wait_ready_blocking`, or the `gpio_read(GPIO_RB)` loops of `identify.cpp` |
| `guard` | `GuardPasses`, `GuardThrows` | `wait_for_ready_high` |
| `assert`, `release` | `BusySeen`, `BusyMissed`, `ReadySeen`, `ReadyTimesOut` | the two loops of `measure_busy_cycle` |

`Invoke` starts any call at any time (a session begins with `start`), `Return`
reports, and `ProcessEnds` is both an orderly shutdown and a death at any phase:
no pin moves and the package keeps working. `seen` is what the call has learnt,
`verdict` what its caller was told, `applied` a history variable: the writes the
package completed with PASS since the call began.

Two choices deserve a word. `BusyMissed` (the 5 ms of the first loop pass with
the line high) requires that no job is still to lower the line: tWB is at most
100 ns by every ONFI part, 5 ms cannot pass inside it. And a process that ends
inside a phase ends at its boundary: what a half-finished bus cycle does to the
package is the subject of `NandBus`.

### FlashStore and the mapping

`FlashStore` is what a caller is promised: the array changes only by a write
somebody asked for, at most once, in one step and only on its cells; a write
whose caller was told nothing may still land after the caller has gone; success
is said only of a write that took place. `OnfiArrayOpsStore` maps the call and
the package to it: the pending write is the caller's until the confirm command
and the package's afterwards (`Pending`).

### NandBus and BusCycles

One level below: `send_command`, `send_addresses`, `send_data`, `get_data` and
the pins of `device_initialization`, on the asynchronous interface. A function is
a head, one body per byte and a tail, each a tuple of single pin writes
(`SendCommand`, `GetData`, ...), and every pin write is an action: `SetPin`,
`DirectPin` (`gpio_set_direction`; a pin that becomes an output shows whatever
its latch holds), `DirectDQ`, `SetDQ`, `ReadDQ`, `AwaitReady`. `Invoke` calls the
functions in any order, as the `raw-*` commands do; `ProcessEnds` may come
between any two pin writes, and the next process begins with
`device_initialization` over the pins as they were left, or over the arbitrary
pins of a board that has just booted. The package (external) latches a cycle when
WE# rises with CE# low, puts a byte out while CE# and RE# are low, and may go busy
after any command. The eight DQ pins move as one. Its reset (`reset_device`) is one
more `send_command`.

`BusCycles` is the promise: the package latches the cycles of a call in order,
each once, and nothing else; the bytes handed out are those the package put out,
in order; after the death of a process one data cycle may slip through before the
next session, never a command or an address. That last clause is the code as it
is: `set_pin_direction_inactive` raises WE# before CE#, so a process that died
with both low clocks in one byte. A data cycle alone starts no job.

`OnfiArrayOps` takes each of these functions as one step; `KeepsBusPromise` is
what makes that fair.

### Gpio

The nine file-scope variables of `gpio.cpp` are nine variables (`prev_policy` stands
for policy and priority), the kernel's side is `os`. `gpio_init` is `AddReference`,
`TakePins`, `MappingFails` and `ElevationFails`: `mlockall` and the two affinity calls
only warn, `bcm2835_init` and the scheduler calls end it. `gpio_shutdown` is
`NothingToRelease`, `DropReference` and `ReleasePins`. Objects are holders: a
`GpioSession` may be constructed active, inactive or throwing, moved, assigned over
another (itself excluded, as in the code) and destroyed; a HAL object takes the pins
in its constructor and cannot be moved. `OutsideChange` is an operator's `chrt` or
`taskset` between two sessions. `before` and `spoiled` are history.

### DriverSession and HostProcess

`frames` is the Lua call stack as the session sees it: scripts, `with_session`
callbacks and the script's own `pcall`s. `Require` is `require_onfi_started`, with
its three cases (not started, started with another type, started with this one) and
what the caller reads by itself. A `with_session` frame remembers `started_here`; it
closes on return (`FrameReturns`) and on an error (`SessionRethrows`); a script frame
turns an error into the status 6 of the script command (`ScriptFails`), which its
caller raises or not. `DriverShutdown` may come at any depth.

`HostProcess` puts `Gpio` under it (`G == INSTANCE Gpio`). The start of a session
takes two steps: `HalConstructed` takes the pins, then `GetStartedReturns` or
`GetStartedThrows`, which destroys the object again; `HalThrows` is the constructor
that fails. A process is `nandworks`, whose only holder is that HAL object, or an
`application`, whose holders may do anything objects can do and are gone before
`main` returns. Each `Launch` begins with fresh file-scope variables.

### CommandTable, CommandRegistry, CommandLine

The table lists every command with its aliases, options, arity, safety and root flag.
`RegisterName` and `RegisterAlias` enter one key a step, since a duplicate throws
between two of them. A call is made once the registry is complete (`Accept`), by
`main` (`MainStarts`: global flags, `--verbose` taken out wherever it stands), by
`exec` or by `commands.<name>`, whose options table `DispatchEntry` visits in any
order, as `lua_next` does. The parser takes one word a step: `ParseFlag`,
`ParseOption`, `ParseOptionThrows`, `ParsePositional`; `Invoke` makes the final
checks and runs the handler, which may fail. A word is a record with its text, its
dashes, the name after them and the value glued to it: splitting the text at `=` is
the one thing left out. `RegistryAssumption` gives the tables their types and says what
`build_lookup` insists on, that no two options of a command share a name;
`CallAssumption` gives the calls theirs.

The exit codes of a handler that did not do its work are one outcome, "failed": the
properties ask whether a failure is told, not which one it was.

`ParsesByRoles` compares the parser with a second definition that does not follow it:
`Roles` gives every word of a whole line its purpose (`RoleOf`: from the word before and
from what has ended the options). Words and the values of a repeatable option are
compared one by one, in the order of the line. `LuaCallsRoundTrip` does the same for a
Lua call: the values of an option are the texts of its table entry, a switch is set when
its entry is true, and the arguments are those of the table and of the call. It speaks of
calls whose arguments do not start with a dash and in whose table no two keys are
spellings of one option: the line that `lua_command_dispatch` builds has no `--`, and
the order of `lua_next` would decide between the two. For the same reason a word
`--help` in a Lua call asks for help, and `AsksForHelp` counts it.

### BlockOps

A page is a main byte and a spare byte out of 0, 1 and 2 (0x00, some value between,
0xFF); programming stores the lesser of old and new. A command is a record of its
arguments (`Given`: the ones the option parser lets through), `Refused` the checks of its
handler, an `--input` that cannot be opened (`Unreadable`) among them. Its steps (erase,
program, read, compare, look at the mark, ask for the status) are its plan: `EraseBlockPlan`,
`EraseChipPlan`, `ProgramPlans`, `VerifyPlan`, `ReadPlan`, `ScanOnePlan`, `ScanAllPlan`, among
which `Plans` chooses; `program_block` sorts its list, and `Sorted` says what a sort does.
`Buffers` is what
it programs and `Expected` what it compares with; they are different functions in the
code and are kept apart here. Each step is an action; an erase or a program may FAIL
with or without effect (`Outcome`); `Killed` may come between any two steps. None of these
commands drives WP#, which whatever ran before may have left low (`protected`, chosen anew
for each command): the package then refuses the writes and answers them without FAIL, as in
`OnfiArrayOps`.

### Addressing

`read_parameters` fills the geometry from a `ParameterPage`: `ParseGeometry` with the
fallbacks of `param_page.cpp`, then `Narrow`, the 16-bit fields; `Place` is the weight
of a byte in a number. `Address` is
`to_col_row_address` in 32 bits. The sixteen functions that address the array, those for
TLC parts among them, differ in the length of their buffer, the first byte they send and how
many they send; each is one `Layout` under its own name. The timed functions and the commands
that use `NandDevice` check the block and the page (`Checked`); the members of
`onfi_interface`, and the functions of `NandDevice` that no command uses, take what they are
given (`Unchecked`) and are called past the geometry too, by up to `Beyond`. A timed transfer
throws when its length exceeds 16 bits; the others cut it (`Transfer`). The package takes what
it needs (`Reached`: the set of rows it may mean, more than one when row bytes are missing).
An address that `to_col_row_address` writes, or `send_addresses` reads, past its buffer
(`WritesPast`, `SendsPast`) is undefined behaviour and ends the behaviour (`undefined`).

## 3. Runs

Constants of the `ops_*` runs: one block of two pages and one or two payloads. One block is enough
for writes to collide (erase against the pages of its block, program against
program), two pages tell an addressed page from another, two payloads tell an
overwritten page from one programmed twice with the same data. Calls follow one
another without a bound: there is no counter in the model, and its state space
is finite as it stands.

| Run | Functions in the session | Bus | Shows |
| --- | --- | --- | --- |
| `ops_device` | device, driver | asynchronous | `SuccessIsReal`, `FailureIsReal`, `ReadReturnsThePage` |
| `ops_guarded` | legacy, timed, driver | asynchronous | `Inv`, `CommandsNeedIdleTarget`, `WPStableDuringWrites`, `KeepsStorePromise` |
| `ops_late_busy` | timed, driver, raw | toggle, late R/B# for erase, program and read | `SuccessIsReal`, `ReadReturnsThePage`, `FlagKnowsWP`, `ThrowsBeforeItWrites`, `WPStableDuringWrites` |
| `ops_liveness` | all | asynchronous | `CallsEnd` |
| `bus_pins` | `NandBus` | asynchronous | `TypeOK`, `NoContention`, `StartUpIsQuiet`, `ReadsWaitForReady`, `KeepsBusPromise` |
| `doc_erase_block` | device, timed | asynchronous | violates `EraseBlockErases` |
| `doc_reset_timeout` | driver | asynchronous, package may stop answering | violates `ResetEnds` |

`ops_device` and `ops_guarded` are apart because the two styles of write do not
mix: a timed or legacy write leaves WP# low, the device functions never raise
it, and the package refuses their writes without setting FAIL. `doc_erase_block`
shows the session: a timed erase, then `erase-block`, which prints "Erase
successful." over a block that still holds its data (`docs/driver_cli.md`
promises that it "Erases a single block and waits for completion."). One shell
invocation per command does not meet this, since every start raises WP#; a Lua
script that uses both does.

`ops_late_busy` is the robustness of the timed functions: they watch R/B# fall
before they watch it rise, so a late line and a raw reset under way cannot make
them report a success that was none. The legacy and device functions do not have
this protection, which is why they are checked with a prompt line. It is also the run in
which `wait_for_ready_high` gives up: it throws after `enable_erase` has raised WP#, so that
`disable_erase` never runs and the array stays open. That is what the code does;
`FlagKnowsWP` says that `erase_enabled_` stays set with it, so that the next guarded write
neither skips a wait nor leaves WP# where it is, and `ThrowsBeforeItWrites` that nothing of
the call has reached the cells or can still do so.

`doc_reset_timeout` sets a comment of `reset_device` ("just wait for ready with a
timeout") against `wait_ready_blocking`, which has none.

`bus_pins` has two byte values, 0x00 (what an idle bus shows) and another, and
calls of up to three bytes: a first, a middle and a last one, each with its own
neighbours in the loop. Calls and deaths are unbounded.

Fairness. `CallsEnd` assumes weak fairness of the host's steps (one SCHED_FIFO
thread whose loops have no other way out) and of the package's (every job ends).
Nothing is assumed about callers: no call need ever start. `ResetEnds` is refuted
under fairness of the host alone, since a package that never answers is the case
a timeout is for.

Above the bus:

| Run | Module | Bounds | Shows |
| --- | --- | --- | --- |
| `host_process` | `HostProcess` | Lua calls four deep (`MaxFrames`), two `GpioSession`s and one HAL object, two policies, one CPU mask besides the pinned one, a plain and a toggle TLC package | `HostTypeOK`, `Balanced`, `HoldersHavePins`, `LastOneRestores`, `SessionInsideCallback`, `NoSessionLeftBehind`, `GeometryAsAsked` |
| `command_lines` | `CommandLine` | the program's table, and every table of two or three commands over three names; every line of up to four words of eleven for three commands; script calls with up to three options; the documented examples | `TypeOK`, `FindsItsCommand`, `ParsesByRoles`, `ForcedOnPurpose`, `LuaCallsRoundTrip`, `FailuresAreTold` |
| `block_commands` | `BlockOps` | two blocks of two pages, two starting arrays, every command with lists in, out of order, repeated, empty and out of range, with readable and unreadable input, with WP# high and low, two commands in a row (`MaxCommands`) | `ExitZeroMeansDone`, `ComplaintsAreReal`, `EraseChipStopsAtFailure`, `ReadsInOrder`, `VerifyFindsRealFaults`, `OnlyAskedPagesChange` |
| `address_pages` | `Addressing` | bytes of four values (`Byte`), so that a word has 16 and every field overflows; fourteen packages; blocks and pages up to two past the geometry (`Beyond`); up to 17 values to a raw command (`MaxTokens`) | `ReachesTheAskedPage`, `LengthsAndColumnsArrive`, `ShortAddressesFit` |
| `doc_program_status` | `BlockOps` | one `program-block` on an erased block | violates `SuccessMeansNoFailure` |

Why the bounds are enough. Four frames hold a `with_session` inside a script inside a
`with_session` inside a script, or the same with a `pcall`: every pair of frame kinds
with one above and one below. Three holders are what a move between two sessions
beside a third party needs. Four words after the name hold an option, its value, a
`--` or `--help`, and an argument, in every order; the parser's state (`only_words`,
`values`, the first positional) is decided by fewer. Two commands in a row are one
that leaves the array in a state no command would, and one that meets it. Four values
for a byte make every carry, cut and wrap of three-byte rows and 16-bit fields occur
with pages that can be enumerated; the number of address bytes is the real one.

Deadlock is checked wherever the system goes on for ever (`ops_*`, `bus_pins`,
`host_process`). `command_lines`, `block_commands`, `address_pages` and
`doc_program_status` say `CHECK_DEADLOCK FALSE`: a registration or a command ends,
`MaxCommands` is reached, and an overrun has no next step that means anything.

`address_pages` states its preconditions by name: `Answers` (a parameter page that says
something and whose cycles can name all its pages) and `Serves` (a package of the shape the
function is written for: the functions with fixed lengths assume two column and three
row bytes). Among the fourteen packages are ones that meet neither, for which nothing
but `ShortAddressesFit`, the timed lengths and the raw counts is claimed. The 16-bit fields
are no precondition: when they cut the geometry of a package, what the bounds checks accept is
still one page of it, and the address names that page; only that it is the page *asked for*
needs the number of pages of a block to be whole. A length or a column that does not fit its
width may arrive cut, but never longer than it was asked for.

`ExitZeroMeansDone` is about the array where the command has looked at it (the verify and scan
commands, `--verify`) and about the answers of the package where it has not. So it asks for
WP# to be high when `erase-block`, `erase-chip` or `program-page` exits with 0 (under a low one,
`doc_erase_block` is the counterexample), and it says nothing of `program-block` without
`--verify` (`doc_program_status`).

Some of the hazards are behaviour of the code rather than something it avoids, and the
properties stop where it begins; the notes of `PROJECT.json` say so one by one. A page longer
than 16 bits, and a package whose 16-bit geometry leaves most of it without a name
(`controller.cpp:33`, `identify.cpp:183`), a count of more than 255 address bytes
(`onfi_commands.cpp:984`): cut, as the properties allow. More than five address cycles
(`param_page.cpp:60`): the buffers are overrun. `--include-spare --verify` without data
(`device.cpp:142`) and a `FileDataSink` that could not open its file (`data_sink.hpp:24`): left
out of `VerifyFindsRealFaults` and `ReadsInOrder`. A parameter page re-read behind
`DriverContext` (`driver_context.cpp:38`): the exception of `GeometryAsAsked`. What can be said
of these is said under the disagreements below.

Every property of a passing run has a mutant of the code that violates it; each
mutated definition stands before the original in its module, under a comment that
begins with "Mutant".

### Disagreements met while modelling, without a run

The models follow the code in each of these; the text they contradict is quoted by its
place. Paths are below `src/`.

- `src/onfi/init.cpp:110` and `:116` wait for R/B# to be high after 0xFF, not for it to
  fall first: on a package that is slow to lower it, the reset is still running.
- `include/microprocessor_interface.hpp:86` says the DQ values are not touched by the
  default pin values; the last call there drives 0x00.
- After `parameters --jedec` the session keeps the JEDEC geometry under the ONFI type
  (`src/driver/driver_context.cpp:38`); `docs/driver_cli.md:32` says `probe` prints ONFI
  geometry. `GeometryAsAsked` has this as its exception.
- `measure-program` requires `--input` (`src/driver/commands/onfi_commands.cpp:1469`;
  `docs/driver_cli.md:67`), `raw-change-column` requires `--force` (`:1435`;
  `docs/driver_cli.md:46`), and `block-mode` (`docs/driver_cli.md:57`) is not registered.
- `--` reaches the arguments of a script (`src/driver/cli_parser.cpp:68`;
  `docs/driver_cli.md:84`), and `main` takes every `-v` for `--verbose`, also the `-v` of
  `raw-command` (`nandworks.cpp:117`; `docs/driver_cli.md:91`).
- `allow_failure` does not cover the errors raised before the command runs
  (`src/scripting/lua_engine.cpp:738`; `README.md:96`).
- `program-block --include-spare --verify` without data always fails: the first spare byte is
  left at 0xFF and expected to be 0x00 (`src/onfi/device.cpp:142`).
- `verify-page` without `--input` compares with a null pointer (`src/onfi/device.cpp:170`;
  `docs/driver_cli.md:74`).
- The last `verify-block` of `random_cycle.lua` compares an erased block with 0x00
  (`src/onfi/device.cpp:193`).
- `read-block --output` writes a newline after each page of binary data
  (`src/onfi/device.cpp:112`), and a `FileDataSink` that could not open its file drops the
  data (`include/onfi/data_sink.hpp:23`).
- The address cycles are taken from the parameter page as they are; more than eight overrun
  every address buffer, more than five some (`src/onfi/param_page.cpp:60`;
  `include/onfi/address.hpp:10`).
- `raw-address` sends its count modulo 256 (`src/driver/commands/onfi_commands.cpp:984`).
- The two version decoders disagree on byte 4 (`src/onfi/identify.cpp:317`;
  `include/onfi/param_page.hpp:9`).

## 4. Proofs

Every safety property that a passing run checks is also a theorem, and so is the type
invariant of `OnfiArrayOps`, for every value of
the constants: any set of blocks, pages, payloads and bytes, any number of objects, any
table of commands, calls, lists and lines of any length. All that is assumed of the
constants are the `ASSUME`s of the modules, which give them their types and say what the
code around insists on; TLC evaluates them in the runs. The theorems about what a write or
a read comes to need more of the package and of the session, and state it as a hypothesis.

| Module | Theorems | State | Invariant |
| --- | --- | --- | --- |
| `OnfiArrayOps_proofs` | `TypeCorrect` | `[]TypeOK` | itself |
| | `FlagIsTrusted` | `[]FlagKnowsWP` | `FlagInv`, `GuardHolds` |
| | `CommandsMeetIdleTarget`, `WPIsStable` | `[]CommandsNeedIdleTarget`, `WPStableDuringWrites`, if `PlainBus` | `BusyOnlyWhereExpected`, `WPReleased` |
| | `InvHolds`, `SuccessfulWritesTookPlace`, `ReadsReturnThePage`, `FailuresTookPlace` | `[]Inv`, `[]SuccessIsReal`, `[]ReadReturnsThePage`, `[]FailureIsReal`, if `PlainBus` and `Unmixed` | `Inv` |
| | `LateInvHolds`, `LateSuccessIsReal`, `LateReadsReturnThePage`, `LateWPIsStable` | `[]LateInv`, `[]SuccessIsReal`, `[]ReadReturnsThePage`, `WPStableDuringWrites`, if `LateBus` | `LateInv` |
| | `ThrowsAreClean` | `[]ThrowsBeforeItWrites`, if `LateBus` | `LateInv`, `ThrowInv` |
| `OnfiArrayOpsStore_proofs` | `KeepsPromise` | `KeepsStorePromise`, if `PlainBus` and `Unmixed` | `Inv`, `OneWriteAtATime` |
| | `LateKeepsPromise` | `KeepsStorePromise`, if `LateBus` | `LateInv`, `OneWriteAtATime` |
| `NandBus_proofs` | `PinsKeepTypes`, `HostAndPackageApart`, `StartUpsAreQuiet`, `ReadsWait` | `[]TypeOK`, `[]NoContention`, `[]StartUpIsQuiet`, `ReadsWaitForReady` | `BusInv` |
| | `DriverKeepsPromise` | `KeepsBusPromise` | `BusInv` |
| `HostProcess_proofs` | `HostRunsSessions` | a host process is one of `DriverSession` | none |
| | `HostKeepsTypes`, `CountIsBalanced`, `PinsStayWithHolders`, `LastReleaseRestores`, `CallbackHasSession`, `SessionsAreClosed`, `GeometryFollowsPage` | `HostTypeOK`, `Balanced`, `HoldersHavePins`, `LastOneRestores`, `SessionInsideCallback`, `NoSessionLeftBehind`, `GeometryAsAsked` | `HostInv` |
| `CommandLine_proofs` | `RegistryFinds`, `LineTypes`, `WordsHaveOneRole`, `NothingForcedByChance`, `LuaCallsArrive`, `NoFailureIsSilent` | `FindsItsCommand`, `TypeOK`, `ParsesByRoles`, `ForcedOnPurpose`, `LuaCallsRoundTrip`, `FailuresAreTold` | `LineInv`, `TableInv` |
| `BlockOps_proofs` | `ZeroMeansDone`, `ComplaintsHaveReasons`, `ChipEraseStops`, `PagesReadInOrder`, `VerifyIsHonest`, `OtherPagesUntouched` | `ExitZeroMeansDone`, `ComplaintsAreReal`, `EraseChipStopsAtFailure`, `ReadsInOrder`, `VerifyFindsRealFaults`, `OnlyAskedPagesChange` | `BlockInv` |
| `Addressing_proofs` | `AddressesReachThePage`, `LengthsArrive`, `ShortAddressesAreSafe` | `ReachesTheAskedPage`, `LengthsAndColumnsArrive`, `ShortAddressesFit` | `AddressInv` |

`PlainBus` is a package whose R/B# is low at the host's next look and no `raw-command`, on
either interface for the legacy and device functions and on the asynchronous one when timed
functions are used (on a toggle bus their `get_data` reads the status of a target that may
still be at work; `LateBus` is for that). `Unmixed` says that a session uses the device functions or
the guarded ones, not both; `doc_erase_block` shows that it is needed. `LateBus` is the
setting of `ops_late_busy` for every set of blocks, pages and payloads: the timed functions,
with the calls that manage a session and raw resets, on either interface, where an erase, a
program or a read may lower R/B# at any time after its confirm.

**The array.** The phase tuples have a shape that is a fact about the source
alone (`Shape` in `OnfiArrayOps_proofs`): a confirm is preceded by its setup and
load, every phase that may leave the package at work is followed by one that
allows for it, a guarded write begins with `enable` and ends with `disable`, and
so on. On top of it, `Inv` ties the phase a call has reached to the package: the
package is at work only between sessions or in a phase that waits or looks
(`BusyOnlyWhereExpected`), where it shows on R/B#; WP# is high under every write
(`WPReleased`); after the confirm the package works on *this* write or has ended
it, and then FAIL and the cells agree (`WriteLanded`, `ReadLanded`,
`StatusSampled`). None of the properties is inductive without this: each speaks
of what a call reports, and says nothing about the steps before. `Inv` is checked
by TLC in `ops_guarded` and proved conjunct by conjunct. The refinement adds
`OneWriteAtATime`: a write under way is the one its call asked for, or was left
behind by a process that ended. What it needs besides is little (`StoreInv`: an idle,
well-informed target at every confirm, no write between two calls of a session), and
both invariants give it, so that the step-by-step argument is made once for two theorems.

**The late line.** Without `PlainBus` R/B# may be high over a target at work, and
`BusyOnlyWhereExpected` is false. `LateInv` says where that can happen (`WorkIsHidden`):
between two sessions, in a start before its reset, and while a timed function waits in
`assert` for the line to fall. Everywhere else a high line means an idle target, so that the
guard of a timed function (`wait_ready_blocking`) does what it is for. `TimedWriteRuns` and
`TimedReadRuns` say phase by phase what the target has been told; a success needs a measured
window, that is a line seen to fall and to rise, and by then the work is over. After a window
that was not measured, `disable_erase` still waits, because `enable_erase` has set
`erase_enabled_`: so WP# stays where it is until the write has ended, and
`WritesInPlace` follows: no write outlives a call that returns. `LateInv` holds in the
setting of `ops_late_busy`, and has been checked there by TLC before it was proved.

**Throws.** `FlagKnowsWP` speaks of the moments between two calls and is not inductive:
`FlagInv` adds that a set flag means a raised pin in every phase of a session, and that a start
has raised it once it is past `pins`; `GuardHolds` has what a guarded write has made of both
since its `enable`. Nothing is asked of the package, so that the theorem holds for any mixture
of functions and any bus. `ThrowsBeforeItWrites` needs `LateInv`: `ThrowInv` says that nothing
has been applied for a call that is still at or before its guard, and `WritesInPlace` that no
earlier write is still under way.

**The pins.** `BusInv` says where the pins stand for every kind of call and every step of
it: what WE#, RE#, ALE and CLE are in the head, the loop and the tail, how many of the
bytes have been latched or shown by then (`WriteOK`, `ReadOK`), and that the pins are at
rest between calls (`Rested`). The start-up is apart, since it begins over pins nobody
knows: `StartOK` says which pins are settled at each step, `DriveOrder` that the data bus is
driven only when all control pins are, and `QuietStart` that one data cycle is all it may
clock in. The refinement follows step by step: a pin write either lets
the package latch or show the next byte of the call, or changes nothing that `BusCycles`
sees.

**The host.** `HostInv` has a part for each of the two modules and one for what they
share. `FramesOK`: an open `with_session` frame has its session, and below a frame that
started the session every other one has lost its own; without it `SessionInsideCallback`
is not inductive, since closing a frame says nothing about those under it. `SavedOK`:
while the count is above zero, what is saved is what was before; at zero nothing is
saved. The count is the cardinality of the set of active holders (`HoldersOK`), and
in `nandworks` there is one exactly while a session is starting or started (`ProcessOK`).

**The command line.** `RegistryInv` says which keys are entered, in the order of the
table, and which are still pending. That `Roles` exists at all is the first lemma about
it (`RolesAre`): a recursive function in TLA+ is a choice, and a least counterexample
shows that there is something to choose. `ParserInv` then ties the parser to the roles:
the words taken are exactly the first n of the line, `only_words`, `help` and
`force` say what their roles say, no option among them is bad, and the k-th positional
and the k-th value of an option are those of the k-th word with that role (`Rank`). For a Lua
call the line is built first: the words an entry adds are pairs of an option and its
value, or a switch (`Groups`), they stay together in a block wherever `lua_next` puts them
(`Blocks`, `TableInv`), and so have the roles they were meant to have
(`WordsAfterGroups`), also a value that looks like an option. `EndInv` says what each
outcome implies.

**The commands.** `BlockInv` has a clause for each kind of command, about the steps still
to do: `EraseRun` (so many blocks of the count done, the others as they were),
`ProgramRun` (a page is programmed, still in the plan, or its failure is in `failed`;
programs come before the status, the status before the comparisons; of the
cells behind a low WP# nothing is said), `CompareRun`,
`ReadRun` (the output is a stride of bytes for each page read) and `ScanRun`. When
nothing is left to do, the clause is the property.

**Addresses.** A number below `Place[k]` is determined by its k lowest bytes
(`Addressing_proofs`, by a least counterexample again), so the bytes of a layout that has
all the bytes of a row name one page. `AddressInv` says that whatever was last sent was
built from the geometry that `read_parameters` has stored, and from a block and a page that
are in range if the function checks them.

Only model-checked, and why: `CallsEnd`, a liveness property under fairness, which
TLAPS does not prove; and the three refuted statements, each of which is a counterexample
and not a theorem. `FailureIsReal` is proved under `PlainBus` and
`Unmixed` only; it is about the device functions, which have no guard against a late line.

## 5. What is not modelled, and the plan

`PROJECT.json` lists every part with its status. Next: the order of the passes of the TLC page
programs of `program.cpp` and `device.cpp` (`Addressing` has their addresses and lengths), and
`verify_erase_block`.

Left out for good, and why:

- formatting, logging, hex dumps and clocks: no property depends on them, except the newlines
  and the silence of `FileDataSink`, which `BlockOps` has;
- the toggle branches of `send_data` and `get_data`: what they deliver depends on when the
  package samples and drives DQS, which nothing in the source settles (`OnfiArrayOps` has the
  toggle bus as far as R/B# goes: its `get_data` does not wait);
- `read_id` and its table of chips, the two version decoders, the strings and the remaining
  fields of the parameter pages, JEDEC offsets: tables of constants without state, of which the
  version is shown to the user and nothing else;
- the conversion of Lua tables and results (`lua_engine.cpp`): a data format of its own;
- the arithmetic of `--start` plus `--count` in 64 bits, which no device comes near;
- the vendored bcm2835 library, external;
- the applications, examples and tests: fixed sequences of the calls `OnfiArrayOps` and
  `HostProcess` make in every order; of the profiler only `benchmark_gpio_init` touches the
  reference count, and is `BenchmarkGpioInit`;
- in `OnfiArrayOps`: measured durations; `timed::read_page` with `fetch_data = false`;
  `PROFILE_TIME` and `DEBUG_ONFI` builds; the extra 0x00 that Toshiba parts get before a read,
  which announces the same job twice; payload and index checks, which refuse a call before it
  touches a pin.
