# cdbg: a verification project

cdbg is a source-level debugger for arm64 macOS, written in C. One process, one
thread: a REPL reads a command, calls into `debugger.c`, and that code drives the
debuggee through `ptrace`, `waitpid` and the Mach thread and memory calls. What is
hard about it is not in any single function. The process under control moves by
itself, every resume is followed by a wait that can end in four ways (the stop that
was expected, another stop, the end of the process, an error), waits are nested up
to four deep (`next` -> `step_over_call` -> `cdbg_continue` ->
`step_over_disabled_breakpoint`), and five pieces of state must agree across all of
it: `dbg->state`, `dbg->pid`, the breakpoint table with the BRK words it put into
the text, the watchpoint table with the debug registers of every thread, and
`current_tid` with the Mach suspend counts.

The other half of the program is what it tells its user. A line table and a symbol
table are read in several ways with fallbacks between them and are then relocated by a
slide that is asked of a process which may not be the right one yet; names, types and
expressions are resolved by several walks over the same debug information; and what
`print`, `set`, `up` and `watch` do with memory and registers goes through Mach calls
that may be refused half-way.

This project models the execution control completely, then the tables, the data
commands, and Ctrl-C at the grain of single system calls and assignments; it checks
them with TLC on small debuggees and images, and proves with TLAPS what the debugger
knows of its debuggee for every debuggee. Line numbers below are of `src/src/debugger.c` unless a file is named;
documents are under `src/docs/`.

## 1. Inventory

| Component | State | Operations | Must hold |
|---|---|---|---|
| Session lifecycle: `process.c`, `cdbg_run` 349, `run_to_entry_stop` 255, `cdbg_wait` 492, `stop_debuggee` 309, `report_process_exit` 1089, `main.c` | `state`, `pid`, `wait_status` | run, wait, kill, quit, exit report | the state machine of docs/02 section 4; exits reported once; nothing left of a dead process |
| Software breakpoints: `breakpoint.c`, 459-490, 591-636, 1065, 4331-4560 | `breakpoints[]` with saved words and flags; the text of the debuggee | break, del, hit, re-enable, temporary breakpoints | BRK words are exactly those of the enabled entries; none is run through |
| Hardware watchpoints: `watchpoint.c`, 1117-1284, 4504-4700 | `watchpoints[]`; WVR/WCR of every thread | watch, delwatch, arm, disarm, step past a hit | registers and table agree; no access missed; progress after a hit |
| Threads: `threads.c`, 1289-1325, 3454 | `current_tid`; the kernel's suspend counts | select, find who hit, freeze, release | the stepping thread can run; the selection names a thread |
| Execution commands: 510-576, 885-1023 | locals of nested calls | continue, si, step, next | commands end; breakpoints are passed and put back |
| Stop reports: `report_stop` 1327, the hit handlers | selection, tables | attribute and report a stop | the right thread and breakpoint, once |
| REPL and SIGINT: 31, 4739-4947 | `g_sigint_dbg` | dispatch, error handling, Ctrl-C | errors of a command do not lose the session |
| Registers, unwinding: `regs.c`, 1025, 3246-3330 | the threads' registers | get, set, up, tb | the walk ends; up shows callers |
| Memory: `memory.c` | page protections during a write | read, write with fallbacks | text is never left writable; a write changes its range and nothing else |
| Line table: `lineno.c` | rows in the order read, slide | load (dwarfdump, else the section), lookup by pc and line | the rows the compiler meant; the line whose code covers the pc |
| Symbols: `syms.c` | entries in the order read, slide | load (nm, nm on the dSYM, else Mach-O), lookup by name and pc | the function the pc is in |
| Expressions: `expr_eval.c` (with `expr.y`, `expr.l`) | none | evaluate to a place or a value | the value C gives, where unsigned 64-bit words can hold it |
| Variables, print, set: 1366-3180 | none | find, format, write | the declaration in scope, right width and sign; two walks over the DIEs agree |
| Parser, help, listings, leaks, generated code | none | text in, text out | not state |

How they interact. Everything is a synchronous call from the REPL; the only
asynchronous pieces are the debuggee's threads and the SIGINT handler. Shared state
is the one `cdbg_t`, the debuggee's memory and registers, and the suspend counts the
kernel keeps. `PROJECT.json` lists every component with its status, and under
`hazards` the places where this can go wrong in a way a test would hardly reach.

## 2. Modules

    Breakpoint  MachThreads  Watchpoint        operators: tables, BRK words, suspend
         \          |          /               counts, debug registers
                 Debuggee                      the traced process (the kernel's side)
                    |
                 Debugger                      cdbg_run, cdbg_wait, cdbg_continue,
                    |                          report_stop, the hit handlers
                SourceStep                     step and next
                    |
                  Repl                         the commands, Next, Spec, properties
               /    |     \
    DocClaims    (Lifecycle == INSTANCE        ReplProofs -> ControlProofs
        |         DebuggeeLifecycle)                 -> TrapProofs
      MCRepl

    LineHeader  LineLookup     Symbols         header bytes; the tables and their lookups
       |  \         |             |
       |   \---- LineLoad         |            how the line table gets into memory
       |             \           /
    HeaderLayout      Locations ---- LocationProofs -> TableProofs
       |    \            |                |    run, break, dis, list, frames
    MCHeaders \--- MCLocations      SequenceLemmas   lemmas about sequences, sets, folds

    Memory       Symbols                       bytes, pages, refused calls
      | \  \         |
      |  \  \---- Variables                    DIEs, types, find_local_var, show
      |   \           |
      |  Frames    ExprEval                    up and bt; expressions
      |     \         |
    Watch-   \    CReference                   what C says (used by properties only)
    Registers \       |
        \      \      |
         DataState    |                        set, up, watch, continue: any operands
          |      \    |
     DataProofs  DataCommands                  the expressions of set and watch; print, x
                      |
                   MCData

    Interrupt ------ InterruptProofs           Ctrl-C, run, continue, step, kill, quit

`Repl`, `Locations`, `DataCommands` and `Interrupt` are four specifications of
the same program from four sides. They are kept apart because each would multiply the
states of the others without changing what can go wrong: the tables do not move while
the process runs, the data commands see a process only at its stops, and where a signal
falls inside a system call sequence matters to `state` and `pid` only.

Execution control:

- `Breakpoint`: `cdbg_bp_enable`, `cdbg_bp_disable`, `cdbg_bp_is_trap`, the loop of
  `reenable_breakpoints_after_step`, table deletion. An instruction word is the
  program's own or BRK: a saved word always returns to the address it came from, so
  nothing else about it matters. What does matter is kept: a second breakpoint at
  the same address saves a BRK.
- `MachThreads`: `cdbg_threads_resolve_port` (0 is the first thread, an id that is
  gone resolves to nothing), `suspend_or_resume_others` (a selection that is gone
  suspends everybody; `thread_resume` on a thread that is not suspended does nothing).
- `Watchpoint`: slots, `find_free_watch_slot`, arming and disarming on all threads.
  A location stands for granule, byte mask and access kind.
- `Debuggee`: external. What the code relies on of the kernel: stops are of the whole
  process; PT_CONTINUE and PT_STEP let every unsuspended thread run; the
  ptrace-stopped thread is the one PT_STEP steps (comment 317-325, 562-566); a
  watchpoint exception comes before the access; debug registers and ESR are per
  thread, and a new thread has no register armed. Threads interleave by instruction.
  SIGINT (constant `Signals`) may stop the process before any instruction.
- `Debugger`, `SourceStep`: one action per stretch of code between two waits. A C
  call stack is represented by `at`, the wait the debugger is blocked in or has just
  returned from (`exec`, `entry`, `over`, `resumed`, `step`, `call`, `watch`), by `ret`,
  where `report_stop` returns to, and by `cmd`. `rc` is what `cdbg_wait` returned: 0,
  1 with IDLE (`exit`), or -1 with the process stopped (`fail`), which happens when
  `reenable_breakpoints_after_step` cannot read the selected thread. Every error
  path of these functions is a disjunct.
- `Repl`: one action per command that changes state. Commands refused with a message
  change nothing and are no actions. `eof` leaves the process as it is, `quit` kills it.
  `set $pc` may write any address of the program; `up` writes the return address of any
  call (the frame walk itself is in `Frames`).
- `DebuggeeLifecycle`: the abstract specification, the diagram of docs/02 section 4
  with the kernel's view of the process beside it. `Repl` implements it under
  `state <- state, proc <- IF run \in {"step", "cont"} THEN "running" ELSE run`.
- `DocClaims`: what documents and comments of the repository say and the runs refute.
- `MCRepl`: four six-instruction programs for TLC: a call with a loop and two
  stores; the same without loop; two whose main thread creates a thread.

Locations:

- `LineLookup` (`lineno.c` 1000-1351, `debugger.c` 3700-4330): a table is a sequence of
  rows in the order read and a slide; the lookups by pc, by line with and without a
  file, the next line after an address, file matching (a path is a pair of directory
  and name, `Substrings` the pairs where `strstr` finds one in the other).
- `LineHeader` (`lineno.c` 96-186, 352-601, 750-801): a header of `__debug_line` is a sequence of
  bytes with the string that begins at each. What `parse_line_table` makes of it: the
  directories and files it finds in versions 4 and 5, whether it accepts the header, and the byte
  at which it then enters the line-number program. Entries are functions of a position, so that
  theorems can be stated about them.
- `HeaderLayout`: external. The bytes a compiler writes for given directories and files:
  version 4; version 5 with strings in place or as offsets into `__debug_line_str`, with or without
  checksums.
- `MCHeaders`: headers of both versions in five layouts, each read back by `LineHeader`. `written`
  is what the last one was written from.
- `LineLoad` (`cdbg_lineno_load`): an image is units, each with the bytes of its header, what
  they stand for, and rows as the compiler meant them. dwarfdump's text is read row by row and may
  end at any row; then the rows are freed and `__debug_line` is interpreted, first the header, by
  `LineHeader`. A header that is refused fails the load. From one that is accepted the program may
  be entered where it begins; a byte early with an opcode that has no operand, which is executed
  before it; or elsewhere, and then any of the rows or the failure that the image gives for
  that (`astray`) come of it. In a program entered where it begins the assembler is free in
  how it encodes: any opcode that leads from the registers it has in mind (`meant`) to the row due
  may come next, and the code's own registers (`regs`) do what its `case` does.
- `Symbols` (`syms.c`): nm on the executable, then on the dSYM, then the Mach-O table,
  each of which may end early; which symbols are kept; lookup by name (with and without
  underscore) and by pc within `MaxSymbolOffset`.
- `Locations`: `run` as loading, `cdbg_spawn`'s first and `cdbg_run`'s second update of
  the slides (between them the process changes from a copy of cdbg to the image; the task
  port may be refused; `execv` may fail), `run_to_entry_stop`'s choice of address, `break`,
  `dis`, `list`, and the place and name given to a pc at stops and in `bt`.
- `MCLocations`: six images. `Joined`, two version 5 units that meet; `Gapped`, a version 4
  header that is refused, gaps and line 0; `Inlined`, two files in a unit and an early opcode, after a
  unit of version 3; `Swallowed`, a version 4 header accepted without its second file, then offsets
  into `__debug_line_str`; `Shifted`, a version 4 program entered too early; `Stripped`, no line table.
  `MCSpec` is `LocationsSpec` with, beside the debugger, a compiler that writes the headers of `MCHeaders`.

Data:

- `Memory` (`memory.c`): bytes and page protections; a write is the plain Mach write,
  else one with the protection of the first page changed, else `ptrace` byte by byte up
  to any byte; each may be refused where the code checks.
- `Variables` (1366-2420): debug information is a sequence of DIEs with depth, tag,
  type, range and location, including the null entries the code counts; `find_local_var`
  and `collect_show_vars` as the two walks they are; size, sign and members of a type.
- `ExprEval` (`expr_eval.c`): expressions are trees; every node kind and operator, as a
  place or as a value, on words of 8 bytes.
- `CReference`: not the program's. What C says about the same declarations and
  trees: scopes by nesting, types followed structurally, integers without a width. It is
  defined only where C and the debugger's representation can both say something, and its
  header lists the limits.
- `Frames` (`regs.c` 200-312, 1025, 3246-3330): `frame_record_next`, `cmd_backtrace`, and
  `cdbg_regs_frame_up`, which has a walk of its own.
- `WatchRegisters` (`watchpoint.c` 20-90): what a pair of WVR and WCR covers, and
  `cdbg_watch_addr_hit`.
- `DataState`: the data of a stopped process and what changes it: the end of set once
  place and value are known, set of a register, up, watch and delwatch with slots, the
  program's move to another stop and its accesses, trapped or not, with the hit
  handler's old and new values. The history variable `stale` holds the slots whose place
  was changed since the debugger last read it. `AnyDataSpec` is the specification in
  which set and watch get any address, size and value.
- `DataCommands`: the same with expressions: which place and value set and watch get,
  with every refusal; print in four formats with strings, arrays and structures; x. It
  implements `AnyDataSpec`, which the run `Data` checks.
- `MCData`: a program with variables of several types, nested blocks with one name
  twice, a structure pointer as argument, two functions, and symbols.

Ctrl-C:

- `Interrupt`: `at` is the next system call or assignment of `main`, `cdbg_run`,
  `stop_debuggee`, `cdbg_continue`, `cdbg_wait`, `step_over_disabled_breakpoint`, the loop of
  step and next, `report_process_exit` and `cdbg_repl`; the handler may run between any
  two. The child is what the kernel has (`forked`, `stopped`, `running`, `free`
  after PT_DETACH, `zombie`, `none`), with a
  pending SIGINT and an unreported change of state. Pids are numbered by runs, so an
  old one can be told from the present one.

## 3. Runs

| Run | What it asks | Size |
|---|---|---|
| `Breakpoints` | looping program with a call; two breakpoints anywhere, all execution commands, run twice: BRK words accounted for, none run through, exits told once, lifecycle refinement | 32 k states |
| `Watchpoints` | two watchpoints and a breakpoint, SIGINT before any instruction (also inside the internal steps): registers accounted for, no access missed, no BRK lost | 840 k |
| `Threads` | a thread is created and ends under every command, `thread`, `set $pc`, `up`: prompt state and registers still right | 1.7 M |
| `Progress` | fair runs of a program that may loop for ever, without a main symbol: commands come back, continue makes progress | 20 k |
| `Locations` | six images loaded header by header, opcode by opcode and symbol by symbol with every failure, several runs at two addresses; then break, dis, list and the location of every pc against what the compiler meant. Every header of up to two directories and two files in five layouts, read back byte by byte | 15 k |
| `Data` | every order of set, set of a register, up, watch, delwatch and accesses between stops: print and show against C, writes against the object they should change | 19 k |
| `Interrupt` | Ctrl-C between any two calls or assignments: whom the handler signals, what the prompt finds, that the prompt comes back | 1.5 k |
| `DocDeleted` | two breakpoints at one address (refutes docs/04:604) | violation |
| `DocRerun` | run after a hit stops at main (refutes docs/04:92) | violation |
| `DocStepHang` | siblings are left running (refutes the comment at 562) | violation |
| `DocExit` | an exit is reported (refutes docs/04:99) | violation |
| `DocReinstall` | a passed breakpoint is back (refutes docs/04:603) | violation |

Properties in `Repl`: `TypeOK`; `PromptAgrees`, state, process, pid and enabled
flags agree at every prompt; `TrapsAccounted`, the BRKs in the text are exactly the
enabled breakpoints and the temporary one; `NeverRunThrough`, PT_CONTINUE executes no
instruction that has a breakpoint; `WatchRegsAccounted`, an armed register belongs to
an enabled entry with that slot and location and no two share a slot;
`WatchNotMissed`, a watched access is only executed by the step after its report;
`ExitReportedOnce`; `LifecycleSpec`; `CommandReturns`, si, step and next end;
`ContinueProgress`, no instruction traps for ever.

In `Locations`: `RowsDecoded`, the table has the rows the compiler meant however they
are encoded and whatever failed first; `SlidesCurrent`, at the prompt both tables are
slid by where the image is; `LocatesRow`, a pc is shown with the line whose code it is in;
`BreakOnLine`, a breakpoint for a line is where code of that line begins; `LineFound`, it is not
refused for a line with code;
`BreakInBody`, one for a function, and the stop before main, is past its entry and inside
it; `FrameNamed`, a frame has the name of its function.

In `MCHeaders`: `InPlaceRead`, a version 5 header with its strings in place is read as it was
written; `OffsetsRead`, one with offsets too, if it has one directory and one file and the offsets
are below 128; `FirstNameRead`, the first name of an accepted version 4 header is right;
`SecondNameDecides`, which version 4 headers of one and of two files are accepted, and from which
of them the program is entered where it begins.

In `DataCommands` and `DataState`: `PrintIsValue`, print shows the value C gives; `VariablesAgree`, show
lists what is visible and show, print and x take the same place for it; `SetExact`,
set changes the bytes of the object and no other, also when it fails; `PagesKept`, no
page of text is left writable; `UpFollowsBt`, bt after up shows what it showed before
without the first frame, on a corrupt stack too; `UpIsCaller`, the registers after up are
those of the caller, at stops in a body that has a frame record; `AnyDataSpec`, a command does what `DataState` says for some place and
value, and both are words; `HitReported`, the program stops exactly at watched accesses and the entry
named was touched; `OldValueTrue`, the values told at a hit are those before and after.

In `Interrupt`: `StrikesChild`, the handler signals the child or nobody; `PromptTrue`,
the prompt finds state and pid as the process is and quit leaves no process;
`InterruptReturns`, a user who presses Ctrl-C gets the prompt back, except where the
debugger ends in the ways the property lists.

Where a property is claimed and where not. The code keeps four of the properties only
under conditions (section 6), which the theorems name as hypotheses and the runs meet.
`WatchNotMissed`: one thread (`OneThread`). `TrapsAccounted`: one thread, one breakpoint
per address (`OneEach`), and a user who does not write the pc by `set $pc` or `up` (`PcKept`);
`thread` may be given. `NeverRunThrough`: the same, no SIGINT (`Undisturbed`;
`DocReinstall` shows why), and no instruction that branches to itself (`NoSelfBranch`).
`ExitReportedOnce`: no watchpoints (`Unwatched`), and any number of threads.
`WatchNotMissed` and `TrapsAccounted` hold in spite of SIGINT. `PromptAgrees`,
`WatchRegsAccounted`, `TypeOK` and `LifecycleSpec` have no such limits.

`RowsDecoded` is claimed of images in which every header of version 4 or 5 is `Aligned`: its bytes
are accepted, and its program is entered where it begins (the cursor is at the end of a version 4
header; a version 5 header ends in the byte 1, which is executed as a copy). The others are in the run
and their rows are not claimed to be right: no row, rows that are shifted, or rows of `astray`.
`LocatesRow` and `BreakInBody` need rows the loader keeps (`Whole`) and no other row at
the same address (`Clear`), `LineFound` such rows and, of the interpreter's, another line than 1, which
a row at address 0 may have; for file names all four need a unit of one file (`OneFile`: it has a
directory and a file entry, every entry names the same file, and not as the reader names a
missing one; and for rows of the interpreter the header is read as that file, too). `BreakInBody` needs a function of two lines. `FrameNamed` needs symbols that tell (`SymbolsTell`): one at the
beginning of each function, no other inside it, and a function within the reach of the lookup.
`PrintIsValue` is claimed for the part of C in the header of
`CReference`; `VariablesAgree` leaves out names declared twice in scope; `OldValueTrue` leaves out
`stale` slots. Each limit is a place where the code does something else, and section 6
says what. `SlidesCurrent`, `SetExact`, `PagesKept`, `UpFollowsBt`, `HitReported`, `StrikesChild` and
`PromptTrue` have no limits but the bounds.

Bounds. `MaxTid`: thread ids handed out over all runs (2: two runs, or one run with two
threads). `MaxRuns` (1 or 2): two runs are what a stale selection or table needs.
`MaxBps` 1 or 2 and `MaxWps` 1 or 2 stand for CDBG_MAX_BREAKPOINTS and the slots: interference between
entries is between two. `HwSlots`: slots of the CPU. `StepLimit` 3 for
CDBG_MAX_STEP_ITERATIONS: low enough that a loop in one line reaches it.
`MaxSuspend`: commands that resume are given only while all suspend counts are at
most this; suspending once more than the code can release is reached with 1. The
programs are long enough for a call, a line of two instructions, an address without
line information, two accesses to a watched location and the end of a thread and of
the process.

`Locations`: `RowReach` 4 stands for 128 bytes and `MaxSymbolOffset` 16 for its limit, so that
addresses on both sides occur in images of 20 bytes. `LineRange` 3, `MinInst` 2,
`OpcodeBase` 13 and `MaxOpcode` 21 make special opcodes of both signs and of more than one
instruction. `Loads`: two addresses, so that a slide of the last run is wrong in the next;
`OwnBase` is where cdbg itself is mapped, whose copy the child is before `execv`.

`MaxDirs` and `MaxFiles` of its headers are 2, since what is read wrong in one entry is met in the next.
Names of 9 to 15 characters are those of which the 16 bytes skipped behind the first entry of
version 4 end inside, at the end of, or behind the second; a name of 3 is too short for them.
Offsets are below and above 128.

`Data`: bytes of one bit (`ByteBits`) keep every width, sign, offset and mask at its real
number of bytes while a word has 256 values, enough to overflow and to be an
address; pages of 16 bytes are met by a word across two of them. `MaxSets`, `MaxUps` 1 and
`MaxCount` 3 bound how often memory or registers change (what the debugger answers is
looked at in every state); `MaxWps` 2 of the slots; `MinReturn` 16 stands for 0x1000
and `MaxFrames` 5 for the limit of bt, with a stack whose last record is not mapped.

`Interrupt`: `MaxRuns` 2, for a pid of an earlier run; `StepLimit` 2.

Fairness (`FairSpec`, used by `Progress` only). Weak fairness of `DebuggerStep`: cdbg
is a sequential program, when it can go on it does. Weak fairness, for each thread, of
trapping or executing its next instruction: a runnable thread is scheduled. SIGINT
is never required. `UserSpec` adds strong fairness of `CmdContinue` for a user who always
returns to continue; `ContinueProgress` is a claim about such a user only. `FairSpec` of
`Interrupt`: weak fairness of the debugger, of the child reaching its exec stop, of the
kernel delivering a pending SIGINT to a running child, and of the user pressing Ctrl-C
while a command waits, because the property is about that user. None for the program
to reach a breakpoint or to end.

Deadlock is checked in all passing runs but `Threads` and `Data`: with several threads the
real debugger can hang in `waitpid`, which is what `DocStepHang` shows; in `Data` behaviours
end when the counts do.

## 4. Proofs

| Theorem | Module | For every program, command set and bound |
|---|---|---|
| `TypeCorrect` | `ReplProofs` | `Spec => []TypeOK` |
| `Controlled` | `ControlProofs` | `Spec => []Control`, the inductive invariant |
| `PromptCorrect` | `ControlProofs` | `Spec => []PromptAgrees` |
| `LifecycleCorrect` | `ControlProofs` | `Spec => LifecycleSpec`, the refinement |
| `ExitTold` | `ControlProofs` | `Unwatched`: `Spec => ExitReportedOnce` |
| `WatchRegsCorrect` | `ControlProofs` | `Spec => []WatchRegsAccounted` |
| `WatchesCaught` | `ControlProofs` | `OneThread`: `Spec => WatchNotMissed` |
| `TrapsCorrect` | `TrapProofs` | `OneThread`, `OneEach`, `PcKept`: `Spec => []TrapsAccounted` |
| `NoneRunThrough` | `TrapProofs` | these, `Undisturbed`, `NoSelfBranch`: `Spec => NeverRunThrough` |
| `InterruptInvariant` | `InterruptProofs` | `Spec => []Inv`, the inductive invariant of `Interrupt` |
| `StrikesCorrect` | `InterruptProofs` | `Spec => []StrikesChild` |
| `PromptStaysTrue` | `InterruptProofs` | `Spec => []PromptTrue` |
| `SlidesCorrect` | `LocationProofs` | `LocationsSpec => []SlidesCurrent` |
| `DecodingCorrect` | `LocationProofs` | `LocationsSpec => []RowsDecoded` |
| `FramesNamed` | `LocationProofs` | `SymbolsTell`: `LocationsSpec => []FrameNamed` |
| `RowsLocated` | `TableProofs` | `RowsTell`: `LocationsSpec => []LocatesRow` |
| `LinesBroken` | `TableProofs` | `RowsTell`: `LocationsSpec => []BreakOnLine` |
| `BodiesBroken` | `TableProofs` | `RowsTell`, `NamesTell`: `LocationsSpec => []BreakInBody` |
| `WriteTouchesItsRange` | `DataProofs` | what each outcome of `cdbg_mem_write` leaves |
| `TrapsAreWatched` | `DataProofs` | the debug registers trap exactly the watched bytes |
| `DataInvariant` | `DataProofs` | `AnyDataSpec => []DataInv`, the inductive invariant |
| `PagesCorrect` | `DataProofs` | `AnyDataSpec => PagesKept` |
| `HitsReported` | `DataProofs` | `AnyDataSpec => HitReported` |
| `ValuesTold` | `DataProofs` | `AnyDataSpec => OldValueTrue` |
| `UpCorrect` | `DataProofs` | `AnyDataSpec => UpFollowsBt` |

Assumptions. The named ASSUMEs on the constants say what a program, an image or a memory is,
and TLC evaluates them in every run: `Start` is an address, `Succ` gives each address a
successor, the return address of a call is not the call (it is pc + 4), bounds and sizes are
positive (`DebuggeeAssumption` to `ReplAssumption`, `InterruptAssumption`, `MemoryAssumption`);
rows of an image lie on instructions and the end of a sequence repeats its last file and
line, a header has a string for each byte and in version 5 at least one byte
(`LineLoadAssumption`); pages are whole granules, memory is mapped by whole pages, and the
program touches only what is mapped (`DataAssumption`). Nothing is assumed of
the number of threads, breakpoints, watchpoints, rows, symbols or frames, nor of what
memory holds.

Where the code itself keeps a property only under conditions, they are hypotheses of the
theorem, each with a behaviour of the code behind it:

- `OneThread`: a thread that is created later has no debug register armed until a watchpoint is
  hit, and it runs through a breakpoint another thread is stepping over.
- `OneEach`: a second breakpoint at an address saves the BRK of the first (`DocDeleted`).
- `PcKept`: after a hit the entry is off until the thread leaves its address. With `set $pc` the
  thread is elsewhere at once; `next` over a call that returns to the address puts its
  temporary BRK there, the entry is put back at the next stop and saves that BRK as the
  program's word. TLC finds this when `setpc` is added to the commands of `Breakpoints`.
- `Undisturbed`: a SIGINT in the step over a breakpoint leaves it out (`DocReinstall`).
- `NoSelfBranch`: the BRK is put back when the pc has changed, and after a branch to itself it
  has not.
- `Unwatched`: an exit in the step past a watchpoint is announced twice.
- `RowsTell`: what a linker writes. No code is at address 0, every sequence of rows ends with an end
  row, which does not stand alone and is not below the row before it. The interpreter runs the 1 a
  version 5 header ends in as a DW_LNS_copy and may leave a row at address 0, which must not be
  taken for code; without an end row the last line of a unit would reach into the next one. `MCLocations` asserts it of its images.
- `NamesTell`: a symbol with the name of a function is at its beginning. `break name` takes the
  first symbol of that name, so that with static functions of one name in two files it stops in one
  of them. `MCLocations` asserts it of its images.
- `SymbolsTell`: the lookup gives the nearest symbol below, whatever it is. `MCLocations`
  asserts it of its images.

The argument. The first part of `ReplProofs` says what each operator on tables, words, registers
and suspend counts returns; the second uses them, one lemma per group of actions, for
types. `PromptAgrees` speaks of the prompt alone and is not inductive: that the
process is stopped when a command returns follows from what the waits left behind. The
strengthening `Control` (`ControlProofs`) has two parts. `Phase` ties `state`, `rc`, `run`
and `pid` together at every point of every command: RUNNING exactly while a wait is
pending, STOPPED exactly when the process is stopped and was waited for, IDLE exactly
when it is reaped; a wait that returned `exit` left IDLE and any other STOPPED. `Cleared`
says that a prompt without a process has pid 0 and nothing enabled: every path that
reaches it goes through `report_process_exit` or `stop_debuggee`. `Control` was checked with
TLC on the `Breakpoints` and `Threads` instances before it was proved. The refinement
follows from `Control`: `Resume` of the abstract machine needs `state = "STOPPED"`, which is
`Phase` at the points where the code resumes.

`ExitReportedOnce` is about the step that comes back to the prompt with the process gone. `Untold`
says where on the way there the exit cannot have been announced: in every wait, in the check
of the loop and in the report, `exits` is 0. With watchpoints the step past a hit announces it
inside a wait, and `Untold` is false.

`WatchRegsAccounted` speaks of live threads and is not inductive either: a thread that
starts must not find registers armed. `Fresh` (`ControlProofs`) adds that live ids are among
those handed out and that ids not handed out have no register armed. The operator lemmas
carry the rest: a watchpoint in a free slot disturbs no entry, deleting an entry moves
the others down with their slots, and step_past_all_watchpoints takes out and puts
back only what the enabled entries say. `Control` is needed where the process ends: a
table is disabled only when there is no register left.

`WatchNotMissed` needs more than the registers agree: an entry must not be disarmed while the program
runs freely. `Guarded` (`ControlProofs`): outside the wait of step_past_all_watchpoints every
entry is armed in every live thread, and in that wait the selected thread is the one that is
there, so the arming behind it cannot fail.

`TrapProofs`. `Sound` relates text, table and temporary breakpoint: the BRKs are those of the enabled
entries and of the temporary one; no enabled entry saved a BRK; the temporary one saved
what will be right when it goes, which is a BRK exactly when an enabled entry is there, and
its address has no entry that is off. `Traps` carries it through a
command: a disabled entry is where the thread stands (`OffOnlyAt`), for cdbg_wait puts back all
others, and all are enabled when no thread is selected. For `NeverRunThrough`, `Through`
says what PT_CONTINUE may find: an entry that is off at the pc only where a
watchpoint stops the instruction before it is executed.

`InterruptProofs`. `StrikesChild` and `PromptTrue` need to know, at each of the points of `at`, which
of `state`, `pid` and the kernel's view of the child have already been changed: `Inv` is that
table (`pid` is assigned after fork and before `state`; `state` leaves RUNNING only after
waitpid), together with the fact that a Ctrl-C changes none of the three. There is a
lemma for each group of actions.

`LocationProofs`. `SlidesCurrent` speaks of the prompt; what carries it there is that `run`
forgets both slides and that a refused task port then leaves them at 0 (`SlideInv`), that
the slide taken from the copy of cdbg is taken again before the prompt, and that no
other action writes one. It holds for any set of images and addresses, overlapping ones
included.

`DecodingCorrect` (`RowsDecoded`): the decoder and the assembler go through the same program, each
with registers of its own. `DecodeInv` says that at every point of it the entries read so far
are where the compiler meant rows up to there, and that the registers of code and assembler
agree. It holds for images of any number of units and rows and for every encoding, and claims
something of those whose headers are all `Aligned`. That is a condition on their bytes, read by the
definitions of `LineHeader`; nothing is assumed of the directories and names the reader finds.
For such images the proof shows that neither `Astray` nor an early special opcode
can happen. `FramesNamed`: `NameInv` says that each function
of the image has a symbol in the table, at its beginning, and that no other symbol of the table is inside
it, whichever of the three sources was read and however nm failed; the lookup takes the
nearest one below the pc, which is that.

`TableProofs`. `DecodeInv` says where the rows of the interpreter are, in order, but not of which
file, and nothing of the rows of dwarfdump. The three theorems compare tables by their sets of rows
instead: `TableIs` says that every row in the table is one the compiler meant, or is at address 0, and that
all the rows the reader keeps are there, each with the file of its unit where that has one. `DumpRead` gets it
from the fold over the output of dwarfdump, one unit at a time; `ReaderInv` says it of the
interpreter up to where it is, and `LoadTells` that a load that ends leaves such a table.
The order of the rows depends on the reader and does not matter: the lookups take the row
with the highest or lowest address, and `Clear` leaves one there. `PlaceInv` carries the
table, and what was looked up for the last answer, through the commands. Then
`WholeKept` gives the row of the table that a pc is in, and `RowsTell` that no row of another
sequence reaches over it (`LocatesRow`); a row that `resolve_break_line` finds is one the
compiler meant (`BreakOnLine`). For `BreakInBody`, `NamedInv` follows the symbols as `NameInv` does,
by name; the address of the symbol is the entry of the function (`NameLeads`), and the first row
behind it with another line is still one of its own (`BodyFound`).

`DataProofs`. `PutNothing` and `MachWriteOutcome` describe a write by its outcomes, from which
`WriteTouchesItsRange` follows for all bytes, addresses and protections. `MaskIsRange` is the
arithmetic of the granule: within 8 bytes, the byte-address-select mask covers exactly
`addr .. addr + size - 1`; `TrapsAreWatched` lifts it to a table. `DataInv` has a part for
memory (`MemoryKept`: the same pages stay mapped) and three for watchpoints: no two entries share
a slot (`Tabled`), the registers hold the entries and nothing else (`Accounted`), and a value
that is remembered is that of its place unless its slot is `stale` (`Remembered`). `PagesKept`
follows from the outcomes of a write; `HitReported` from `TrapsAreWatched` and the hit test of
`cdbg_watch_addr_hit`: the address reported lies in the access and not above a trapped byte;
`OldValueTrue` from `Remembered`. For `UpFollowsBt` the walk of bt is seen as stages (`IsWalk`): the
walk from the caller is the walk from the callee one stage later, without its first
frame (`WalkUp`), by induction over the stages, for any memory, loops and unmapped records
included; only the last stage, where bt stops at its limit, can differ.
These theorems are about `AnyDataSpec`; that the commands with their expressions implement it is
checked by TLC, because `ExprEval` is recursive.

Induction over numbers, rows and stages is done with sets: the theorems of the library take an
operator as a parameter, so `SequenceLemmas` states that a set with 0 and successors holds
every number (`SetInduction`), that a set of numbers has a least one, and that the
functions which folds and walks are defined by exist.

Model-checked only: the liveness properties `CommandReturns`, `ContinueProgress` and
`InterruptReturns` (fairness is out of the prover's reach); `PrintIsValue`, `VariablesAgree`,
`SetExact`, `AnyDataSpec`, whose expressions are trees evaluated by recursive operators;
`LineFound` and the properties of `MCHeaders`;
and `UpIsCaller`, which compares with what the compiler of the instance meant (`CallerOf`).

## 5. Not modelled

Execution control: errors of `ptrace`, `kill`, `waitpid`, `fork` and of memory access on a live
process; `task_for_pid` being refused (it is in `Locations`); printed text; detaching
processes on their own; a debuggee that kills itself with a signal is an end of process
like any other. `exits` counts how often an end is announced, not how it is worded. A
one-instruction loop on an address with a breakpoint is run through by the code (the pc
after the step is the breakpoint's address, so it is not put back); the programs have no
such loop.

Tables: Mach-O load commands, the columns of dwarfdump and nm, the operands of opcodes as bytes
(the header is modelled as bytes). What the opcodes of a program entered at the wrong byte do is
given by the image, not computed. Numbers of a header are not cut to 64 bits, nor names to
`CDBG_LINENO_MAX_FILE`; lengths that leave the section and the 64-bit format are left out.

Data: floating-point and NEON values, `set print`, `set language`, `set malloc-log`,
`DW_AT_ranges` and location lists, the lexer and grammar, the table limit of 128 entries
of `show`, and the task port being refused. The limits of what `print` and `x` show (256 elements,
256 bytes of a string, 32 members: 2746, 2383, 1845) are left out, and no property rests on
them. `PT_WRITE_D` (`memory.c` 42) is given one byte but is documented to write a word; the model has
it write that byte or fail. `UpIsCaller` is about bodies with a frame record: at a stop in a prologue or
in a leaf function the frame record is still the caller's and the code goes up past the caller; such stops
are not in the instance.

`ExitReportedOnce` has no watchpoints and so says nothing of the double report in section 6, and
`NeverRunThrough` has one thread and so says nothing of a breakpoint that another thread stands on.

Ctrl-C: a failing `kill` or `waitpid`, and the breakpoints (they are in `Repl`, where a SIGINT
stops the process at any instruction).

The command parser, help, disassembly, leaks and malloc history map text to text or print
what another program says; they keep no state that a property could be about. Generated
parsers are generated. `PROJECT.json` lists each part with its status.

## 6. Where the code and its documents disagree

Shown by a run (section 3, `findings` in `PROJECT.json`):

1. cmd_break accepts a second breakpoint at an address and saves the first one's
   BRK; deleting both in order leaves the BRK in the program (docs/04:604).
2. `cdbg_run` does not reset `current_tid`: after any stop that selected a thread, a second
   `run` cannot read a register, reports an error, and `continue` or `regs` then ends the
   debugger (docs/04:92).
3. `report_stop` freezes siblings although `cdbg_single_step` says they are left running;
   after the selection has moved every thread is suspended and PT_STEP never stops.
4. When the process ends in the step over a breakpoint, `continue` ends the debugger
   without the exit report (docs/04:99).
5. SIGINT in that same step is swallowed, and `continue` resumes with the breakpoint
   out (docs/04:603).

Seen while modelling, part of the model, without a run of their own: threads created after
a stop run free during steps, and `next` releases all (docs/01:102); `continue` takes
off one suspend count of several (docs/02:216); only `step_past_all_watchpoints` arms
new threads, not every stop (docs/02:181); a hit is given to the first thread whose pc
matches, whoever trapped (docs/01:101); after `thread n` continue can run through the
removed breakpoint of another thread (docs/04:603); "Step limit exceeded" and `regs`
without a process end the REPL (docs/03:546); `run` empties the breakpoint table
(help text, 3627, says breakpoints are preserved); kill uses PT_DETACH and SIGKILL
(docs/03:519 says PT_KILL); an exit while `step` or `next` steps past a watchpoint is
announced twice, the second time for process 0; after `set $pc` away from a hit
breakpoint, `next` over a call that returns to it leaves a BRK in the program for good.

In the tables, each excluded from a property by a named condition of section 3:

- dwarfdump's rows all get the last file name and the last directory listed in their unit
  (`lineno.c` 872), so that `break file:line` is refused for a line of another of its files (docs/01:55
  and docs/04:138 describe it without this). Rows read from the section get, in version 5, the file
  before their own (758). Condition: `OneFile`.
- A version 5 program is entered one byte early (801). Where that byte is a special opcode, the last one
  of a checksum say, the lines of the unit move, and `break file:line` stops on another line
  (docs/04:138). Condition: `Aligned`; the image `Inlined` has such a header.
- Behind the directory index of a version 4 file entry 16 bytes are skipped (592), whatever they are. A
  header of one file is refused. One of two files, with times and lengths of 0, is accepted if the
  second name has 9 to 12 or 14 characters, or 13 and directory 0. With 9 or 10 the program is
  then entered where it begins, without the second file; otherwise it is entered early, which fails
  the load or fills the table with rows of no meaning. `SecondNameDecides` says exactly this; the
  images `Gapped`, `Swallowed` and `Shifted` have one header of each kind.
- A `DW_FORM_line_strp` of version 5, four bytes, is read as a number of variable length (453). That is
  right when the offset is below 128: for a directory when it is the only one, because the zeros behind it are
  skipped, and for the first file when its directory is the first. Other names, and the number of files,
  may be anything. `OffsetsRead` states the part that is right.
- `break` on a function of one line stops in the function behind it (4482; docs/04:131 expects the
  function). Condition: two lines.
- The end row of a unit hides the first row of a unit at the same address (`lineno.c` 1051). Condition: `Clear`.
- Rows of line 0 are dropped natively and kept from dwarfdump. The first slide may be that of the
  fork of cdbg (`debugger.c` 451), which only the second update repairs.

In the data commands: a global is always an unsigned long of 8 bytes (2351); sizes and
signs are looked up by words contained in the type's text (1501); the pointee of `int **`
is an int; `*&i` has no type (`expr_eval.c` 165); arithmetic is unsigned (73); of two nested
variables of one name the outer one is found first; a variable declared after a nested
block is judged differently by `find_local_var` and by `show`; static locals are
unknown to print; `show globals` lists a global under both spellings; a refused write
gives a data page the protection of text (`memory.c` 60); `up` in the outermost frame goes to the
link register and can go on for ever; the value remembered by a watchpoint is stale
after `set` (docs/04:191 describes old and new value without this); which kind of access
trapped is not looked at when a hit is attributed.

With Ctrl-C: `main` runs the program to its entry before `signal()` is called, and Ctrl-C then
kills cdbg (docs/01:46 and docs/04:623 promise the prompt); between waitpid and the
assignment to `state` the handler signals a process already reaped; between PT_CONTINUE
and `state = RUNNING` a Ctrl-C is dropped; one sent to a process that has just stopped stays
pending and stops the next command; the loop of step and next does not ask why the
process stopped, so `next` over a library call goes on after Ctrl-C up to its limit, and
"Step limit exceeded" ends the debugger; a SIGINT before `execv` is taken for the exec trap.
The handler never signals process 0.

## 7. Plan

Done: the execution control, its abstract specification and the proofs of all its safety
properties; Ctrl-C at the grain of assignments with its invariant proved; the line and
symbol tables with the commands that use them, and the proofs about slides, decoding, frame
names, located rows and breakpoints on lines and functions; memory, variables, expressions,
frames, watch registers and the data commands, and the proofs about pages, watchpoints and up.

Left, in this order:

1. `SetExact` for any object: that the bytes written are those of the place and size
   `set` was given is `WriteTouchesItsRange`; that these are the object's is `CReference`.
2. Frames together with `next`: the temporary breakpoint of `step_over_call` (611) is for any
   frame, so a recursive call may stop there first.
3. A thread created while `Data`'s watchpoints are armed, and `task_for_pid` refused in the
   middle of a session.
4. `set language` and the formats of floating-point values.
