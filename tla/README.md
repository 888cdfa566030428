# A TLA+ model of the kernel

This directory models the kernel in `src/student-distrib`: a monolithic, single-CPU
x86 kernel with six process slots, three terminals, a round-robin scheduler driven by
the real-time clock (RTC), a read-only file system and ten system calls. The kernel
has no locks. Most of what can go wrong in it is a matter of *when an interrupt
arrives*, so the models are about interleavings of interrupt handlers, system
calls and terminal switches, and about state that survives them.

    Processes.tla         process table, execute, halt, process_switch, RTC
                          scheduler, terminal switch, nested interrupts
    Jobs.tla              abstract: a stack of jobs per terminal, refined by Processes
    ProcessesProofs.tla   theorems about Processes
    TerminalInput.tla     line editing, terminal switch, terminal_read
    FileDescriptors.tla   descriptors of files, directories and virtual RTCs,
                          their reset and release, the RTC handler's countdown
    Screen.tla            video pages, page table, cursors, tputc, switch
    TerminalScreens.tla   abstract: one screen per terminal, refined by Screen
    ReadData.tla          read_data and the two loops that call it
    Names.tla             string comparison, directory search, choice of a driver,
                          parsing of a command line (operators)
    Programs.tla          shell, cat, ls, grep, hello, sigtest over the system calls
    Library.tla           memory and string functions of lib.c, printf
    Machine.tla           boot, the two 8259s, the RTC's registers, the keyboard
                          controller, and the handlers that serve them
    ScreenProofs.tla, ReadDataProofs.tla, FileDescriptorsProofs.tla,
    TerminalInputProofs.tla, MachineProofs.tla, ProgramsProofs.tla, LibraryProofs.tla
                          theorems about these modules
    MC*.tla, *.cfg        instances for TLC
    PROJECT.json          components, runs, mutants, map to the source, hazards,
                          findings, theorems

Run `tlc -config X.cfg MC<Module>` for a model and `tlapm <Module>Proofs.tla` for
its proofs.

## 1. Inventory

| Component | State | Operations | Interacts with | Correct means |
|---|---|---|---|---|
| Process table, execute, halt (`interrupts/syscall_handler.c`) | `active_pids`, `terminal_pids`, `current_pid`, the PCBs (`parent_pcb`, `kernel_esp`, `terminal_id`, `file_descriptors`), `tss.esp0`, the page at 128 MB | `process_create`, `process_start`, `process_switch`, `execute_handler`, `halt_handler` | called by system calls, the RTC handler, `switch_terminal` and `entry`; loads programs with `read_data` | every pid is created, started and freed in this order; halt returns to the execute that made the process; user code runs with its own page, stack and descriptors; no process is lost |
| Scheduler (`interrupts/rtc.c`) | `rtc_count`, `current_index`, the PIC's in-service bit | `rtc_handler` | reads `terminal_pids`, calls `process_switch` | every suspended process gets the CPU again |
| Terminal switching (`interrupts/keyboard.c`) | `current_terminal`, `terminal_active`, `buffer_indices`, video pages | `switch_terminal` | starts shells through `process_create` | a terminal on the screen gets a shell; each terminal keeps its own line and screen |
| Keyboard and terminal input (`interrupts/keyboard.c`) | `terminal_buffers`, `terminal_buffer`, `buffer_index`, `enter_state`, shift and caps flags | `keyboard_handler`, `keyboard_backspace`, `terminal_read`, `clear_terminal_buffer` | interrupts against programs in `terminal_read` | a read returns the line typed on the caller's terminal; lines stay in their buffers |
| File descriptors (`fs.c`, `rtc.c`, `syscall_handler.c`) | `fd_t` of each PCB | open, close, read, write through jump tables | reset by `process_create`, closed by `halt`, counted down by `rtc_handler` | a process starts with stdin and stdout and nothing else; nothing stays open after it; positions stay in their files |
| Virtual RTC (`interrupts/rtc.c`) | `file_pos` (ticks left) and `flags` (period) of a descriptor | `rtc_open`, `rtc_read`, `rtc_write`, `rtc_close` | counted down by `rtc_handler` for the processes that hold a terminal | a read waits one period and returns |
| File system (`fs.c`) | none (read-only image) | `read_dentry_by_name`, `read_dentry_by_index`, `read_data` | callers keep the position | successive reads return the file's bytes in order to its end |
| Screen (`lib.c`, `keyboard.c`) | video pages, cursor positions, cursor ports | `putc`, `tputc`, scrolling, `update_cursor` | written by programs and by the keyboard's echo, copied by `switch_terminal` | output of each terminal's program reaches that terminal's page |
| Paging (`paging.c`) | static tables, the 128 MB entry, the video entry | `paging_init`, `vidmap` | changed by process switches and terminal switches | the page belongs to the current process |
| Interrupt controller (`i8259.c`) | mask registers, in-service bits | `enable_irq`, `disable_irq`, `send_eoi` | handlers | a line is held back until its EOI |
| IDT, entry stubs (`interrupts/idt.c`, `*.S`) | gate types | dispatch | enter every handler | interrupts are on in trap gates only |
| Exceptions (`interrupts/exception_handlers.c`) | none | print and stop | entered from the IDT | the machine stops, and only then |
| Other system calls | none of their own | `getargs`, `vidmap`, `set_handler`, `sigreturn` | used by the programs | a program gets its arguments; handlers are refused |
| Boot (`kernel.c`) | what has been set up, `fs_img_start` | `entry` | calls every `*_init`, then creates the first shell | everything a handler needs is there before interrupts are on; a good load boots |
| C library (`lib.c`) | the direction flag | memory and string functions, `printf`, `itoa` | used everywhere | exactly the bytes asked for change; a number is printed as it is |
| User programs (`src/syscalls`) | their own variables; grep's buffer | shell, cat, ls, grep, hello, sigtest, ... | only through system calls | the program typed runs, prints what it promises and ends |
| Tests, image tools | - | - | - | - |

What is hard:

- **Interleaving.** `idt.c` makes the system call gate and the RTC gate *trap* gates: their
  handlers run with interrupts on except between `cli` and `sti`. `process_create` turns
  interrupts on around `get_free_pid` whoever called it, the keyboard handler and `halt`
  included. The RTC handler can be interrupted by the next RTC interrupt.
- **Stacks as state.** `execute` returns only when the child halts, through an `esp` saved
  long before; `process_switch` continues on a stack where another process was
  suspended. What matters is whether the saved place is still there and whose it is.
- **Stale state.** PCBs and descriptors are reused without being cleared; `terminal_read`
  reads variables that belong to whichever terminal is on the screen.
- **Liveness.** A lost EOI, a terminal that counts as active without a shell, or a
  countdown that passes zero leaves somebody waiting for ever.

The hazards are listed in `PROJECT.json` with the line where each bites and the
properties that would catch it.

## 2. The modules and the code

### Processes

The CPU, the kernel stacks and the interrupt flag are explicit. `kstack[p]` is the
sequence of frames on the kernel stack of process `p` (`kstack[None]` is the boot stack),
`cpu` is the stack in use, and `UserMode` holds when that stack is empty. A frame stands
for a kernel routine; its `pc` is a *stretch of code with interrupts on*, and one action
is the code from one such point to the next, run with interrupts off.

| Code | Model |
|---|---|
| `entry` (kernel.c 140-182) | `Init`: the boot stack is creating the first shell |
| `execute_handler` up to the `sti` of `process_create` | `Execute` |
| `get_free_pid` | `FindPid`, `FindNoPid` |
| `active_pids[pid] = 0` | `ReservePid` |
| rest of `process_create`, `process_start` | `LoadAndStart`, `StartProcess`, `RefuseStart`, `Iret` |
| `halt_handler` | `HaltChild`, `HaltRoot` |
| `process_switch` | `SwitchSave`, `SwitchSet`, `SwitchJump` |
| `rtc_handler` | `RtcInterrupt`, `RtcAck`, `RtcTick`, `RtcSchedule` |
| `switch_terminal` | `SwitchTerminal` |

`kernel_esp` records a place `<<stack, depth>>`. `Resume` loads it: if the frame there is
not one that was suspended in the expected way (`off` for `process_switch`, `child` for
`execute`), control goes to garbage and `wild` becomes true; the model stops there.
An interrupt taken in user mode uses the stack that `tss.esp0` designates, whoever's that is.

`Jobs` is the abstract specification: each terminal has a stack of jobs, its shell at the bottom; the running
job starts one above itself or ends, a terminal without jobs gets a shell, and the CPU goes to the top of a
stack. `JobsAsStacks` maps the table to it: a terminal's jobs are its started processes, ordered by
`parent_pcb`; who runs is the owner of the kernel stack in use, or nobody while a shell is created after `halt` or at
boot; and then that terminal is the one to be opened first. Pids that are only reserved, saved
contexts, interrupts and `terminal_pids` are not in `Jobs`: a step that only prepares is a stutter.

The constant `Windows` says in which stretches of kernel code an interrupt may arrive.
User mode is always interruptible. The eight windows:

| Window | Code | Effect of an interrupt there |
|---|---|---|
| `find` | before `get_free_pid` | harmless to the table |
| `reserve` | between `get_free_pid` and the reservation | **two processes get one pid** |
| `load` | after the reservation, up to the `cli` | harmless |
| `orphan` | all three of these when no process is current (boot, halt of a root shell) | **the creation is lost** |
| `start` | from the `sti` in `process_start` to its `iret` | **the new process is suspended on its creator's stack** |
| `ack` | `rtc_handler` before its EOI | harmless to the table; the clock can stop |
| `tick` | `rtc_handler` after its EOI | harmless |
| `switch` | inside `process_switch` | **one process's stack is saved for another** |

The code has all eight. `NarrowWindows` is the assumption that interrupts do not fall
into the four bold windows, each a few instructions long; the safety run and the proofs
show that these four are the only ones that harm the table. With other values of `Windows`, TLC finds:

- `{"reserve"}`: `PidLifecycle` violated (the run `processes_reserve`): a
  second creation finds the pid that the first has found and not reserved yet (syscall_handler.c 196);
- `{"orphan"}`: `ShellReopens` violated (FairSpec, NumPids = 2, NumTerminals = 2, SchedTicks = 1,
  MaxNest = 2): while halt recreates a root shell (syscall_handler.c 376) the RTC switches to another process, or to
  the dead pid that still holds the terminal; nothing is saved for pid -1, so the creation is lost;
- `{"switch"}`: `SavedContextOwn` violated (syscall_handler.c 320: an interrupt between
  `current_pid = pid` and the jump saves the old process's stack in the new one's PCB);
- `{"start"}`: `ControlKept` violated (NumPids = 2, NumTerminals = 2, MaxNest = 4;
  syscall_handler.c 279);
- `{"ack"}`: `SuspendedRuns` violated: a keyboard interrupt before the RTC's EOI (rtc.c 52)
  starts a shell and leaves the handler, the RTC stays in service, and no scheduler runs
  that could resume that handler (`LeftInService` of `Machine` is the same case, seen from the controllers);
- `{"tick", "find"}`: `TerminalGetsShell` violated: the last pid is taken between the
  check in `switch_terminal` (keyboard.c 289) and the search in `process_create`; the terminal
  counts as active and has no shell.

Abstractions. The file system's answer to `execute` is left out (a name that is no executable
changes nothing). The code that runs after `process_switch` has resumed a process, and
similar tails of a handler up to its return, belong to the resuming action: they run on
the process's own stack and change nothing shared. The boot stack is modelled as a stack of
its own; the code gives it the top of the kernel's 8 MB, which is also pid 0's, but nothing
on it is needed once a first shell runs. Descriptors, `getargs` and `vidmap` are
not part of this module.

### TerminalInput

One array `terminal_buffers` with an address per byte, one `buffer_index` for the terminal on
the screen, parked indices for the others, as in the code. `keyboard_handler` is behind an
interrupt gate and therefore atomic: `PrintableKey`, `EnterKey`, `BackspaceKey`,
`SwitchTerminal`. `terminal_read` is split where interrupts are on: `ReadCall`, `ReadWake` (the loop
on `enter_state` ends and `nbytes` is limited), `ReadCopy` (the `cli`/`sti` section), `ReadClear` (one
round of `clear_terminal_buffer`) and `ReadReturn`. `typed` is a history variable: the line the
user sees. Characters are model values; a NUL byte is one too.

`Situations` says what the user may do while a finished line waits to be read: type
ahead, or bring another terminal to the screen. With neither, reads are exact; with either,
the code violates what its comments and tests say (section 3). Scan codes, shift, caps
lock and the echo are left out.

With `Situations` = `{"type_ahead"}` (2 terminals, 3 bytes) TLC finds `LineFits` violated: `keyboard_handler` stores Enter
without looking at `buffer_index` (keyboard.c 173), so a user who goes on typing before the program reads,
Enter on a full line included, passes the end of the line buffer.

### FileDescriptors

All operations of the jump tables that change a descriptor, the reset in `process_create`,
the closing in `halt`, and the loop of `rtc_handler` over the descriptors of the processes that
hold terminals. Which process runs when is the subject of `Processes`; here `process_create`
and `halt` are atomic, and every process that holds a terminal may make a system call next.
A free descriptor keeps its other fields, as in the code: `FreeNotTicking` is about what a
reused PCB inherits.

The handler is interruptible between its test of `file_pos` and its decrement
(`RtcTickInterrupted`, `RtcTickResumed`), and everything else may happen meanwhile.
`RtcTickResumed` covers both outcomes of the compiled code: the decrement loads `file_pos`
before or after the interruption. `spoiled` records the descriptors that such an outdated decrement
has hit, because the descriptor was set or counted, or another process took the terminal, after the test.
(The last case needs three terminals: a process that moves to a later one and sets its RTC up as before is counted twice in one
interrupt. The proof of `RtcReadOnTime` brought it up.) `RtcReadOnTime` makes an exception for them. Without it TLC shows the wrap-around: a second handler takes
`file_pos` from 1 to 0 after the first has tested it, and the first one's decrement leaves 2^32 - 1 (rtc.c 61).
One handler at a time is interrupted in this way.

### Screen and TerminalScreens

There is one displayed page and one page per terminal. A page table entry per terminal leads to the displayed
page if the terminal is displayed and to its own page otherwise; one more entry always leads to the
displayed terminal's own page, for the kernel's copies. `PutChar` and `PutNewline` are the two halves of
`tputc`, which writes through the entry of the program's terminal; `clear` and `terminal_backspace` write to the displayed
page directly. `SwitchTerminal` is `save_pos`, the three entries, the two copies, `restore_pos` and, for a first
shell, `clear`, in this order. The handler is behind an interrupt gate, and `terminal_write` holds
interrupts off around its loop, so these are atomic; `Output` is one character of a write. A program that has called
`vidmap` may draw at any time, through the same entry.

A character is represented by the terminal it was written for. Cursor positions are kept twice, as in the code. A page has one cell more than the screen,
which the newline on the last row blanks; that nothing is written behind it follows from the bounds of the cursors (`TypeOK`).

`TerminalScreens` is the abstract specification: a screen and a position per terminal, and no displayed terminal. `Screen`
maps the screen of a terminal to the page that holds it, and the position to row and column; then every switch between
started terminals is a stutter, and a first switch clears the new terminal's screen. `tputc` blanks one cell too many on
a newline (`term_x <= 80`); the abstract newline allows that, and `BlankAhead` shows that the cell is blank unless
the program draws.

Not in the model: `update_cursor`, which writes the cursor ports in four steps with interrupts on, and
`printf` with `putc` (three messages at run time, always on the displayed terminal; others in exception handlers and at boot).

### ReadData

`read_data` with its locals, one action per round of its loop, and its two callers: `file_read`,
which adds the bytes read to `file_pos`, and the loading loop of `process_create`, which always
advances by a block. A byte of the image is modelled by its place, so that every wrong block, offset
or length shows in `copied`. The image is well-formed: an inode lists as many
blocks as its length needs, with numbers that exist; `read_data` does not check them.

### Names and Programs

`Names` has the functions a name goes through: `strncmp`, `read_dentry_by_name` with its comparison up to the length of the
name looked for and its second look at the entry's own length, the choice of a driver by `open_handler`, and the
loop of `process_create` over the command. A string is a sequence of characters; behind its end there is the NUL.
`NameLen` is 32 in the code.

`Programs` runs one command at a time on one terminal. The shell reads a line; `Execute` is `process_create` as far as it depends
on the command, the image (the first bytes of a file are the one mark `ELF`, and the next one says which program it is) and the number of
processes: a shell may be started in a shell (`shells` counts them), each has a pid, and the other terminals hold any number of the
remaining ones. If there is none left, the kernel says "Too many processes" and the shell "no such command". `exit` returns to
the shell below; the last one is started again by `halt`. A program is a sequence of stretches between the reads it makes:

| Code | Model |
|---|---|
| `ece391shell.c` | `ShellStart`, `ShellRead`, `Execute`, `ShellReport` |
| `ece391cat.c` | `CatStart`, `CatRead` |
| `ece391ls.c` | `DirStart`, `LsRead` |
| `ece391grep.c`, `main` | `DirStart`, `GrepEntry` |
| `ece391grep.c`, `do_one_file` | `GrepRead`, `GrepCarry` (lines 33-39), `GrepLine` (40-56), `GrepClose` |
| `ece391hello.c`, `ece391sigtest.c` | `Hello`, `Sigtest` |
| `file_read`, `directory_read` | `ReadAt`, `Advanced` |
| `terminal_write` | `write` |

grep's buffer is modelled with its indices and with what was on the stack before: `Junk` may be a newline. `out` is
what was printed. Sigtest ends in the page fault handler, which never returns.

### Library

A behaviour is one call. The memory functions are their split into single bytes, words and single bytes, over string instructions
that follow the direction flag; the flag is what earlier calls left, since `memmove` does not clear it. `printf` is a
loop over the characters of the format with a pointer to the next argument, as in the code; a format is given as the items it
is spelled from, so that what should come out is known. A format that ends in `%` would be read behind its end; none in the
kernel does.

### Machine

`entry` is one action per thing it sets up, in the order of the code (`After`); `create` and `start` are the two sides
of the stretch of `process_create` that has interrupts on. `load` is what the boot loader hands over. The 8259 pair has
request, service and mask bits, with the priorities of the fully nested mode; the RTC has the enable bit and the flag that register C
clears, and its line stays high until then; the keyboard controller holds one scan code. `frames` is what the CPU executes, on the kernel
stack it uses: the handlers are the steps that touch a device, the interrupt flag or the stack, and every other one of their steps
is in `Processes`, `FileDescriptors` or `TerminalInput`. `away` holds the stacks that were left with something on them.

| Code | Model |
|---|---|
| `entry` (kernel.c 26-182) | `check`, `descriptors`, `initialize_idt`, `initPic`, `paging_init`, `fs_init`, `rtc_init`, `keyboard_init`, `processes_init`, `create`, `start` |
| the gates and stubs | `Accept`, `Iret` |
| `rtc_handler` | `rtc_handler`, with `process_switch` |
| `keyboard_handler`, `switch_terminal` | `ReadKey`, `StartShell`, `RefuseShell` |
| a system call with interrupts off | `Cli`, `Sti` |
| exception handlers | `Fault` |

A handler leaves its stack in two places. `switch_terminal` ends in `process_start` if the terminal has no shell, on the stack of the new process
(`StartShell`); what the key interrupted stays behind, an RTC handler included. `rtc_handler` calls `process_switch` before it
returns. Either is one step here, and any stack with a program on it may be the next: the table of processes, and what an
interrupt inside such a change does, are the subject of `Processes`.

Not in the model: a key pressed before `i8259_init` (its line would be high already, and a controller that waits for a rise would
never request it); the RTC's rate, which `rtc_init` sets once (`rtc_set_freq` has no caller); spurious interrupts, which have no gate.

## 3. The runs

| Run | Shows | Instance |
|---|---|---|
| `processes_safety` | all safety properties of `Processes`, and that it implements `Jobs`, with interrupts in `find`, `load`, `ack`, `tick` | 4 pids, 2 terminals, 3 frames per stack, time slice 1 |
| `processes_liveness` | `SuspendedRuns`, `TerminalGetsShell`, `ShellReopens` | 3 pids, 3 terminals, 2 frames, time slice 2, window `tick` |
| `processes_reserve` | *violation* of `PidLifecycle` with interrupts in `reserve` | 3 pids, 2 terminals, 2 frames, time slice 1 |
| `screen` | the pages implement one screen per terminal | 2 terminals, 2 x 2 characters, drawing on one of them |
| `input_lines` | lines, buffers and reads are right if the user waits after Enter | 3 terminals, 3 bytes per line, 4 keys |
| `input_wake` | a read ends after Enter, in all situations | 2 terminals |
| `input_away` | *violation* of `ReadReturnsLine` | 2 terminals, 3 bytes |
| `fds` | descriptors are reset and released; `rtc_read` waits one period and returns | 2 pids, 2 terminals, 1 descriptor each beside stdio, 4 Hz base rate, 3-byte file |
| `read_data` | reads and loads return the file in order and completely | blocks of 3 bytes, files of 0-10 bytes |
| `programs` | the program typed runs, prints what it promises, and ends | names of 3, a buffer of 3, 2 descriptors beside stdio, 11 directory entries, 3 pids, about 430 images |
| `library` | memory functions change the right bytes, `printf` prints the right digits | 11 bytes, all calls; all numbers of 8 bits |
| `machine` | boot is in the right order, no interrupt is lost, and every one is served as long as the RTC is not left in service | 6 loads, 3 terminals, a handler in progress when a period ends, 3 keys |

**Processes.** `ControlKept`: no saved context is loaded that is not there any more.
`ContextCoherent`: in user mode `current_pid`, page, `esp0` and descriptors all belong to the
process that runs. `SavedContextOwn`: whoever does not run can be resumed on its own
stack. `ParentWaits`, `TerminalHeldByLeaf`, `NoLostProcess`: the processes of a terminal form a chain in
which each waits for the next and the last one holds the terminal. `ReservedOnce`, `PidLifecycle`: slots
are neither leaked nor handed out twice. `JobsAsStacks`: halt goes back to the job below and to no other, a new program goes on the
stack of the terminal of its caller, and switches change no stack.
*Bounds.* Four pids on two terminals allow a shell with a child and a second child's
creation on the other terminal, and a full table. Three frames on a stack are a system call interrupted by the keyboard
or the RTC, interrupted again; user mode is entered with an empty stack, so `MaxNest` also bounds the
nesting of RTC handlers, which the hardware leaves to luck. Three terminals in the liveness
run make the round robin skip an empty terminal on either side.

**TerminalInput.** Three-byte lines hold one, two or no characters before Enter; the limit is
reached, edited back and left to the other terminal. The model's array ends right after the
last terminal's line, so leaving it is seen (`overrun`). `MaxTyped` bounds the keys between two reads.

**Screen.** `ScreensIndependent` is the refinement. `CursorsAgree` relates the two copies of the cursor. Two rows of two columns have every kind of position:
inside a row, at its end, on the last row, and past it before the scroll. Two terminals are one displayed and one in the
background; a third would be a second one in the background. `Drawers` bounds drawing to the second terminal, which is
displayed or not like the other.

**FileDescriptors.** One user descriptor per process is enough for what one
descriptor can inherit from its predecessors; the order in which several are opened is not
explored. Periods of 1 and 2 ticks with `Width` = 6 make a wrap-around
visible. Files of 3 bytes are read in pieces of 2 and 5.

**ReadData.** Every length from 0 to three full blocks and one byte, every assignment of blocks, and read
sizes from 1 to 5 hit each boundary from both sides. That no copy has a negative length (`TypeOK`) is proved and not checked
in a run of its own.

**Programs.** `StartedAsTyped`: a prefix of a name starts nothing, a name of full length is found, arguments begin behind the
space, and "no such command" is the shell's answer only if there is no such program or the kernel has said "Too many processes" before: the shell cannot
tell the two apart. `OutputAsPromised` compares the output with the files: grep's with a definition of grep that knows no
buffer. It excepts what the code does not do: a text with NULs or with lines longer than the buffer is cut by grep (`IsText`), and the
uninitialised end of its buffer may add a line if it happens to hold a newline. On a full directory (63 entries)
`ls` and `grep` end with an error behind the last entry, since `read_dentry_by_index` fails there; the property says so (`ToTheEnd`). `BuffersHold` and `PromptReturns` have no such exception.
A buffer of 3 and texts of up to 5 characters put every boundary before, on and behind a newline, with one, two or three
reads of a file; two files show what one leaves for the next. `NumFds` = 4 makes a descriptor that grep
does not close show at the second file. With 3 pids a shell in a shell leaves one for a program, or none, and the other terminals
may have taken them all before the first command.

**Library.** Eleven bytes have every alignment of source and destination, and every number of bytes before, in (up to two) and behind
the words. `memcpy` and the string copies are not asked to copy upwards inside themselves (`Apart`). Eight bits have the
least and the greatest number, with two digits padded.

**Machine.** `BootedRight`: when an interrupt can come in for the first time, everything is set up, from the first module.
`NothingLost`: in service are exactly the lines whose handler has not reported its end, and a high line always has a request
waiting or a handler that will lower it. This holds over all stacks, those left
behind included. `InterruptsServed`: every key is handled, whatever happens, and every period of the RTC, with one exception that the code
makes: a key that starts a shell out of `rtc_handler` before its EOI leaves the RTC in service (`LeftInService`). Only the scheduler could go back to that handler, and
it runs on RTC interrupts: the clock stands still for good. Without the exception TLC finds this. `MaxNest` = 1 lets a period end while one handler is in progress, so that up to
three handlers lie on a stack: an RTC handler past its EOI, a second one on top, and the keyboard's. Three terminals
and three keys start two shells and leave a key to spare; two shells leave two stacks behind, which the scheduler may take up in either order.

Deadlock checking is off only where the system may really stop: `Processes_reserve`, where control may be lost (`wild`), `ReadData` at the end of the
file, `Programs` after an exception, `Library` after its one call, and `Machine` when a bad load or an exception has stopped it.

Two *findings*, with their lines, are in `PROJECT.json`. `input_away`: a read of a background terminal takes the foreground's
line. `processes_reserve`: between `get_free_pid` and the reservation a key starts a shell with the pid that was found, and the creation that was interrupted takes it from the running
shell. The other counterexamples are described in section 2: the windows of `Processes`, Enter on a full line, a countdown
that wraps, and an RTC that is left in service.

### Fairness

- `Processes`: weak fairness of kernel code (the CPU executes) and strong fairness of the RTC
  interrupt: the PIC latches the request, so it is taken if interrupts are on again and again. Programs and the
  user owe nothing: a program may loop for ever and no key need be pressed.
- `TerminalInput`: weak fairness of each step of `terminal_read`; `processes_liveness`
  (`SuspendedRuns`) is the reason: a waiting process is scheduled again and again.
- `FileDescriptors`: weak fairness of the RTC interrupt and of an interrupted handler, for the
  same reason; strong fairness of the return of `rtc_read`, because a waiting process may be interrupted
  time and again, but executes some turns of its loop in between.
- `ReadData`: loading runs with interrupts off, to its end.
- `Programs`: weak fairness of the running program, for the reason given for `TerminalInput`; the user may leave the prompt alone.
- `Machine`: weak fairness of the CPU: it accepts a deliverable interrupt, goes on with a handler and with `entry`, and a
  program that has interrupts off turns them on again. The devices owe nothing.

## 4. What is proved

`ProcessesProofs` proves for all values of the constants (any number of pids and
terminals, any time slice, any nesting):

- `TypeCorrect`: `Spec => []TypeOK`, for every choice of `Windows`;
- under `NarrowWindows`: `ControlIsKept`, `ContextIsCoherent`, `SavedContextIsOwn`, `ParentsWait`,
  `TerminalsHeldByLeaves`, `NoProcessIsLost`, `ReservationsUnique`, the action property
  `LifecycleFollowed` and the refinement `JobsAreStacked` (`Spec => JobsAsStacks`). These are the properties of `processes_safety`.

Assumptions: `ConstantsAssumption` (which TLC evaluates in each run) and `NarrowWindows` as a
hypothesis of the theorems. The latter is necessary: each of the four windows it
excludes has a counterexample above.

None of these properties is inductive alone. Halt is right because the parent waits; the parent waits because
the scheduler never resumes it; the scheduler never does because `terminal_pids` holds the
leaf; and the leaf holds the terminal because of what halt and execute did before. The
invariant `IndInv` closes this circle:

- `FramesOK`, `StacksOK`: which frames may stand on which stack, and that only the top of the running
  stack is in the middle of something;
- `CurrentOK`, `TargetOK`: the current process is the one that executes, or there is none while a shell
  is created for boot or halt; the target of a process switch is suspended and holds its terminal;
- `ReserveOK`, `LoadsOK`: the pid that `get_free_pid` found is still free when it is reserved, and
  reserved pids correspond one to one to the creations that load a program;
- `TermsOK`: a frame that creates a child belongs to a started process of that terminal, and one that creates a
  shell is the only one for a terminal that is marked active and has no started process;
- `JobsOK`: the processes of a terminal are a sequence in which each one's parent is the one
  before. The witness of this existential is extended by `execute` and shortened by `halt`: a
  stack of jobs;
- `~wild`.

The proof has a lemma per action (`Next` has 16), and beneath each one step per
conjunct the action can disturb. Each invariant then follows from `IndInv` without further
induction.

For the refinement, `JobStackRight` shows that the stack of a set of processes, chosen entry by entry along
`parent_pcb`, is the only one there is (by the well-foundedness of `<` on its places), so that it is the witness of
`JobsOK`; `StackPushed`, `StackPopped` and `StackSame` say what becomes of it when a process comes, goes or a
PCB elsewhere changes. `StartOfJobs`, `HaltOfJobs` and `SwitchOfJobs` then map the four actions that start, end or resume a process to steps of
`Jobs`, and `QuietSteps` the others to stutters.

`MachineProofs` proves `InterruptsKept` (`Spec => []NothingLost`) and `BootsRight` (`Spec => []BootedRight`),
the two invariants of the run `machine`, for any set of loads, any list of modules, any number of terminals, and whatever the bounds on nesting
and keys. The only assumption is `LoadsAssumption`, the type of a load. The inductive invariant is `IInv` and `AwayInv`. `IInv` consists of

- `TypeInv`;
- `StackInv`: handlers lie on top of the one frame of `entry` or of a program, and a keyboard handler
  that has not reported the end of its interrupt is the innermost, with interrupts off;
- `BootInv`: what has been done when `entry` is at a step, with the steps numbered (`Stage`), and that until the last step
  interrupts are off, nothing is in service, and a line that is high has its request;
- `NothingLost` itself.

`NothingLost` needs `StackInv`: when a handler reports the end, it must be the only one of its kind that has not, and the report of
the RTC's handler, which clears the cascade line too, must not hide a keyboard interrupt that is still in service. `BootedRight` needs
`BootInv`, because interrupts are enabled in `process_create`, long after the tables are set up. Besides one lemma per action there
are three about what appending, removing and moving on a frame does to the sets of interrupts in progress (`AppendActive`,
`FrontActive`, `GotoActive`).

`AwayInv` says of every stack left behind that it is one of `entry` or of a program, and that no keyboard handler on it has yet to
report the end: that handler has interrupts off until it does, and reports before it starts a shell. `NothingLost` speaks of the places on all stacks; the lemmas divide
them into those on the stack in use and the others. When a stack is left and another one taken up, the handlers on the two
change places (`Exchanged`), and `Exchange` shows that there are as many as before: this is all that `NothingLost` asks
(`NothingLostMoves`), for `process_switch` (`SwitchRight`) as for a new shell (`StartShellRight`).

`InterruptsServed` is only model-checked.

`TerminalInputProofs` proves `TypeCorrect` for any user and, if `Situations` = {} (`UserWaits`), `LinesFit`, `BufferIsTheLine`
and `ReadIsTheLine`: `LineFits`, `BufferHoldsLine` and `ReadReturnsLine` for any number of terminals and any
size of the buffers. The hypothesis is necessary: with `type_ahead` TLC refutes `LineFits`, with `switch_away` `ReadReturnsLine`. The invariant adds to the
types

- `RoomInv`: a line that is not finished has room for Enter, and one that is finished and not yet returned belongs to the terminal on the screen,
  whose index the code uses;
- `ReadInv`: the buffer holds the line until it has been copied, and from then on the read holds it.

Lines of different terminals do not overlap because addresses `t * BufferSize + k` determine `t` and `k` (`Apart`).

`ScreenProofs` proves `TypeCorrect`, `CursorsStayTogether`, `BlankBehindCursor` and `Refinement` (`Spec => ScreensIndependent`:
`Screen` implements `TerminalScreens`) for any number of terminals and any size of the screen. The
invariant is `TypeOK`, `CursorsAgree`, `BlankAhead`, `Mapped` (the page table is determined by the displayed terminal: this makes a
write land on the page of the program's terminal) and `RowsEnd` (behind the last row only the position to scroll from). The arithmetic is
that row and column determine a cell and are given back by division. The blank rest is needed for the refinement: `tputc`
clears the first cell of the next row, which the abstract screen does not.

`ReadDataProofs` proves `TypeCorrect`, `ReadInOrder` (`ReadsInOrder`) and `LoadIsComplete` (a load that ends has copied the whole
file, the safety half of `LoadsWhole`) for any size and assignment of blocks, any length of the file and any read sizes. `LoopInv` says that block and offset
stand for the number of bytes copied, or that the end of the file has been met; `IdleInv`, that `file_pos` does between
two calls. The loader's position may pass the end of the file, a reader's may not.

`FileDescriptorsProofs` proves `TypeCorrect`, `FreeIsNotTicking`, `NothingIsLeaked` and `RtcReadIsOnTime` for any number of pids,
terminals, descriptors and files, any rates and any width of the counters. `DescriptorInv` describes what a descriptor that is
free, open, or in a PCB without a process may hold, and that a handler interrupted in its countdown had tested an RTC.
`RtcReadIsOnTime` needs two more parts: `JobsInv` (a terminal is held by one started process, a parent waits for its only child and
is in no `rtc_read`, and who is in `rtc_read` holds a terminal, so that the countdown reaches it) and `TimeInv`, sharper
than the property: the difference between the interrupts waited for and the period depends on whether the interrupted handler has this descriptor still before it
(`Pending`).

`ProgramsProofs` proves `BuffersAreHeld`, `StartsAsTyped` and `OutputIsAsPromised`: the three invariants of the run `programs` for any image, any set of lines,
any lengths of names, buffers and lines, and whatever the stack held before. `FilesInv` gives each program counter the descriptors the
program holds; `BufferInv` bounds grep's indices: a read fills at most what is left of the buffer, `last` is reset or reduced by
what is cut off, and one byte behind the buffer is all that the terminating NUL can need. For `StartedAsTyped`, `LineInv` says that
the line the shell has read holds no NUL; `ParsedRight`, that the loop over the command finds the first word and the rest;
`NameFound`, that a search by name finds the entry with exactly that name and fails only if there is none, for longer
names and for names of `NameLen` characters without a terminator too; `OthersStartNothing`, that only `Execute` starts a program. `ShellsInv`: a shell in a
shell takes a pid, so that there are never more of them than pids.
For `OutputIsAsPromised` the invariant (`StartInv`, `Printed`) says at every step what has been printed *so far*:

- `StartInv`: a program starts with a string as its arguments, nothing open and nothing printed;
- `CatInv` and `LsInv`: the output is the part of the file, or of the names, before the position of the descriptor (`Upto`);
- `EntryInv`: grep holds its directory and the file of the entry read last, and nothing else, so that a descriptor is free for the next one;
- `TextInv`: between two files the output is that of the files before. Within a file the buffer holds the text before the
  descriptor's position (`Buffered`), what lies before `start` has been searched and printed, and `start` is where a line of the *text* begins
  or ends (`Boundary`), although the buffer is cut anywhere. If the file has not been read to its end the buffer is full: this is
  why an incomplete line may be carried to its front and read again (`CarriedRight`), and why the last line of the file is searched although no newline ends it.

The promise speaks of the places of a text at which a line begins (`InText`), the code of pieces of a buffer. `LineHasEnd` finds the newline
that `IsText` guarantees, `LineInBuffer` shows that what the loop over the buffer cuts out is a line of the text, `MatchesRight` that the search at
each place with the terminator stored behind the line finds what `Holds` says, and `SearchPrints` that a line adds to
the output what its place in `InText` says. There is no recursion over the text: one call of the loop prints one
line, and `UptoMore`, `UptoOne` and `UptoEmpty` say what a concatenation gains from one more of its parts.

Assumed of the constants (`ProgramsAssumption`, `NamesAssumption`):

- the image is one that its tool makes: the names differ, fit their field, are not empty and hold no NUL; the directory is the first
  entry, and the only names that begin with `.` are of directories; the RTC's entry has its name; a file's inode exists; an executable is one of the modelled
  programs; one of them, under its name, is the shell the machine boots with;
- the keyboard types no NUL, and what `file_args` holds before `process_create` writes it (`Leftovers`) is taken as far as its first NUL;
- there is a pid; there are at least two descriptors besides the terminal's, and a name fits into a buffer (6, 8, 32 and 1024 in the code);
- the value that stands for a failed read is not a text of the model's characters.

TLC evaluates this on every image and line of the runs.

`LibraryProofs` proves `MemoryIsRight`: `MemoryRight` for memory of any size and content, and any alignment, length and overlap. A
call is one step, so the invariant is small; the work lies in the loops. `stos` and `movs` are recursive functions of the number of
units done. `SameLoop` shows by the well-foundedness of `<` that two functions with the same start and the same step agree, and `StosUp`,
`MovsUp` and `MovsDown` give the memory after each unit in closed form; an upward copy needs `Clear`, a downward one that the destination lies
behind the source. `SplitRight` says that the bytes before, in and behind the words are all the bytes, `SetTwice` and `CopiedTwice` that
the three pieces make one. Assumed: a call stores and copies within the memory (`CallsAssumption`), and, in the property itself, that
`memcpy`, `strcpy` and `strncpy` are not given a destination behind the first byte of the source and within what is copied (`Apart`; upward copies
overwrite what is still to be read there).

It also proves `PrintfIsRight`: `PrintfRight` for numbers of any width that is a multiple of four bits, every number, and every sequence of
items. `PrintfInv`, the inductive invariant, says that some items are done and the format's place, the arguments' place and
the output are the ones behind them (`Reached`), except that of a text any number of characters may be done. Beneath it lie
- `AllNumbers` and `AllNumbersBelow`, induction over a *set* of numbers, which the provers can instantiate where they cannot the
  library's theorems over predicates, and `LoopExists`, that a loop that runs over such a set has a result;
- `PowerRight`, `PowerGrows`, `NextDigit` (dividing by the base moves every digit one place) and `PlacesNext` (and takes one off their
  number), from which `itoaRight` and `NumeralRight` follow, with `strrevRight` for the reversal; `HexPaddedRight` and `SignedRight`, the least
  number included, for the other forms;
- `UptoNext` and `PieceRight`: where the k-th sequence stands in a concatenation.

Assumed (`FormatsAssumption`): an item is text without `%` and NUL or one of the seven conversions with an argument of its type, and
`Width` is not zero.

Each module assumes only the named assumptions of the module it is about, which TLC evaluates in every run of it.

Only model-checked:

- all liveness properties: they need fairness and `ENABLED`;
- every violation.

## 5. What is not modelled, and the plan

In the order of what the code risks most:

1. Cursor ports and `putc`: `update_cursor` in its four steps, and `putc` interrupted by a switch, as windows of `Screen`.
2. The scan code tables and the state of shift, caps lock and control; `fish`, `counter` and `pingpong` as programs that draw
   and wait for the RTC; the dispatch by system call number. `rtc_set_freq` and `disable_irq` have no caller.

Left out for good: the bits of the descriptors and of the static page table entries, kernel tests (read for what they expect), host tools, user programs that only
print, the emulation of the system calls on another host, the images.

Differences between code and documentation that were noticed and are not findings of a run:
`getargs` without arguments returns 0, its comment (syscall_handler.c 433) says -1; reading a directory to its end ends with
-1 (tests.c 274-277 loops on it); `test_fs_close` in tests.c expects descriptor 0, the code hands
out 2 first; `execute` returns the child's status; keys that arrive between the `sti` of
`terminal_read` and the end of `clear_terminal_buffer` are cleared with the old line; every name
that begins with "rtc" opens the RTC.
