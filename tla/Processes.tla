------------------------------ MODULE Processes ------------------------------
(***************************************************************************)
(* The process table, the system calls that create and end processes       *)
(* (interrupts/syscall_handler.c), the round-robin scheduler in the RTC    *)
(* interrupt handler (interrupts/rtc.c) and the terminal switch of the     *)
(* keyboard handler (interrupts/keyboard.c), with one CPU and nested       *)
(* interrupts.                                                             *)
(*                                                                         *)
(* The kernel is not locked.  The system call gate and the RTC gate are    *)
(* trap gates (idt.c), so their handlers run with interrupts on except     *)
(* between cli and sti, and process_create turns interrupts on around the  *)
(* allocation of a pid even when its caller had turned them off.  Every    *)
(* stretch of kernel code in which an interrupt can arrive is the `pc' of  *)
(* a frame on some kernel stack; code between two such points runs with    *)
(* interrupts off and is one atomic action.                                *)
(***************************************************************************)
EXTENDS Integers, Sequences, FiniteSets

CONSTANTS
    NumPids,       \* length of active_pids (6 in the code)
    NumTerminals,  \* length of terminal_pids (3 in the code)
    SchedTicks,    \* RTC interrupts in one time slice (8 in the code)
    MaxNest,       \* bound: interrupts stop nesting at this many frames
    Windows        \* the windows of kernel code in which interrupts arrive

Pids == 0 .. NumPids - 1
Terminals == 0 .. NumTerminals - 1

\* -1: no process; as a stack, the boot stack on which entry() runs.
None == -1
PidOrNone == Pids \cup {None}
Stacks == PidOrNone

\* The stretches of kernel code that run with interrupts on.  "orphan" is the
\* pid allocation of a shell created with current_pid = -1 (boot, halt of a
\* root shell); "start" is the end of process_start, from its sti to its iret;
\* "switch" is process_switch; the others are named by their pc.
AllWindows ==
    {"find", "reserve", "load", "orphan", "start", "ack", "tick", "switch"}

\* No interrupt arrives between get_free_pid and the reservation of its pid,
\* while no process is current, or inside process_start or process_switch.
NarrowWindows == Windows \cap {"reserve", "orphan", "start", "switch"} = {}

ASSUME ConstantsAssumption ==
    /\ NumPids \in Nat \ {0}
    /\ NumTerminals \in Nat \ {0}
    /\ SchedTicks \in Nat \ {0}
    /\ MaxNest \in Nat \ {0}
    /\ Windows \subseteq AllWindows

CreatePcs == {"find", "reserve", "load"}
SwitchPcs == {"save", "set", "jump"}

\* Where a kernel stack's frame stands, who pushed it, and its locals:
\*   find, reserve, load   process_create, before and after get_free_pid and
\*                         after the reservation of the pid
\*   child                 execute, until its child halts
\*   start                 process_start, on its creator's stack up to its iret
\*   ack, tick             rtc_handler, before and after its EOI
\*   save, set, jump       process_switch, between its three effects
\*   off                   suspended: process_switch or a keyboard-started
\*                         shell has taken the CPU away
Frame ==
    {f \in [pc   : CreatePcs \cup SwitchPcs \cup {"child", "start", "ack", "tick", "off"},
            by   : {"execute", "keyboard", "halt", "boot", "rtc"},
            term : Terminals,     \* terminal of the process being created
            pid  : PidOrNone] :   \* pid being created, or switched to
        f.pc \in {"reserve", "load", "start"} \cup SwitchPcs => f.pid \in Pids}

VARIABLES
    active_pids,       \* -1 free, 0 created, 1 started
    terminal_pids,     \* the process that holds each terminal
    current_pid,
    terminal_active,   \* a shell was started on the terminal
    current_terminal,  \* the terminal on the screen
    parent_pcb,        \* pcb->parent_pcb, as the parent's pid
    terminal_id,       \* pcb->terminal_id
    kernel_esp,        \* pcb->kernel_esp/ebp, as <<stack, depth>>
    page,              \* the process mapped at 128 MB
    esp0,              \* tss.esp0, as the owner of the stack
    file_descriptors,  \* owner of the table the pointer designates
    rtc_count, current_index,
    rtc_in_service,    \* the PIC holds back the RTC until its EOI
    cpu,               \* the kernel stack (so the process) executing
    kstack,            \* the frames on each kernel stack
    wild               \* control went to a context that was never saved

pcbVars == <<parent_pcb, terminal_id, kernel_esp>>
contextVars == <<current_pid, page, esp0, file_descriptors>>
rtcVars == <<rtc_count, current_index, rtc_in_service>>
terminalVars == <<terminal_active, current_terminal>>
vars == <<active_pids, terminal_pids, contextVars, terminalVars, pcbVars,
          rtcVars, cpu, kstack, wild>>

-----------------------------------------------------------------------------
(* Kernel stacks and the interrupt flag.                                   *)

\* The CPU executes user code of process cpu (or, on the boot stack, the final
\* hlt loop) when nothing is on its kernel stack.
UserMode == kstack[cpu] = <<>>

Depth == Len(kstack[cpu])
Top == kstack[cpu][Depth]

\* The kernel executes, and the frame that runs stands at one of pcs.
At(pcs) == ~UserMode /\ Top.pc \in pcs

Window(f) == CASE f.pc \in CreatePcs /\ f.by \in {"halt", "boot"} -> "orphan"
               [] f.pc \in SwitchPcs -> "switch"
               [] OTHER -> f.pc

\* An interrupt may be taken now.
InterruptsOn == /\ Depth < MaxNest
                /\ ~UserMode => Window(Top) \in Windows

\* A trap or an interrupt: from user mode the CPU loads its stack from esp0,
\* from kernel mode it stays on the stack it uses.
Enter(f) ==
    LET s == IF UserMode /\ cpu # None THEN esp0 ELSE cpu
    IN  /\ cpu' = s
        /\ kstack' = [kstack EXCEPT ![s] = IF UserMode THEN <<f>>
                                           ELSE Append(kstack[s], f)]

\* The running frame moves on, or returns to the frame below it.
SetTop(f) == kstack' = [kstack EXCEPT ![cpu] = [kstack[cpu] EXCEPT ![Depth] = f]]
Pop(s) == SubSeq(s, 1, Len(s) - 1)
Return == kstack' = [kstack EXCEPT ![cpu] = Pop(kstack[cpu])]

\* Load esp and ebp from a PCB and return: the frame suspended there with the
\* given pc is left, or there is none and control is lost.
Resume(esp, pc, ks) ==
    LET s == esp[1]
        d == esp[2]
    IN  IF d \in 1 .. Len(ks[s]) /\ ks[s][d].pc = pc
        THEN /\ cpu' = s
             /\ kstack' = [ks EXCEPT ![s] = SubSeq(ks[s], 1, d - 1)]
             /\ wild' = FALSE
        ELSE /\ cpu' = cpu
             /\ kstack' = ks
             /\ wild' = TRUE

-----------------------------------------------------------------------------
CreateFrame(by, term) == [pc |-> "find", by |-> by, term |-> term, pid |-> None]
RtcFrame == [pc |-> "ack", by |-> "rtc", term |-> 0, pid |-> None]

\* processes_init, then entry() creates the first shell on terminal 0.
Init ==
    /\ active_pids = [p \in Pids |-> -1]
    /\ terminal_pids = [t \in Terminals |-> None]
    /\ current_pid = None
    /\ terminal_active = [t \in Terminals |-> t = 0]
    /\ current_terminal = 0
    /\ parent_pcb = [p \in Pids |-> None]
    /\ terminal_id = [p \in Pids |-> 0]
    /\ kernel_esp = [p \in Pids |-> <<p, 0>>]
    /\ page = None
    /\ esp0 = None
    /\ file_descriptors = None
    /\ rtc_count = 0
    /\ current_index = 0
    /\ rtc_in_service = FALSE
    /\ cpu = None
    /\ kstack = [s \in Stacks |-> IF s = None THEN <<CreateFrame("boot", 0)>>
                                  ELSE <<>>]
    /\ wild = FALSE

\* Mutant: a pid that is created but not started counts as free.
FreePids_Unstarted == {p \in Pids : active_pids[p] # 1}

FreePids == {p \in Pids : active_pids[p] = -1}

\* execute with the name of an executable, up to the sti in process_create.
\* (Any other command returns -1 and changes nothing.)
Execute ==
    /\ UserMode
    /\ current_pid # None
    /\ Enter(CreateFrame("execute", terminal_id[current_pid]))
    /\ UNCHANGED <<active_pids, terminal_pids, contextVars, terminalVars,
                   pcbVars, rtcVars, wild>>

\* get_free_pid returns the first free slot.
FindPid ==
    /\ At({"find"})
    /\ \E p \in FreePids :
          /\ \A q \in FreePids : p <= q
          /\ SetTop([Top EXCEPT !.pc = "reserve", !.pid = p])
    /\ UNCHANGED <<active_pids, terminal_pids, contextVars, terminalVars,
                   pcbVars, rtcVars, cpu, wild>>

\* get_free_pid finds no slot: "Too many processes", and process_start
\* refuses the -1.  After halt, the ended program would go on running.
FindNoPid ==
    /\ At({"find"})
    /\ FreePids = {}
    /\ Return
    /\ wild' = (Top.by = "halt")
    /\ UNCHANGED <<active_pids, terminal_pids, contextVars, terminalVars,
                   pcbVars, rtcVars, cpu>>

\* Mutant: the pid is marked active when it is only created.
ReservePid_Active ==
    /\ At({"reserve"})
    /\ active_pids' = [active_pids EXCEPT ![Top.pid] = 1]
    /\ SetTop([Top EXCEPT !.pc = "load"])
    /\ UNCHANGED <<terminal_pids, contextVars, terminalVars, pcbVars, rtcVars,
                   cpu, wild>>

\* active_pids[pid] = 0, with interrupts on since the sti above get_free_pid.
ReservePid ==
    /\ At({"reserve"})
    /\ active_pids' = [active_pids EXCEPT ![Top.pid] = 0]
    /\ SetTop([Top EXCEPT !.pc = "load"])
    /\ UNCHANGED <<terminal_pids, contextVars, terminalVars, pcbVars, rtcVars,
                   cpu, wild>>

\* Mutant: the creator's esp and ebp are not saved.
StartProcess_Unsaved(p) ==
    LET suspended == [Top EXCEPT !.pc = IF Top.by = "execute" THEN "child"
                                        ELSE "off"]
        ks == IF current_pid # None
              THEN [kstack EXCEPT ![cpu] = [kstack[cpu] EXCEPT ![Depth] = suspended]]
              ELSE [kstack EXCEPT ![cpu] = <<>>]
    IN  /\ active_pids' = [active_pids EXCEPT ![p] = 1]
        /\ kernel_esp' = [q \in Pids |-> IF q = p THEN <<p, 0>> ELSE kernel_esp[q]]
        /\ current_pid' = p
        /\ file_descriptors' = p
        /\ terminal_pids' = [terminal_pids EXCEPT ![Top.term] = p]
        /\ esp0' = p
        /\ cpu' = p
        /\ kstack' = [ks EXCEPT ![p] = <<>>]
        /\ wild' = FALSE

\* Mutant: the new process takes the terminal on the screen, not its own.
StartProcess_OnScreen(p) ==
    LET suspended == [Top EXCEPT !.pc = IF Top.by = "execute" THEN "child"
                                        ELSE "off"]
        ks == IF current_pid # None
              THEN [kstack EXCEPT ![cpu] = [kstack[cpu] EXCEPT ![Depth] = suspended]]
              ELSE [kstack EXCEPT ![cpu] = <<>>]
    IN  /\ active_pids' = [active_pids EXCEPT ![p] = 1]
        /\ kernel_esp' = [q \in Pids |-> IF q = current_pid THEN <<cpu, Depth>>
                                         ELSE IF q = p THEN <<p, 0>>
                                         ELSE kernel_esp[q]]
        /\ current_pid' = p
        /\ file_descriptors' = p
        /\ terminal_pids' = [terminal_pids EXCEPT ![current_terminal] = p]
        /\ esp0' = p
        /\ cpu' = p
        /\ kstack' = [ks EXCEPT ![p] = <<>>]
        /\ wild' = FALSE

\* process_start of the new process p: the creator's context is saved in the PCB
\* of current_pid, if there is one.  The CPU enters user code with an iret; if
\* interrupts arrive before, this is a step of its own, on the creator's stack.
StartProcess(p) ==
    LET suspended == [Top EXCEPT !.pc = IF Top.by = "execute" THEN "child"
                                        ELSE "off"]
        start == [Top EXCEPT !.pc = "start"]
        ks == IF current_pid # None
              THEN [kstack EXCEPT ![cpu] = [kstack[cpu] EXCEPT ![Depth] = suspended]]
              ELSE [kstack EXCEPT ![cpu] = <<>>]
        empty == [ks EXCEPT ![p] = <<>>]
    IN  /\ active_pids' = [active_pids EXCEPT ![p] = 1]
        /\ kernel_esp' = [q \in Pids |-> IF q = current_pid THEN <<cpu, Depth>>
                                         ELSE IF q = p THEN <<p, 0>>
                                         ELSE kernel_esp[q]]
        /\ current_pid' = p
        /\ file_descriptors' = p
        /\ terminal_pids' = [terminal_pids EXCEPT ![Top.term] = p]
        /\ esp0' = p
        /\ IF "start" \in Windows
           THEN /\ cpu' = cpu
                /\ kstack' = [empty EXCEPT ![cpu] = Append(empty[cpu], start)]
           ELSE /\ cpu' = p
                /\ kstack' = empty
        /\ wild' = FALSE

\* process_start returns -1: another creator has started p meanwhile.
RefuseStart(p) ==
    /\ kernel_esp' = [kernel_esp EXCEPT ![p] = <<p, 0>>]
    /\ Return
    /\ wild' = (Top.by = "halt")
    /\ UNCHANGED <<active_pids, terminal_pids, current_pid, esp0,
                   file_descriptors, cpu>>

\* Mutant: every new process is a child of the current one.
LoadAndStart_Adopts ==
    /\ At({"load"})
    /\ LET p == Top.pid
       IN  /\ page' = p
           /\ terminal_id' = [terminal_id EXCEPT ![p] = Top.term]
           /\ parent_pcb' = [parent_pcb EXCEPT
                  ![p] = current_pid]
           /\ IF active_pids[p] = 0 THEN StartProcess(p) ELSE RefuseStart(p)
    /\ UNCHANGED <<terminalVars, rtcVars>>

\* The rest of process_create with interrupts off (page, program, PCB), then
\* process_start.
LoadAndStart ==
    /\ At({"load"})
    /\ LET p == Top.pid
       IN  /\ page' = p
           /\ terminal_id' = [terminal_id EXCEPT ![p] = Top.term]
           /\ parent_pcb' = [parent_pcb EXCEPT
                  ![p] = IF Top.by = "execute" THEN current_pid ELSE None]
           /\ IF active_pids[p] = 0 THEN StartProcess(p) ELSE RefuseStart(p)
    /\ UNCHANGED <<terminalVars, rtcVars>>

\* The iret of process_start.
Iret ==
    /\ At({"start"})
    /\ cpu' = Top.pid
    /\ Return
    /\ UNCHANGED <<active_pids, terminal_pids, contextVars, terminalVars,
                   pcbVars, rtcVars, wild>>

-----------------------------------------------------------------------------
(* The RTC interrupt and the scheduler.                                    *)

RtcInterrupt ==
    /\ InterruptsOn
    /\ ~rtc_in_service
    /\ rtc_in_service' = TRUE
    /\ Enter(RtcFrame)
    /\ UNCHANGED <<active_pids, terminal_pids, contextVars, terminalVars,
                   pcbVars, rtc_count, current_index, wild>>

\* send_eoi(RTC_IRQ); sti
RtcAck ==
    /\ At({"ack"})
    /\ rtc_in_service' = FALSE
    /\ SetTop([Top EXCEPT !.pc = "tick"])
    /\ UNCHANGED <<active_pids, terminal_pids, contextVars, terminalVars,
                   pcbVars, rtc_count, current_index, cpu, wild>>

\* The k-th terminal after current_index, and whether the scheduler would
\* switch to the process that holds it.
NthIndex(k) == (current_index + k) % NumTerminals
Eligible(k) == terminal_pids[NthIndex(k)] \notin {None, current_pid}

\* Mutant: the scheduler's loop stops one terminal early.
Rounds_Short == 1 .. NumTerminals - 1

Rounds == 1 .. NumTerminals

\* Mutant: the count goes below zero.
Countdown_Unguarded == rtc_count - 1

\* rtc_count after this interrupt; 0 means the time slice is over.
Countdown == IF rtc_count > 0 THEN rtc_count - 1 ELSE 0

\* The time slice goes on, or it is over and no other terminal has a process
\* (current_index has then gone round to where it was).
RtcTick ==
    /\ At({"tick"})
    /\ \/ Countdown # 0 /\ rtc_count' = Countdown
       \/ /\ Countdown = 0
          /\ \A k \in Rounds : ~Eligible(k)
          /\ rtc_count' = SchedTicks
    /\ Return
    /\ UNCHANGED <<active_pids, terminal_pids, contextVars, terminalVars,
                   pcbVars, current_index, rtc_in_service, cpu, wild>>

\* The time slice is over: call process_switch for the next terminal's process.
RtcSchedule ==
    /\ At({"tick"})
    /\ Countdown = 0
    /\ rtc_count' = SchedTicks
    /\ \E k \in Rounds :
          /\ Eligible(k)
          /\ \A j \in Rounds : j < k => ~Eligible(j)
          /\ current_index' = NthIndex(k)
          /\ SetTop([Top EXCEPT !.pc = "save", !.pid = terminal_pids[NthIndex(k)]])
    /\ UNCHANGED <<active_pids, terminal_pids, contextVars, terminalVars,
                   pcbVars, rtc_in_service, cpu, wild>>

\* Mutant: process_switch saves nothing.
SwitchSave_Skipped ==
    /\ At({"save"})
    /\ SetTop([Top EXCEPT !.pc = "set"])
    /\ UNCHANGED <<active_pids, terminal_pids, contextVars, terminalVars,
                   pcbVars, rtcVars, cpu, wild>>

\* process_switch saves esp and ebp in the PCB of current_pid, if any, ...
SwitchSave ==
    /\ At({"save"})
    /\ kernel_esp' = [q \in Pids |-> IF q = current_pid THEN <<cpu, Depth>>
                                     ELSE kernel_esp[q]]
    /\ SetTop([Top EXCEPT !.pc = "set"])
    /\ UNCHANGED <<active_pids, terminal_pids, contextVars, terminalVars,
                   parent_pcb, terminal_id, rtcVars, cpu, wild>>

\* Mutant: the page at 128 MB keeps mapping the old process.
SwitchSet_OldPage ==
    /\ At({"set"})
    /\ esp0' = Top.pid
    /\ current_pid' = Top.pid
    /\ file_descriptors' = Top.pid
    /\ SetTop([Top EXCEPT !.pc = "jump"])
    /\ UNCHANGED <<active_pids, terminal_pids, page, terminalVars, pcbVars,
                   rtcVars, cpu, wild>>

\* ... makes the target the current process, ...
SwitchSet ==
    /\ At({"set"})
    /\ esp0' = Top.pid
    /\ current_pid' = Top.pid
    /\ file_descriptors' = Top.pid
    /\ page' = Top.pid
    /\ SetTop([Top EXCEPT !.pc = "jump"])
    /\ UNCHANGED <<active_pids, terminal_pids, terminalVars, pcbVars, rtcVars,
                   cpu, wild>>

\* ... and continues where the target was suspended.
SwitchJump ==
    /\ At({"jump"})
    /\ LET off == [Top EXCEPT !.pc = "off"]
       IN  Resume(kernel_esp[Top.pid], "off",
                  [kstack EXCEPT ![cpu] = [kstack[cpu] EXCEPT ![Depth] = off]])
    /\ UNCHANGED <<active_pids, terminal_pids, contextVars, terminalVars,
                   pcbVars, rtcVars>>

-----------------------------------------------------------------------------
(* The keyboard and halt.                                                  *)

\* Mutant: switch_terminal does not ask for a free pid first.
SwitchTerminal_Unchecked(t) ==
    /\ InterruptsOn
    /\ t # current_terminal
    /\ current_terminal' = t
    /\ IF terminal_active[t]
       THEN UNCHANGED <<terminal_active, cpu, kstack>>
       ELSE /\ terminal_active' = [terminal_active EXCEPT ![t] = TRUE]
            /\ Enter(CreateFrame("keyboard", t))
    /\ UNCHANGED <<active_pids, terminal_pids, contextVars, pcbVars, rtcVars, wild>>

\* Alt+F(t+1) in keyboard_handler, which has sent its EOI: switch_terminal,
\* up to the sti in process_create when the terminal has no shell yet.
SwitchTerminal(t) ==
    /\ InterruptsOn
    /\ t # current_terminal
    /\ FreePids # {} \/ terminal_active[t]
    /\ current_terminal' = t
    /\ IF terminal_active[t]
       THEN UNCHANGED <<terminal_active, cpu, kstack>>
       ELSE /\ terminal_active' = [terminal_active EXCEPT ![t] = TRUE]
            /\ Enter(CreateFrame("keyboard", t))
    /\ UNCHANGED <<active_pids, terminal_pids, contextVars, pcbVars, rtcVars, wild>>

\* Mutant: the terminal is given up and the CPU idles; no shell is reopened.
HaltRoot_Clears ==
    /\ UserMode
    /\ current_pid # None
    /\ parent_pcb[current_pid] = None
    /\ current_pid' = None
    /\ active_pids' = [active_pids EXCEPT ![current_pid] = -1]
    /\ terminal_pids' = [terminal_pids EXCEPT ![terminal_id[current_pid]] = None]
    /\ cpu' = None
    /\ kstack' = [kstack EXCEPT ![None] = <<>>]
    /\ UNCHANGED <<page, esp0, file_descriptors, terminalVars, pcbVars,
                   rtcVars, wild>>

\* halt of a process without a parent: its pid is free, no process is current,
\* and a new shell is created on its terminal.
HaltRoot ==
    /\ UserMode
    /\ current_pid # None
    /\ parent_pcb[current_pid] = None
    /\ current_pid' = None
    /\ active_pids' = [active_pids EXCEPT ![current_pid] = -1]
    /\ Enter(CreateFrame("halt", terminal_id[current_pid]))
    /\ UNCHANGED <<terminal_pids, page, esp0, file_descriptors, terminalVars,
                   pcbVars, rtcVars, wild>>

\* Mutant: the parent does not get its terminal back.
HaltChild_KeepsTerminal ==
    /\ UserMode
    /\ current_pid # None
    /\ LET parent == parent_pcb[current_pid]
       IN  /\ parent # None
           /\ esp0' = parent
           /\ file_descriptors' = parent
           /\ current_pid' = parent
           /\ active_pids' = [active_pids EXCEPT ![current_pid] = -1]
           /\ page' = parent
           /\ Resume(kernel_esp[parent], "child", kstack)
    /\ UNCHANGED <<terminal_pids, terminalVars, pcbVars, rtcVars>>

\* halt of a child: the parent becomes current and returns from its execute.
HaltChild ==
    /\ UserMode
    /\ current_pid # None
    /\ LET parent == parent_pcb[current_pid]
       IN  /\ parent # None
           /\ esp0' = parent
           /\ file_descriptors' = parent
           /\ current_pid' = parent
           /\ terminal_pids' = [terminal_pids EXCEPT ![terminal_id[parent]] = parent]
           /\ active_pids' = [active_pids EXCEPT ![current_pid] = -1]
           /\ page' = parent
           /\ Resume(kernel_esp[parent], "child", kstack)
    /\ UNCHANGED <<terminalVars, pcbVars, rtcVars>>

-----------------------------------------------------------------------------
KernelStep == \/ FindPid \/ FindNoPid \/ ReservePid \/ LoadAndStart \/ Iret
              \/ RtcAck \/ RtcTick \/ RtcSchedule
              \/ SwitchSave \/ SwitchSet \/ SwitchJump

Next == /\ ~wild
        /\ \/ KernelStep
           \/ RtcInterrupt
           \/ \E t \in Terminals : SwitchTerminal(t)
           \/ Execute \/ HaltRoot \/ HaltChild

Spec == Init /\ [][Next]_vars

\* The CPU keeps executing kernel code, and a pending RTC request is taken
\* when interrupts are on infinitely often (the PIC latches it).  Nothing is
\* assumed of user programs or of the keyboard.
Fairness == WF_vars(~wild /\ KernelStep) /\ SF_vars(~wild /\ RtcInterrupt)
FairSpec == Spec /\ Fairness

-----------------------------------------------------------------------------
(* Properties.                                                             *)

\* Type correctness of the process table, PCBs, scheduler and kernel stacks.
TypeOK ==
    /\ active_pids \in [Pids -> {-1, 0, 1}]
    /\ terminal_pids \in [Terminals -> PidOrNone]
    /\ current_pid \in PidOrNone
    /\ terminal_active \in [Terminals -> BOOLEAN]
    /\ current_terminal \in Terminals
    /\ parent_pcb \in [Pids -> PidOrNone]
    /\ terminal_id \in [Pids -> Terminals]
    /\ kernel_esp \in [Pids -> Stacks \X Nat]
    /\ page \in PidOrNone
    /\ esp0 \in PidOrNone
    /\ file_descriptors \in PidOrNone
    /\ rtc_count \in 0 .. SchedTicks
    /\ current_index \in Terminals
    /\ rtc_in_service \in BOOLEAN
    /\ cpu \in Stacks
    /\ kstack \in [Stacks -> Seq(Frame)]
    /\ wild \in BOOLEAN

Live(p) == active_pids[p] = 1

TopPc(s) == kstack[s][Len(kstack[s])].pc

ChildOf(q, p) == Live(q) /\ parent_pcb[q] = p

\* process_switch and halt only ever load an esp and ebp that process_start or
\* process_switch saved and that is still on that stack, and an ended program
\* never executes again.
ControlKept == ~wild

\* Whenever user code runs, the process that runs is started and is the one
\* current_pid, the page at 128 MB, tss.esp0 and file_descriptors designate.
ContextCoherent ==
    UserMode /\ cpu # None =>
        /\ Live(cpu)
        /\ <<current_pid, page, esp0, file_descriptors>> = <<cpu, cpu, cpu, cpu>>

\* A started process that is not executing can be resumed: its PCB holds the
\* top of its own kernel stack, where it waits for a child or for its turn.
SavedContextOwn ==
    \A p \in Pids : Live(p) /\ p # cpu =>
        /\ kstack[p] # <<>>
        /\ kernel_esp[p] = <<p, Len(kstack[p])>>
        /\ TopPc(p) \in {"child", "off"}

\* The parent of a started process is started, waits in execute on the same
\* terminal, and waits for that process only: halt returns to the right place.
ParentWaits ==
    \A q \in Pids : Live(q) /\ parent_pcb[q] # None =>
        LET p == parent_pcb[q]
        IN  /\ Live(p)
            /\ terminal_id[p] = terminal_id[q]
            /\ kstack[p] # <<>> /\ TopPc(p) = "child"
            /\ \A r \in Pids : ChildOf(r, p) => r = q

\* While halt restarts the root shell of terminal t.
Restarting(t) == /\ current_pid = None
                 /\ ~UserMode
                 /\ Top.by = "halt"
                 /\ Top.term = t

\* The scheduler only gives the CPU to leaves: the process that holds a
\* terminal is started, belongs to that terminal and waits for no child.
TerminalHeldByLeaf ==
    \A t \in Terminals : terminal_pids[t] # None /\ ~Restarting(t) =>
        LET p == terminal_pids[t]
        IN  Live(p) /\ terminal_id[p] = t /\ \A q \in Pids : ~ChildOf(q, p)

\* No started process is lost to the scheduler: it holds its terminal or it
\* waits for a child that is not lost either.
NoLostProcess ==
    \A p \in Pids : Live(p) =>
        terminal_pids[terminal_id[p]] = p \/ \E q \in Pids : ChildOf(q, p)

\* A pid that is reserved and not started belongs to exactly one creation in
\* progress: slots are neither leaked nor handed out twice.
LoadFrames(p) ==
    {x \in UNION {{<<s, d>> : d \in 1 .. Len(kstack[s])} : s \in Stacks} :
        kstack[x[1]][x[2]].pc = "load" /\ kstack[x[1]][x[2]].pid = p}

ReservedOnce ==
    \A p \in Pids : active_pids[p] = 0 <=> \E x \in LoadFrames(p) : LoadFrames(p) = {x}

\* A slot goes from free (-1) to created (0) to active (1) and back to free, as
\* the comment on active_pids in syscall_handler.h says.
PidLifecycle ==
    [][\A p \in Pids : active_pids'[p] # active_pids[p] =>
          <<active_pids[p], active_pids'[p]>> \in {<<-1, 0>>, <<0, 1>>, <<1, -1>>}]_vars

\* The started processes of a terminal, and any set of processes as a stack of jobs, each
\* the parent of the next.
LiveOn(t) == {p \in Pids : Live(p) /\ terminal_id[p] = t}
JobStack(procs, parent) ==
    LET job[i \in 1 .. Cardinality(procs)] ==
            CHOOSE p \in procs : parent[p] = IF i = 1 THEN None ELSE job[i - 1]
    IN  job

\* A shell is being created with no current process.
Orphan == kstack[cpu] # <<>> /\ TopPc(cpu) \in CreatePcs /\ Top.by \in {"halt", "boot"}

\* The jobs of every terminal, the process that runs, and the terminal a shell is created
\* for while there is none.
JobStacks == [t \in Terminals |-> JobStack(LiveOn(t), parent_pcb)]
Running   == IF Orphan THEN None ELSE cpu
Opening   == IF Orphan THEN Top.term ELSE None

\* The process table, the PCBs and the kernel stacks implement a stack of jobs per
\* terminal: halt goes back to the job below, a new program goes on top of the one that
\* executed it, whatever the terminal on the screen, and the scheduler and a terminal
\* switch only ever hand the CPU from one top job to another.
J == INSTANCE Jobs WITH
         jobs <- JobStacks, running <- Running, opening <- Opening, Console <- 0

JobsAsStacks == J!Spec

\* A process whose time slice ended (or that a new shell pushed aside) gets
\* the CPU back: the scheduler starves nobody.
SuspendedRuns ==
    \A p \in Pids : (Live(p) /\ p # cpu /\ TopPc(p) = "off") ~> (cpu = p)

\* A terminal the user has brought to the screen gets a shell.
TerminalGetsShell ==
    \A t \in Terminals : terminal_active[t] ~> terminal_pids[t] # None

\* Once a terminal has had a process it has one again and again: when its root
\* shell halts, another started process takes the terminal.
ShellReopens ==
    \A t \in Terminals :
        [](terminal_pids[t] # None =>
              []<>(terminal_pids[t] # None /\ Live(terminal_pids[t])))
==============================================================================
