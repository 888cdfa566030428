------------------------------- MODULE Machine -------------------------------
(***************************************************************************)
(* From the boot loader to the first shell, and the way of an interrupt:   *)
(* entry() and the tables it sets up, the two 8259 interrupt controllers,  *)
(* the registers of the RTC, the keyboard controller, and the handlers as  *)
(* far as they deal with these devices.                                    *)
(*                                                                         *)
(* The CPU executes the kernel in steps, with one frame for every          *)
(* interrupt it is in; an interrupt that may be delivered is, before the   *)
(* next step.  A handler may leave its kernel stack: the keyboard's when   *)
(* it starts a shell on another terminal, the RTC's when it switches to    *)
(* the process of another terminal.  Here such a change of stacks is one   *)
(* step, any process may be the next, and there is always a free pid; the  *)
(* table of processes, and what can go wrong inside a change, is in        *)
(* Processes.  What the handlers do besides is in FileDescriptors (the     *)
(* counters of the virtual RTCs) and TerminalInput (keys).                 *)
(***************************************************************************)
EXTENDS Integers, Sequences

CONSTANTS
    Loads,          \* what the boot loader may hand over, see Init
    NumTerminals,   \* length of terminal_active (3 in the code)
    MaxNest,        \* bound: interrupts in progress when a period of the RTC ends
    MaxKeys         \* bound: how often keys are pressed

ASSUME LoadsAssumption ==
    Loads \subseteq [magic : BOOLEAN, both : BOOLEAN, modules : Seq({"fs", "other"})]

KEYBOARD_IRQ == 1
CASCADE_IRQ  == 2
RTC_IRQ      == 8
IRQs         == {KEYBOARD_IRQ, CASCADE_IRQ, RTC_IRQ}
Lines        == {KEYBOARD_IRQ, RTC_IRQ}     \* those a device is on

VARIABLES
    load,       \* [magic, both, modules]: the magic number is right; bits 4 and 5 of the flags
                \* are both set; what each module is, "fs" with a shell in it or "other"
    boot,       \* what entry() does next; "up" once the shell runs; "exception" in a handler
                \* that never returns; "halted" when the CPU waits with interrupts off
    fs_img,     \* fs_img_start, as the number of the module; 0 is no module (-1)
    gates,      \* interrupt lines whose entry of the IDT is set
    ready,      \* what has been set up: "tss", with the LDT; "idt", with the exceptions and the
                \* system call; "paging"; "processes", the table of processes
    pic,        \* [on, masked, irr, isr] of both controllers; on: their vectors are set
    rtc,        \* [B, C]: whether periodic interrupts are on; whether one is not acknowledged
    key,        \* [full, pressed]: a scan code to be read; a count
    iflag,      \* interrupts are enabled
    frames,     \* what the CPU executes, on the kernel stack it uses, innermost last
    away,       \* the other kernel stacks with something on them, in no order that matters
    active      \* how many terminals are marked in terminal_active

deviceVars == <<pic, rtc, key>>
bootVars   == <<load, boot, fs_img, gates, ready>>
stackVars  == <<frames, away, active>>
vars == <<bootVars, deviceVars, iflag, stackVars>>

Frame(what, pc, if) == [what |-> what, pc |-> pc, if |-> if]
Shell == <<Frame("program", "run", TRUE)>>

\* The innermost frame, and the stack when it goes on at pc.
Top == frames[Len(frames)]
AtPc(pc) == [frames EXCEPT ![Len(frames)].pc = pc]
Goto(pc) == frames' = AtPc(pc) /\ UNCHANGED <<away, active>>

-----------------------------------------------------------------------------
(* The devices                                                             *)

\* A line that rises requests an interrupt, if its controller does not miss it; one
\* that falls takes the request back.
Raised(p, n) == [p EXCEPT !.irr = @ \cup {n}]
Lowered(p, n) == [p EXCEPT !.irr = @ \ {n}]

\* A period of the RTC has passed.  The line stays high until register C is read.
RtcPeriod ==
    /\ rtc.B /\ ~rtc.C /\ Len(frames) <= MaxNest + 1
    /\ rtc' = [rtc EXCEPT !.C = TRUE]
    /\ pic' = Raised(pic, RTC_IRQ)
    /\ UNCHANGED <<bootVars, key, iflag, stackVars>>

\* The keyboard controller hands out the next scan code when the last one was read.
\* Nothing is pressed before i8259_init, which forgets lines that are high.
KeyPress ==
    /\ pic.on
    /\ ~key.full /\ key.pressed < MaxKeys
    /\ key' = [full |-> TRUE, pressed |-> key.pressed + 1]
    /\ pic' = Raised(pic, KEYBOARD_IRQ)
    /\ UNCHANGED <<bootVars, rtc, iflag, stackVars>>

-----------------------------------------------------------------------------
(* i8259.c                                                                 *)

\* The initialization words clear the requests, what is in service and the masks;
\* then all is masked but the line of the second controller.
i8259_init ==
    pic' = [on |-> TRUE, masked |-> IRQs \ {CASCADE_IRQ}, irr |-> {}, isr |-> {}]

\* Mutant: the bit of the second controller is not counted from 8; eight bits hold no bit 8.
enable_irq_NoSub(p, n) == [p EXCEPT !.masked = IF n < 8 THEN @ \ {n} ELSE @]

enable_irq(p, n) == [p EXCEPT !.masked = @ \ {n}]

\* Mutant: the first controller is not told that the second one is done.
send_eoi_SlaveOnly(p, n) == [p EXCEPT !.isr = @ \ {n}]

\* A line of the second controller is also the cascade line of the first.
send_eoi(p, n) == [p EXCEPT !.isr = @ \ (IF n < 8 THEN {n} ELSE {n, CASCADE_IRQ})]

\* What the controllers deliver: an unmasked request with none of the same or a higher
\* priority in service; the second controller's lines have the priority of line 2.
Deliverable(n) ==
    /\ n \in pic.irr /\ n \notin pic.masked
    /\ n = KEYBOARD_IRQ => KEYBOARD_IRQ \notin pic.isr
    /\ n = RTC_IRQ => CASCADE_IRQ \notin pic.masked /\ pic.isr = {}

Pending == {n \in Lines : Deliverable(n)}

\* The CPU enters the handler of n: the keyboard's through an interrupt gate, with interrupts
\* off, the RTC's through a trap gate, with interrupts on.  Without a gate, or without
\* vectors in the controllers, it ends in an exception or worse.
Accept(n) ==
    /\ iflag /\ n \in Pending
    /\ n = RTC_IRQ => KEYBOARD_IRQ \notin Pending
    /\ pic' = [pic EXCEPT !.irr = @ \ {n},
                          !.isr = @ \cup (IF n < 8 THEN {n} ELSE {n, CASCADE_IRQ})]
    /\ IF "idt" \in ready /\ pic.on /\ n \in gates
       THEN /\ frames' = Append(frames, IF n = RTC_IRQ THEN Frame("rtc", "ack", iflag)
                                        ELSE Frame("keyboard", "inb", iflag))
            /\ iflag' = (n = RTC_IRQ)
            /\ UNCHANGED boot
       ELSE boot' = "exception" /\ iflag' = FALSE /\ UNCHANGED frames
    /\ UNCHANGED <<load, fs_img, gates, ready, rtc, key, away, active>>

-----------------------------------------------------------------------------
(* kernel.c: entry(), called with interrupts off                           *)

\* Mutant: the controllers are initialized when the devices have enabled their lines.
After_PicLast == [check |-> "descriptors", descriptors |-> "idt", idt |-> "paging", paging |-> "fs",
                  fs |-> "rtc_B", rtc_B |-> "rtc_C", rtc_C |-> "keyboard", keyboard |-> "pic", pic |-> "processes", processes |-> "create"]

\* The order of the calls.
After == [check |-> "descriptors", descriptors |-> "idt", idt |-> "pic", pic |-> "paging",
          paging |-> "fs", fs |-> "rtc_B", rtc_B |-> "rtc_C", rtc_C |-> "keyboard",
           keyboard |-> "processes", processes |-> "create"]

NextStep == After[boot]

\* Mutant: every module is taken for the file system, so that the last one counts.
blk_start_Last == Len(load.modules)

\* The first module, or none.
blk_start == IF load.modules = <<>> THEN 0 ELSE 1

\* A step of entry(): the interrupts that come in while process_create has them on
\* are handled first.
Entry(step) == boot = step /\ Len(frames) = 1 /\ ~(iflag /\ Pending # {})

Init ==
    /\ load \in Loads
    /\ boot = "check"
    /\ fs_img = 0 /\ gates = {} /\ ready = {}
    \* The devices and the controllers are as the BIOS and the boot loader left them.
    /\ rtc \in [B : BOOLEAN, C : BOOLEAN]
    /\ \E irr \in SUBSET {RTC_IRQ} :
         pic = [on |-> FALSE, masked |-> {}, irr |-> irr, isr |-> {}]
    /\ key = [full |-> FALSE, pressed |-> 0]
    /\ iflag = FALSE /\ frames = <<Frame("entry", "run", FALSE)>> /\ away = <<>>
    /\ active = 1

check ==
    /\ Entry("check")
    /\ boot' = IF load.magic /\ ~load.both THEN NextStep ELSE "halted"
    /\ UNCHANGED <<load, fs_img, gates, ready, deviceVars, iflag, stackVars>>

\* The LDT and the TSS.
descriptors ==
    /\ Entry("descriptors")
    /\ boot' = NextStep
    /\ ready' = ready \cup {"tss"}
    /\ UNCHANGED <<load, fs_img, gates, deviceVars, iflag, stackVars>>

initialize_idt ==
    /\ Entry("idt")
    /\ boot' = NextStep
    /\ gates' = {RTC_IRQ, KEYBOARD_IRQ} /\ ready' = ready \cup {"idt"}
    /\ UNCHANGED <<load, fs_img, deviceVars, iflag, stackVars>>

initPic ==
    /\ Entry("pic")
    /\ boot' = NextStep
    /\ i8259_init
    /\ UNCHANGED <<load, fs_img, gates, ready, rtc, key, iflag, stackVars>>

paging_init ==
    /\ Entry("paging")
    /\ boot' = NextStep
    /\ ready' = ready \cup {"paging"}
    /\ UNCHANGED <<load, fs_img, gates, deviceVars, iflag, stackVars>>

fs_init ==
    /\ Entry("fs")
    /\ boot' = NextStep
    /\ fs_img' = blk_start
    /\ UNCHANGED <<load, gates, ready, deviceVars, iflag, stackVars>>

\* Mutant: register C is not read; a period that had ended before keeps the line high.
ReadC_Not(r) == r

ReadC(r) == [r EXCEPT !.C = FALSE]

\* rtc_init: periodic interrupts on, at a rate that nothing here depends on; the line
\* lowered and enabled.
rtc_init ==
    /\ \/ /\ Entry("rtc_B")
          /\ rtc' = [rtc EXCEPT !.B = TRUE]
          /\ pic' = IF rtc.C THEN Raised(pic, RTC_IRQ) ELSE pic
       \/ /\ Entry("rtc_C")
          /\ rtc' = ReadC(rtc)
          /\ pic' = enable_irq(IF rtc'.C THEN pic ELSE Lowered(pic, RTC_IRQ), RTC_IRQ)
    /\ boot' = NextStep
    /\ UNCHANGED <<load, fs_img, gates, ready, key, iflag, stackVars>>

keyboard_init ==
    /\ Entry("keyboard")
    /\ boot' = NextStep
    /\ pic' = enable_irq(pic, KEYBOARD_IRQ)
    /\ UNCHANGED <<load, fs_img, gates, ready, rtc, key, iflag, stackVars>>

processes_init ==
    /\ Entry("processes")
    /\ boot' = NextStep
    /\ ready' = ready \cup {"processes"}
    /\ UNCHANGED <<load, fs_img, gates, deviceVars, iflag, stackVars>>

\* process_create for the first shell: without an image it reads an unmapped page, without
\* a shell in it it fails, process_start refuses its result and entry() waits, with
\* interrupts off.  Otherwise interrupts are on until the pid is taken.
create ==
    /\ Entry("create")
    /\ IF fs_img = 0 THEN boot' = "exception" /\ UNCHANGED iflag
       ELSE IF load.modules[fs_img] # "fs" THEN boot' = "halted" /\ UNCHANGED iflag
       ELSE boot' = "window" /\ iflag' = TRUE
    /\ UNCHANGED <<load, fs_img, gates, ready, deviceVars, stackVars>>

\* cli, the rest of process_create, and process_start, which enables interrupts for good.
start ==
    /\ Entry("window")
    /\ boot' = "up"
    /\ frames' = Shell
    /\ UNCHANGED <<load, fs_img, gates, ready, deviceVars, iflag, away, active>>

Boot == \/ check \/ descriptors \/ initialize_idt \/ initPic \/ paging_init \/ fs_init
        \/ rtc_init \/ keyboard_init \/ processes_init \/ create \/ start

-----------------------------------------------------------------------------
(* Programs and handlers                                                   *)

\* The CPU executes the innermost frame, unless an interrupt comes in first.
Step(what, pc) ==
    /\ boot \in {"window", "up"} /\ ~(iflag /\ Pending # {})
    /\ Top.what = what /\ Top.pc = pc

\* A system call that turns interrupts off for a while.
Cli == /\ Step("program", "run")
       /\ iflag' = FALSE /\ Goto("off")
       /\ UNCHANGED <<bootVars, deviceVars>>

Sti == /\ Step("program", "off")
       /\ iflag' = TRUE /\ Goto("run")
       /\ UNCHANGED <<bootVars, deviceVars>>

\* An exception: its handler, entered through an interrupt gate, prints and loops.
Fault == /\ Step("program", "run")
         /\ boot' = "exception" /\ iflag' = FALSE
         /\ UNCHANGED <<load, fs_img, gates, ready, deviceVars, stackVars>>

\* The processes the scheduler can switch to, by their stacks.  What entry() was doing when a
\* key started a shell is in no PCB, and not resumed.
Others == {k \in DOMAIN away : away[k][1].what = "program"}

\* process_switch, out of rtc_handler, to the stack of another process, with interrupts on.
process_switch(k) ==
    /\ frames' = away[k]
    /\ away' = [away EXCEPT ![k] = AtPc("cli")]
    /\ UNCHANGED <<iflag, active>>

\* rtc_handler: register C is read, the end of the interrupt reported, and interrupts are
\* enabled for the rest.  When the time slice is over and there is another process, it runs;
\* interrupts are off at the end unless there is none.
rtc_handler ==
    /\ \/ /\ Step("rtc", "ack")
          /\ rtc' = ReadC(rtc) /\ Goto("eoi")
          /\ pic' = IF rtc'.C THEN pic ELSE Lowered(pic, RTC_IRQ)
          /\ UNCHANGED iflag
       \/ /\ Step("rtc", "eoi")
          /\ pic' = send_eoi(pic, RTC_IRQ) /\ Goto("sti")
          /\ UNCHANGED <<rtc, iflag>>
       \/ /\ Step("rtc", "sti")
          /\ iflag' = TRUE /\ Goto("end")
          /\ UNCHANGED <<pic, rtc>>
       \/ /\ Step("rtc", "end")
          /\ \/ iflag' = FALSE /\ Goto("iret")
             \/ Others = {} /\ UNCHANGED iflag /\ Goto("iret")
             \/ \E k \in Others : process_switch(k)
          /\ UNCHANGED <<pic, rtc>>
       \/ /\ Step("rtc", "cli")
          /\ iflag' = FALSE /\ Goto("iret")
          /\ UNCHANGED <<pic, rtc>>
    /\ UNCHANGED <<bootVars, key>>

\* keyboard_handler: the scan code is read and the end reported, whatever the key.
ReadKey ==
    /\ \/ /\ Step("keyboard", "inb")
          /\ key' = [key EXCEPT !.full = FALSE] /\ Goto("eoi")
          /\ pic' = Lowered(pic, KEYBOARD_IRQ)
          /\ UNCHANGED iflag
       \/ /\ Step("keyboard", "eoi")
          /\ pic' = send_eoi(pic, KEYBOARD_IRQ)
          /\ \/ Goto("sti") /\ UNCHANGED iflag
             \* A function key with Alt, for the terminal on the screen or when there is no
             \* pid for a shell: switch_terminal does nothing.
             \/ Goto("iret") /\ UNCHANGED iflag
             \* One for a terminal without a shell: process_create enables interrupts.
             \/ /\ active < NumTerminals /\ active' = active + 1
                /\ frames' = AtPc("create") /\ iflag' = TRUE
                /\ UNCHANGED away
          /\ UNCHANGED key
       \/ /\ Step("keyboard", "sti")
          /\ iflag' = TRUE /\ Goto("iret")
          /\ UNCHANGED <<key, pic>>
    /\ UNCHANGED <<bootVars, rtc>>

\* switch_terminal leaves through process_start to the new shell, on a stack of its own; the
\* handler goes on when the scheduler comes back to the process it interrupted, if it does.
\* A shell that comes up before the first one takes its place.
StartShell ==
    /\ Step("keyboard", "create")
    /\ boot' = "up"
    /\ frames' = Shell
    /\ away' = Append(away, AtPc("sti"))
    /\ UNCHANGED <<load, fs_img, gates, ready, deviceVars, iflag, active>>

\* Others have taken the last pids meanwhile (interrupts stay on), or the same one.
RefuseShell ==
    /\ Step("keyboard", "create") /\ boot = "up"
    /\ iflag' \in BOOLEAN /\ Goto("sti")
    /\ UNCHANGED <<bootVars, deviceVars>>

keyboard_handler == ReadKey \/ StartShell \/ RefuseShell

Iret == \E what \in {"rtc", "keyboard"} :
    /\ Step(what, "iret")
    /\ iflag' = Top.if
    /\ frames' = SubSeq(frames, 1, Len(frames) - 1)
    /\ UNCHANGED <<bootVars, deviceVars, away, active>>

Handler == rtc_handler \/ keyboard_handler \/ Iret

Next == \/ RtcPeriod \/ KeyPress
        \/ \E n \in Lines : Accept(n)
        \/ Boot \/ Cli \/ Sti \/ Fault \/ Handler

\* The CPU goes on: it takes interrupts, executes handlers and entry(), and a program that
\* has turned interrupts off turns them on again.
Spec == /\ Init /\ [][Next]_vars
        /\ WF_vars(\E n \in Lines : Accept(n)) /\ WF_vars(Handler) /\ WF_vars(Boot)
        /\ WF_vars(Sti)

-----------------------------------------------------------------------------
(* Properties                                                              *)

Bootable == load.magic /\ ~load.both /\ load.modules # <<>> /\ load.modules[1] = "fs"

\* A handler that has not reported the end of its interrupt.
Waiting(f) == \/ f.what = "rtc" /\ f.pc \in {"ack", "eoi"}
              \/ f.what = "keyboard" /\ f.pc \in {"inb", "eoi"}

\* No interrupt is taken before the tables, the controllers, the paging and the processes
\* are ready for it (process_create enables them before there is a process); then both
\* lines are open, the RTC's through the second controller too, and the file system is
\* the first module.  The shell comes up with every load it can come up with.
BootedRight ==
    /\ iflag \/ Len(frames) > 1 =>
           /\ ready = {"tss", "idt", "paging", "processes"} /\ pic.on /\ gates = Lines
           /\ pic.masked = {} /\ rtc.B
           /\ Bootable /\ fs_img = 1
    /\ boot = "halted" => ~Bootable

\* The frames of all kernel stacks, by the stack, 0 for the one in use, and the depth.
Stack(k) == IF k = 0 THEN frames ELSE away[k]
FrameAt(p) == Stack(p[1])[p[2]]
Places == UNION {{k} \X DOMAIN Stack(k) : k \in 0 .. Len(away)}

\* Those of handlers that have not reported the end, and of these the ones that have not
\* yet made the device lower its line.
Active(what) == {p \in Places : FrameAt(p).what = what /\ Waiting(FrameAt(p))}
Unread(what) == {p \in Active(what) : FrameAt(p).pc # "eoi"}

\* No interrupt is lost and no line stays blocked without a handler that blocks it: in
\* service are exactly the lines whose handler has not reported the end, each in one frame,
\* however the handlers are nested and whatever stacks they were left on; and a device whose
\* line is high has a request waiting or a handler that will lower it when it goes on.
NothingLost ==
    boot \in {"window", "up"} =>
        /\ \A what \in {"rtc", "keyboard"} : \A p, q \in Active(what) : p = q
        /\ pic.isr = (IF Active("rtc") # {} THEN {RTC_IRQ, CASCADE_IRQ} ELSE {})
                     \cup (IF Active("keyboard") # {} THEN {KEYBOARD_IRQ} ELSE {})
        /\ rtc.C => RTC_IRQ \in pic.irr \/ Unread("rtc") # {}
        /\ key.full => KEYBOARD_IRQ \in pic.irr \/ Unread("keyboard") # {}

\* A handler of the RTC that has not reported the end lies on a stack that is not in use: a
\* key has started a shell out of it.
LeftInService == \E p \in Active("rtc") : p[1] # 0

\* Every key reaches its handler, and every period of the RTC too, unless an exception has
\* stopped the machine or the RTC is left in service: then it is for good, and the scheduler
\* stands still.
InterruptsServed ==
    /\ (boot = "up" /\ rtc.C) ~> (~rtc.C \/ boot = "exception" \/ LeftInService)
    /\ (boot = "up" /\ key.full) ~> (~key.full \/ boot = "exception")
=============================================================================
