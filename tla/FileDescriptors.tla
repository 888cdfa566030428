--------------------------- MODULE FileDescriptors ---------------------------
(***************************************************************************)
(* The file descriptors in the PCBs: open, close, read and write on files, *)
(* directories and the virtual RTC (fs.c, interrupts/rtc.c and the         *)
(* handlers of interrupts/syscall_handler.c), their reset when a PCB is    *)
(* reused, and the RTC interrupt handler, which counts down the virtual    *)
(* RTCs of all terminals.                                                  *)
(*                                                                         *)
(* A descriptor is free when its inode is -1; its other fields then keep   *)
(* what the last user left in them.  rtc_handler looks at file_table_ptr   *)
(* only, never at the inode.                                               *)
(*                                                                         *)
(* The handler runs with interrupts on.  A nested RTC interrupt may arrive *)
(* between its test of file_pos and its decrement, and may switch to       *)
(* another process, so that system calls are made before the interrupted   *)
(* handler goes on.  Which process is created when is the subject of       *)
(* Processes; here process_create and halt are atomic.                     *)
(***************************************************************************)
EXTENDS Integers, FiniteSetsExt

CONSTANTS
    NumPids, NumTerminals,
    NumFds,       \* 8 in the code
    Files,        \* inodes of regular files
    FileLength,   \* their lengths
    NumDentries,  \* directory entries in the boot block: 63 in the code
    BaseRate,     \* RTC interrupts per second: 1024 in the code
    Rates,        \* frequencies that rtc_write accepts (powers of two)
    ReadSizes,    \* nbytes of file reads
    Width         \* file_pos is a uint32_t: 2^32 in the code

Pids == 0 .. NumPids - 1
Terminals == 0 .. NumTerminals - 1
Fds == 0 .. NumFds - 1
None == -1

\* The descriptors get_free_fd hands out, and halt closes.
UserFds == 2 .. NumFds - 1

\* inode of a free descriptor, and of stdin and stdout.
Free == -1
Stdio == -2

ASSUME ConstantsAssumption ==
    /\ NumPids \in Nat \ {0}
    /\ NumTerminals \in Nat \ {0}
    /\ NumFds \in Nat /\ NumFds >= 2
    /\ Files \subseteq Nat
    /\ FileLength \in [Files -> Nat]
    /\ NumDentries \in Nat
    /\ BaseRate \in Nat \ {0}
    /\ Rates \subseteq {f \in 2 .. BaseRate : BaseRate % f = 0}
    /\ 2 \in Rates
    /\ ReadSizes \subseteq Nat \ {0}
    /\ Width \in Nat
    /\ \A n \in {BaseRate, NumDentries} : n < Width
    /\ \A f \in Files : FileLength[f] < Width

\* file_table_ptr.
Tables == {"null", "terminal", "file", "directory", "rtc"}
Inodes == Files \cup {0, Free, Stdio}

\* The RTC interrupts in one period of a virtual RTC; 0 for other descriptors.
Periods == {BaseRate \div f : f \in Rates}

Descriptor == [file_table_ptr : Tables, inode : Inodes,
               file_pos : 0 .. Width - 1, flags : Periods \cup {0}]

\* A descriptor in a PCB that no process has used yet (zeroed memory), and one
\* that rtc_close has reset.
Blank == [file_table_ptr |-> "null", inode |-> 0, file_pos |-> 0, flags |-> 0]
Unused == [Blank EXCEPT !.inode = Free]

VARIABLES
    fds,            \* pcb->file_descriptors
    active,         \* the pids of started processes
    terminal_pids,
    parent_pcb,
    blocked,        \* the descriptor a process waits on in rtc_read, or None
    waited,         \* history: RTC interrupts that this rtc_read has waited for
    spoiled,        \* history: descriptors an interrupted rtc_handler wrote to
                    \* although they, or the terminal, had changed since its test
    handler         \* an rtc_handler interrupted after its test, or Idle

\* No handler is interrupted.
Idle == [owner |-> None, pid |-> None, round |-> <<None, None>>,
         tested |-> Unused]

processVars == <<active, terminal_pids, parent_pcb>>
vars == <<fds, processVars, blocked, waited, spoiled, handler>>

Init ==
    /\ fds = [p \in Pids |-> [i \in Fds |-> Blank]]
    /\ active = {}
    /\ terminal_pids = [t \in Terminals |-> None]
    /\ parent_pcb = [p \in Pids |-> None]
    /\ blocked = [p \in Pids |-> None]
    /\ waited = [p \in Pids |-> 0]
    /\ spoiled = {}
    /\ handler = Idle

\* p is started and holds its terminal, so the scheduler runs it, and no
\* rtc_handler is suspended on its kernel stack.
Schedulable(p) == /\ p \in active
                  /\ \E t \in Terminals : terminal_pids[t] = p
                  /\ handler.owner # p

\* p may make a system call.
CanCall(p) == Schedulable(p) /\ blocked[p] = None

\* check_valid_fd
IsOpen(p, i) == fds[p][i].inode # Free

SetFd(p, i, d) == fds' = [fds EXCEPT ![p][i] = d]

-----------------------------------------------------------------------------
(* Processes: process_create and halt, as far as they concern descriptors. *)

\* The loop over the descriptors in process_create.
FreshTable(table) ==
    [i \in Fds |-> IF i \in {0, 1}
                   THEN [table[i] EXCEPT !.inode = Stdio, !.file_table_ptr = "terminal"]
                   ELSE [table[i] EXCEPT !.inode = Free]]

\* get_free_pid.
FreePid(used) == Min(Pids \ used)

\* A process for terminal t: its first shell (boot, Alt+Fn), or a child of the
\* process that holds it (execute).
Create(t) ==
    /\ active # Pids
    /\ LET holder == terminal_pids[t]
           p == FreePid(active)
       IN  /\ holder # None => CanCall(holder)
           /\ parent_pcb' = [parent_pcb EXCEPT ![p] = holder]
           /\ fds' = [fds EXCEPT ![p] = FreshTable(@)]
           /\ active' = active \cup {p}
           /\ terminal_pids' = [terminal_pids EXCEPT ![t] = p]
    /\ UNCHANGED <<blocked, waited, spoiled, handler>>

\* Mutant: a closed virtual RTC goes on ticking.
Closed_Ticks(d) == IF d.file_table_ptr = "terminal" THEN d ELSE [d EXCEPT !.inode = Free]

\* What close does to a descriptor: terminal_close refuses, file_close and
\* directory_close free the inode, rtc_close resets everything.
Closed(d) == CASE d.file_table_ptr = "terminal" -> d
               [] d.file_table_ptr = "rtc" -> Unused
               [] OTHER -> [d EXCEPT !.inode = Free]

\* Mutant: the last descriptor is missed.
AllClosed_MissesLast(table) ==
    [i \in Fds |-> IF i \in 2 .. NumFds - 2 /\ table[i].inode # Free
                   THEN Closed(table[i]) ELSE table[i]]

\* The loop over the descriptors in halt.
AllClosed(table) ==
    [i \in Fds |-> IF i \in UserFds /\ table[i].inode # Free
                   THEN Closed(table[i]) ELSE table[i]]

\* halt of a child gives the terminal back to its parent.
HaltChild(t) ==
    LET p == terminal_pids[t]
    IN  /\ p # None
        /\ CanCall(p)
        /\ parent_pcb[p] # None
        /\ fds' = [fds EXCEPT ![p] = AllClosed(@)]
        /\ active' = active \ {p}
        /\ terminal_pids' = [terminal_pids EXCEPT ![t] = parent_pcb[p]]
        /\ UNCHANGED <<parent_pcb, blocked, waited, spoiled, handler>>

\* halt of a root shell starts another one on the terminal.
HaltRoot(t) ==
    LET p == terminal_pids[t]
        q == FreePid(active \ {p})
    IN  /\ p # None
        /\ CanCall(p)
        /\ parent_pcb[p] = None
        /\ fds' = [[fds EXCEPT ![p] = AllClosed(@)] EXCEPT ![q] = FreshTable(@)]
        /\ active' = (active \ {p}) \cup {q}
        /\ terminal_pids' = [terminal_pids EXCEPT ![t] = q]
        /\ parent_pcb' = [parent_pcb EXCEPT ![q] = None]
        /\ UNCHANGED <<blocked, waited, spoiled, handler>>

-----------------------------------------------------------------------------
(* The system calls on descriptors.  Calls that return -1 change nothing.  *)

\* get_free_fd, then the fields that the open functions set.
OpenAs(p, d) ==
    /\ CanCall(p)
    /\ \E i \in UserFds :
          /\ ~IsOpen(p, i)
          /\ \A j \in UserFds : j < i => IsOpen(p, j)
          /\ SetFd(p, i, d)
          /\ spoiled' = spoiled \ {<<p, i>>}
    /\ UNCHANGED <<processVars, blocked, waited, handler>>

file_open(p, f) ==
    OpenAs(p, [file_table_ptr |-> "file", inode |-> f, file_pos |-> 0, flags |-> 0])

directory_open(p) ==
    OpenAs(p, [file_table_ptr |-> "directory", inode |-> 0, file_pos |-> 0, flags |-> 0])

\* The virtual RTC starts at 2 Hz; file_pos counts down, flags is the period.
rtc_open(p) ==
    OpenAs(p, [file_table_ptr |-> "rtc", inode |-> 0,
               file_pos |-> BaseRate \div 2, flags |-> BaseRate \div 2])

close_handler(p, i) ==
    /\ CanCall(p)
    /\ IsOpen(p, i)
    /\ SetFd(p, i, Closed(fds[p][i]))
    /\ UNCHANGED <<processVars, blocked, waited, spoiled, handler>>

\* What read_data returns for a read at file_pos.
BytesRead(d, nbytes) == IF d.file_pos >= FileLength[d.inode] THEN 0
                        ELSE Min({nbytes, FileLength[d.inode] - d.file_pos})

file_read(p, i, nbytes) ==
    /\ CanCall(p)
    /\ IsOpen(p, i) /\ fds[p][i].file_table_ptr = "file"
    /\ LET d == fds[p][i]
       IN  SetFd(p, i, [d EXCEPT !.file_pos = (@ + BytesRead(d, nbytes)) % Width])
    /\ UNCHANGED <<processVars, blocked, waited, spoiled, handler>>

\* file_pos is the index of the directory entry to return next.
directory_read(p, i) ==
    /\ CanCall(p)
    /\ IsOpen(p, i) /\ fds[p][i].file_table_ptr = "directory"
    /\ fds[p][i].file_pos < NumDentries
    /\ SetFd(p, i, [fds[p][i] EXCEPT !.file_pos = @ + 1])
    /\ UNCHANGED <<processVars, blocked, waited, spoiled, handler>>

\* Mutant: the frequency itself is stored.
rtc_write_Frequency(p, i, freq) ==
    /\ CanCall(p)
    /\ IsOpen(p, i) /\ fds[p][i].file_table_ptr = "rtc"
    /\ SetFd(p, i, [fds[p][i] EXCEPT !.file_pos = freq, !.flags = freq])
    /\ UNCHANGED <<processVars, blocked, waited, spoiled, handler>>

\* Frequencies that are no powers of two in 2 .. BaseRate are refused.
rtc_write(p, i, freq) ==
    /\ CanCall(p)
    /\ IsOpen(p, i) /\ fds[p][i].file_table_ptr = "rtc"
    /\ SetFd(p, i, [fds[p][i] EXCEPT !.file_pos = BaseRate \div freq,
                                     !.flags = BaseRate \div freq])
    /\ UNCHANGED <<processVars, blocked, waited, spoiled, handler>>

\* Mutant: the countdown goes on from where it was.
rtc_read_NoReset(p, i) ==
    /\ CanCall(p)
    /\ IsOpen(p, i) /\ fds[p][i].file_table_ptr = "rtc"
    /\ blocked' = [blocked EXCEPT ![p] = i]
    /\ waited' = [waited EXCEPT ![p] = 0]
    /\ UNCHANGED <<fds, processVars, spoiled, handler>>

\* rtc_read sets file_pos to a full period and waits for 0.
rtc_read(p, i) ==
    /\ CanCall(p)
    /\ IsOpen(p, i) /\ fds[p][i].file_table_ptr = "rtc"
    /\ SetFd(p, i, [fds[p][i] EXCEPT !.file_pos = fds[p][i].flags])
    /\ blocked' = [blocked EXCEPT ![p] = i]
    /\ waited' = [waited EXCEPT ![p] = 0]
    /\ spoiled' = spoiled \ {<<p, i>>}
    /\ UNCHANGED <<processVars, handler>>

rtc_read_return(p) ==
    /\ Schedulable(p)
    /\ blocked[p] # None
    /\ fds[p][blocked[p]].file_pos = 0
    /\ blocked' = [blocked EXCEPT ![p] = None]
    /\ waited' = [waited EXCEPT ![p] = 0]
    /\ UNCHANGED <<fds, processVars, spoiled, handler>>

-----------------------------------------------------------------------------
(* rtc_handler: for every terminal, for every descriptor of its process.   *)

\* The test in the loop, and the decrement (of an unsigned number).
Counts(d) == d.file_table_ptr = "rtc" /\ d.file_pos > 0
Decremented(d) == [d EXCEPT !.file_pos = (@ - 1) % Width]

\* Mutant: the last descriptor is missed.
Rounds_Short == Terminals \X (UserFds \ {NumFds - 1})

\* The rounds of the loop: descriptor i of the process of terminal t.
Rounds == Terminals \X UserFds
Before(r, s) == r[1] < s[1] \/ (r[1] = s[1] /\ r[2] < s[2])

\* The descriptors after the given rounds of the loop.
Ticked(table, rounds) ==
    [p \in Pids |-> [i \in Fds |->
        IF /\ \E t \in Terminals : terminal_pids[t] = p /\ <<t, i>> \in rounds
           /\ Counts(table[p][i])
        THEN Decremented(table[p][i]) ELSE table[p][i]]]

\* History: a wait that is not over has seen another interrupt (the count
\* stops above the longest period).
Waited == [p \in Pids |-> IF /\ blocked[p] # None
                             /\ fds[p][blocked[p]].file_pos # 0
                             /\ waited[p] < BaseRate
                          THEN waited[p] + 1 ELSE waited[p]]

\* A handler that runs its loop to the end without an interruption.
RtcTick ==
    /\ fds' = Ticked(fds, Rounds)
    /\ waited' = Waited
    /\ UNCHANGED <<processVars, blocked, spoiled, handler>>

\* A handler on the stack of process p that is interrupted in round r after its
\* test has succeeded, ...
RtcTickInterrupted(p, r) ==
    /\ handler = Idle
    /\ Schedulable(p)
    /\ LET q == terminal_pids[r[1]]
           table == Ticked(fds, {s \in Rounds : Before(s, r)})
       IN  /\ q # None
           /\ Counts(table[q][r[2]])
           /\ fds' = table
           /\ handler' = [owner |-> p, pid |-> q, round |-> r,
                          tested |-> table[q][r[2]]]
    /\ waited' = Waited
    /\ UNCHANGED <<processVars, blocked, spoiled>>

\* ... and goes on: it decrements the descriptor it has tested, either as it
\* is now or, if the decrement had already loaded it, as it was then.
RtcTickResumed ==
    /\ handler # Idle
    /\ LET p == handler.pid
           r == handler.round
       IN  /\ \E loaded \in {fds[p][r[2]].file_pos, handler.tested.file_pos} :
                 LET d == [fds[p][r[2]] EXCEPT !.file_pos = loaded]
                 IN  fds' = Ticked([fds EXCEPT ![p][r[2]] = Decremented(d)],
                                   {s \in Rounds : Before(r, s)})
           /\ spoiled' = IF fds[p][r[2]] = handler.tested /\ terminal_pids[r[1]] = p
                         THEN spoiled ELSE spoiled \cup {<<p, r[2]>>}
    /\ handler' = Idle
    /\ UNCHANGED <<processVars, blocked, waited>>

-----------------------------------------------------------------------------
SystemCall(p) ==
    \/ \E f \in Files : file_open(p, f)
    \/ directory_open(p)
    \/ rtc_open(p)
    \/ \E i \in Fds :
          \/ close_handler(p, i)
          \/ \E n \in ReadSizes : file_read(p, i, n)
          \/ directory_read(p, i)
          \/ \E f \in Rates : rtc_write(p, i, f)
          \/ rtc_read(p, i)
    \/ rtc_read_return(p)

Next == \/ \E t \in Terminals : Create(t) \/ HaltChild(t) \/ HaltRoot(t)
        \/ \E p \in Pids : SystemCall(p)
        \/ RtcTick
        \/ \E p \in Pids, r \in Rounds : RtcTickInterrupted(p, r)
        \/ RtcTickResumed

Spec == Init /\ [][Next]_vars

\* The RTC interrupts for ever, an interrupted handler goes on, and a process
\* that waits gets the CPU again and again.  That is strong fairness: while p
\* waits, a handler may be interrupted on its stack time and again, but p runs
\* between two interrupts and looks at file_pos in every turn of its loop.
FairSpec == /\ Spec
            /\ WF_vars(RtcTick)
            /\ WF_vars(RtcTickResumed)
            /\ \A p \in Pids : SF_vars(rtc_read_return(p))

-----------------------------------------------------------------------------
(* Properties.                                                             *)

\* Type correctness of the descriptors and of the waiting processes.
TypeOK ==
    /\ fds \in [Pids -> [Fds -> Descriptor]]
    /\ active \subseteq Pids
    /\ terminal_pids \in [Terminals -> Pids \cup {None}]
    /\ parent_pcb \in [Pids -> Pids \cup {None}]
    /\ blocked \in [Pids -> UserFds \cup {None}]
    /\ waited \in [Pids -> 0 .. BaseRate]
    /\ spoiled \subseteq Pids \X UserFds
    /\ handler = Idle \/ handler \in [owner : Pids, pid : Pids, round : Rounds,
                                      tested : Descriptor]

\* rtc_handler tests file_table_ptr only, so a descriptor that is free must not
\* look like an RTC, not even in a PCB that is reused.
FreeNotTicking ==
    \A p \in Pids : \A i \in Fds : ~IsOpen(p, i) => fds[p][i].file_table_ptr # "rtc"

\* A process that has ended leaves nothing open: a PCB without a process has no
\* open file, directory or RTC.
NothingLeaked ==
    \A p \in Pids \ active : \A i \in UserFds :
        IsOpen(p, i) => fds[p][i] = Blank

\* rtc_read waits for one period of the rate that was set: file_pos is what is
\* left of it, whatever other processes do to their descriptors.  A handler that is
\* interrupted before or after it has counted makes a difference of one; only
\* one whose count is outdated makes more.
RtcReadOnTime ==
    \A p \in Pids : blocked[p] # None /\ <<p, blocked[p]>> \notin spoiled =>
        LET d == fds[p][blocked[p]]
        IN  waited[p] + d.file_pos - d.flags \in -1 .. 1

\* A read of the virtual RTC returns: the interrupts count it down to 0, and
\* there it stays until the process sees it, whatever the others do.  Only an
\* outdated decrement can move it away from 0 again.
RtcReadReturns ==
    \A p \in Pids :
        blocked[p] # None ~> \/ blocked[p] = None
                             \/ <<p, blocked[p]>> \in spoiled
==============================================================================
