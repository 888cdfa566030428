--------------------------- MODULE ProcessesProofs ---------------------------
(***************************************************************************)
(* The inductive invariant of Processes and its proof, for every number of *)
(* processes and terminals, every time slice and every nesting of          *)
(* interrupts, as long as no interrupt arrives in the four windows        *)
(* NarrowWindows excludes.                                                 *)
(***************************************************************************)
EXTENDS Processes, TLAPS, SequenceTheorems, FiniteSetTheorems, WellFoundedInduction

Positions(s) == 1 .. Len(kstack[s])

\* The combinations of pc and creator that a frame can have.
FrameKind(f) ==
    \/ f.pc \in CreatePcs /\ f.by \in {"execute", "keyboard", "halt", "boot"}
    \/ f.pc = "child" /\ f.by = "execute"
    \/ f.pc = "off" /\ f.by \in {"keyboard", "rtc"}
    \/ f.pc \in {"ack", "tick"} \cup SwitchPcs /\ f.by = "rtc"

\* A frame that was interrupted stood in one of the safe windows.
Interrupted(f) == f.pc \in {"find", "load", "ack", "tick"} /\ f.by \notin {"halt", "boot"}

FramesOK ==
    \A s \in Stacks : \A d \in Positions(s) :
        /\ FrameKind(kstack[s][d])
        /\ d < Len(kstack[s]) => Interrupted(kstack[s][d])

\* A stack that does not execute belongs to a started process, which waits at
\* the esp in its PCB, or is empty; the one that executes is not suspended.
StacksOK ==
    /\ \A s \in Stacks : s # cpu =>
          IF s \in Pids /\ active_pids[s] = 1
          THEN /\ kstack[s] # <<>>
               /\ kernel_esp[s] = <<s, Len(kstack[s])>>
               /\ TopPc(s) \in {"child", "off"}
          ELSE kstack[s] = <<>>
    /\ kstack[cpu] # <<>> => TopPc(cpu) \notin {"child", "off"}

CurrentOK ==
    IF Orphan
    THEN /\ current_pid = None
         /\ Len(kstack[cpu]) = 1
         /\ cpu \in Pids => active_pids[cpu] # 1
         /\ TopPc(cpu) = "find" => FreePids # {}
    ELSE /\ cpu \in Pids
         /\ active_pids[cpu] = 1
         /\ LET c == IF At({"jump"}) THEN Top.pid ELSE cpu
            IN  /\ current_pid = c
                /\ page = c
                /\ esp0 = c
                /\ file_descriptors = c
         /\ At({"set", "jump"}) => kernel_esp[cpu] = <<cpu, Len(kstack[cpu])>>

\* What a running process_switch is about to resume.
TargetOK ==
    At(SwitchPcs) => /\ Top.pid \in Pids
                     /\ Top.pid # cpu
                     /\ active_pids[Top.pid] = 1
                     /\ TopPc(Top.pid) = "off"

\* Pids held by the creations in progress.
ReserveOK == At({"reserve"}) => Top.pid \in Pids /\ active_pids[Top.pid] = -1

IsLoad(f) == f.pc = "load"

LoadPids ==
    \A s \in Stacks : \A d \in Positions(s) : IsLoad(kstack[s][d]) =>
        kstack[s][d].pid \in Pids /\ active_pids[kstack[s][d].pid] = 0

LoadsDistinct ==
    \A s, r \in Stacks : \A d \in Positions(s) : \A e \in Positions(r) :
        /\ IsLoad(kstack[s][d]) /\ IsLoad(kstack[r][e])
        /\ kstack[s][d].pid = kstack[r][e].pid
        => r = s /\ e = d

ReservedLoads ==
    \A p \in Pids : active_pids[p] = 0 =>
        \E s \in Stacks : \E d \in Positions(s) :
            IsLoad(kstack[s][d]) /\ kstack[s][d].pid = p

LoadsOK == LoadPids /\ LoadsDistinct /\ ReservedLoads

\* A frame that creates a child, and one that creates the first process of a
\* terminal.
StartsChild(f) == f.pc \in CreatePcs /\ f.by = "execute"
StartsTerminal(f) == f.pc \in CreatePcs /\ f.by # "execute"

TermsActive ==
    \A p \in Pids : active_pids[p] = 1 => terminal_active[terminal_id[p]]

ChildFrames ==
    \A s \in Stacks : \A d \in Positions(s) : StartsChild(kstack[s][d]) =>
        s \in Pids /\ active_pids[s] = 1 /\ kstack[s][d].term = terminal_id[s]

RootFrames ==
    \A s \in Stacks : \A d \in Positions(s) : StartsTerminal(kstack[s][d]) =>
        /\ terminal_active[kstack[s][d].term]
        /\ \A p \in Pids : active_pids[p] = 1 => terminal_id[p] # kstack[s][d].term

RootsDistinct ==
    \A s, r \in Stacks : \A d \in Positions(s) : \A e \in Positions(r) :
        /\ StartsTerminal(kstack[s][d]) /\ StartsTerminal(kstack[r][e])
        /\ kstack[s][d].term = kstack[r][e].term
        => r = s /\ e = d

TermsOK == TermsActive /\ ChildFrames /\ RootFrames /\ RootsDistinct

\* The started processes of terminal t are a stack of jobs: each one is the
\* parent of the next and waits for it, the last one holds the terminal.
JobsOf(t, job) ==
    /\ \A i \in 1 .. Len(job) :
          /\ active_pids[job[i]] = 1
          /\ terminal_id[job[i]] = t
          /\ parent_pcb[job[i]] = IF i = 1 THEN None ELSE job[i - 1]
          /\ i < Len(job) => job[i] # cpu /\ TopPc(job[i]) = "child"
          /\ i = Len(job) /\ job[i] # cpu => TopPc(job[i]) = "off"
          /\ \A j \in 1 .. Len(job) : job[i] = job[j] => i = j
    /\ \A p \in Pids : active_pids[p] = 1 /\ terminal_id[p] = t =>
          \E i \in 1 .. Len(job) : job[i] = p
    /\ IF job = <<>> THEN terminal_pids[t] = None \/ Restarting(t)
       ELSE terminal_pids[t] = job[Len(job)]

JobsOK == \A t \in Terminals : \E job \in Seq(Pids) : JobsOf(t, job)

TableOK == /\ FramesOK
           /\ StacksOK
           /\ CurrentOK
           /\ TargetOK
           /\ ReserveOK
           /\ LoadsOK
           /\ TermsOK

IndInv == TypeOK /\ ~wild /\ TableOK /\ JobsOK

-----------------------------------------------------------------------------
(* Kernel stacks.                                                          *)

\* The frame that runs is a frame.
LEMMA TopIsFrame ==
    ASSUME TypeOK, ~UserMode
    PROVE  Top \in Frame /\ Depth \in 1 .. Len(kstack[cpu]) /\ Depth \in Nat
  <1>1. kstack[cpu] \in Seq(Frame) /\ kstack[cpu] # <<>>
    BY DEF TypeOK, UserMode
  <1>2. Len(kstack[cpu]) \in Nat \ {0}
    BY <1>1, EmptySeq
  <1> QED
    BY <1>1, <1>2, ElementOfSeq DEF Top, Depth

\* What Enter does to the stacks when it stays on the stack of cpu.
LEMMA PushFacts ==
    ASSUME TypeOK, NEW f \in Frame,
           kstack' = [kstack EXCEPT ![cpu] = Append(kstack[cpu], f)]
    PROVE  /\ kstack' \in [Stacks -> Seq(Frame)]
           /\ Len(kstack'[cpu]) = Len(kstack[cpu]) + 1
           /\ kstack'[cpu][Len(kstack[cpu]) + 1] = f
           /\ \A d \in 1 .. Len(kstack[cpu]) : kstack'[cpu][d] = kstack[cpu][d]
           /\ \A s \in Stacks : s # cpu => kstack'[s] = kstack[s]
  <1>1. kstack \in [Stacks -> Seq(Frame)] /\ cpu \in Stacks
    BY DEF TypeOK
  <1>2. /\ Append(kstack[cpu], f) \in Seq(Frame)
        /\ Len(Append(kstack[cpu], f)) = Len(kstack[cpu]) + 1
        /\ Append(kstack[cpu], f)[Len(kstack[cpu]) + 1] = f
        /\ \A d \in 1 .. Len(kstack[cpu]) : Append(kstack[cpu], f)[d] = kstack[cpu][d]
    BY <1>1, AppendProperties
  <1> QED
    BY <1>1, <1>2

\* What SetTop does to the stacks.
LEMMA SetTopFacts ==
    ASSUME TypeOK, ~UserMode, NEW f \in Frame, SetTop(f)
    PROVE  /\ kstack' \in [Stacks -> Seq(Frame)]
           /\ Len(kstack'[cpu]) = Len(kstack[cpu])
           /\ kstack'[cpu][Len(kstack[cpu])] = f
           /\ \A d \in 1 .. Len(kstack[cpu]) :
                  d # Len(kstack[cpu]) => kstack'[cpu][d] = kstack[cpu][d]
           /\ \A s \in Stacks : s # cpu => kstack'[s] = kstack[s]
  <1>1. kstack \in [Stacks -> Seq(Frame)] /\ cpu \in Stacks
    BY DEF TypeOK
  <1>2. Depth \in 1 .. Len(kstack[cpu]) /\ Depth = Len(kstack[cpu])
    BY TopIsFrame DEF Depth
  <1> DEFINE s2 == [kstack[cpu] EXCEPT ![Depth] = f]
  <1>3. /\ s2 \in Seq(Frame)
        /\ Len(s2) = Len(kstack[cpu])
        /\ \A j \in 1 .. Len(kstack[cpu]) : s2[j] = IF j = Depth THEN f ELSE kstack[cpu][j]
    BY <1>1, <1>2, ExceptSeq
  <1>4. kstack' = [kstack EXCEPT ![cpu] = s2]
    BY DEF SetTop
  <1> HIDE DEF s2
  <1> QED
    BY <1>1, <1>2, <1>3, <1>4

\* A prefix of a stack.
LEMMA PrefixFacts ==
    ASSUME NEW s \in Seq(Frame), NEW n \in Nat, n <= Len(s)
    PROVE  /\ SubSeq(s, 1, n) \in Seq(Frame)
           /\ Len(SubSeq(s, 1, n)) = n
           /\ \A d \in 1 .. n : SubSeq(s, 1, n)[d] = s[d]
  <1>1. Len(s) \in Nat /\ \A i \in 1 .. n : s[i] \in Frame
    BY ElementOfSeq, LenProperties
  <1> QED
    BY <1>1, SubSeqProperties

\* What Return does to the stacks.
LEMMA ReturnFacts ==
    ASSUME TypeOK, ~UserMode, Return
    PROVE  /\ kstack' \in [Stacks -> Seq(Frame)]
           /\ Len(kstack'[cpu]) = Len(kstack[cpu]) - 1
           /\ \A d \in 1 .. Len(kstack[cpu]) - 1 : kstack'[cpu][d] = kstack[cpu][d]
           /\ \A s \in Stacks : s # cpu => kstack'[s] = kstack[s]
  <1>1. kstack \in [Stacks -> Seq(Frame)] /\ cpu \in Stacks
    BY DEF TypeOK
  <1>2. Len(kstack[cpu]) \in Nat \ {0}
    BY TopIsFrame DEF Depth
  <1> DEFINE s2 == SubSeq(kstack[cpu], 1, Len(kstack[cpu]) - 1)
  <1>3. /\ s2 \in Seq(Frame)
        /\ Len(s2) = Len(kstack[cpu]) - 1
        /\ \A d \in 1 .. Len(kstack[cpu]) - 1 : s2[d] = kstack[cpu][d]
    <2>1. /\ kstack[cpu] \in Seq(Frame)
          /\ Len(kstack[cpu]) - 1 \in Nat
          /\ Len(kstack[cpu]) - 1 <= Len(kstack[cpu])
      BY <1>1, <1>2
    <2> QED
      BY <2>1, PrefixFacts
  <1>4. kstack' = [kstack EXCEPT ![cpu] = s2]
    BY DEF Return, Pop
  <1> HIDE DEF s2
  <1> QED
    BY <1>1, <1>3, <1>4

\* What Enter does to the stacks: it pushes a frame on the stack of cpu, once
\* user code is known to run with esp0 at its own kernel stack.
LEMMA EnterFacts ==
    ASSUME TypeOK, NEW f \in Frame, Enter(f)
    PROVE  /\ kstack' \in [Stacks -> Seq(Frame)]
           /\ cpu' \in Stacks
           /\ (UserMode => esp0 = cpu) =>
                 /\ cpu' = cpu
                 /\ kstack' = [kstack EXCEPT ![cpu] = Append(kstack[cpu], f)]
  <1>1. /\ kstack \in [Stacks -> Seq(Frame)] /\ cpu \in Stacks /\ esp0 \in Stacks
        /\ <<f>> \in Seq(Frame)
        /\ <<f>> = Append(<<>>, f)
    BY DEF TypeOK, Stacks
  <1>2. \A s \in Stacks : Append(kstack[s], f) \in Seq(Frame)
    BY <1>1, AppendProperties
  <1> QED
    BY <1>1, <1>2 DEF Enter, UserMode

\* What Resume does to the stacks, whether or not the frame is there.
LEMMA ResumeType ==
    ASSUME TypeOK, NEW esp \in Stacks \X Nat, NEW pc,
           NEW ks \in [Stacks -> Seq(Frame)], Resume(esp, pc, ks)
    PROVE  /\ kstack' \in [Stacks -> Seq(Frame)]
           /\ cpu' \in Stacks
           /\ wild' \in BOOLEAN
  <1>1. esp[1] \in Stacks /\ esp[2] \in Nat /\ cpu \in Stacks
    BY DEF TypeOK
  <1>2. CASE esp[2] \in 1 .. Len(ks[esp[1]])
    <2>1. /\ ks[esp[1]] \in Seq(Frame)
          /\ Len(ks[esp[1]]) \in Nat
          /\ esp[2] - 1 \in Nat
          /\ esp[2] - 1 <= Len(ks[esp[1]])
      BY <1>1, <1>2, LenProperties
    <2>2. SubSeq(ks[esp[1]], 1, esp[2] - 1) \in Seq(Frame)
      BY <2>1, PrefixFacts
    <2> QED
      BY <1>1, <2>2 DEF Resume
  <1>3. CASE esp[2] \notin 1 .. Len(ks[esp[1]])
    BY <1>1, <1>3 DEF Resume
  <1> QED
    BY <1>2, <1>3

\* The frames that traps push, and the ways a frame moves on.
LEMMA NewFrames ==
    /\ \A t \in Terminals : \A by \in {"execute", "keyboard", "halt", "boot"} :
          CreateFrame(by, t) \in Frame
    /\ RtcFrame \in Frame
  <1>1. 0 \in Terminals /\ None \in PidOrNone
    BY ConstantsAssumption DEF Terminals, PidOrNone
  <1> QED
    BY <1>1 DEF CreateFrame, RtcFrame, Frame, CreatePcs, SwitchPcs

\* A frame that keeps its creator and terminal and takes a new pc and pid is still
\* a frame, if a pc that needs a pid has one.
LEMMA MovedFrame ==
    ASSUME NEW f \in Frame
    PROVE  /\ \A p \in Pids : \A pc \in {"reserve", "save"} :
                  [f EXCEPT !.pc = pc, !.pid = p] \in Frame
           /\ f.pid \in Pids => \A pc \in {"load", "set", "jump"} :
                  [f EXCEPT !.pc = pc] \in Frame
           /\ \A pc \in {"tick", "child", "off"} : [f EXCEPT !.pc = pc] \in Frame
           /\ f.pid \in Pids => [f EXCEPT !.pc = "start"] \in Frame
           /\ f.pc \in {"reserve", "load", "start", "save", "set", "jump"} => f.pid \in Pids
           /\ f.pid \in PidOrNone
           /\ f.term \in Terminals
  BY DEF Frame, CreatePcs, SwitchPcs, PidOrNone

\* The scheduler's index stays in range.
LEMMA IndexInRange ==
    ASSUME TypeOK, NEW k \in Rounds
    PROVE  NthIndex(k) \in Terminals
  BY ConstantsAssumption DEF TypeOK, Rounds, NthIndex, Terminals

-----------------------------------------------------------------------------
(* Type correctness.                                                       *)

\* entry() starts the kernel in a type-correct state.
LEMMA TypeInit == Init => TypeOK
  <1> SUFFICES ASSUME Init PROVE TypeOK
    OBVIOUS
  <1>1. kstack \in [Stacks -> Seq(Frame)]
    <2>1. CreateFrame("boot", 0) \in Frame
      BY NewFrames, ConstantsAssumption DEF Terminals
    <2> QED
      BY <2>1 DEF Init
  <1>2. 0 \in Terminals /\ None \in PidOrNone /\ Pids \subseteq Stacks /\ None \in Stacks
    BY ConstantsAssumption DEF Terminals, PidOrNone, Stacks
  <1>3. kernel_esp \in [Pids -> Stacks \X Nat]
    BY <1>2 DEF Init
  <1>4. rtc_count \in 0 .. SchedTicks
    BY ConstantsAssumption DEF Init
  <1> QED
    BY <1>1, <1>2, <1>3, <1>4 DEF Init, TypeOK

\* Every step of the kernel, the interrupts and the programs preserves type
\* correctness.
LEMMA TypeStep == TypeOK /\ [Next]_vars => TypeOK'
  <1> SUFFICES ASSUME TypeOK, [Next]_vars PROVE TypeOK'
    OBVIOUS
  <1> USE DEF contextVars, terminalVars, pcbVars, rtcVars
  <1>1. CASE UNCHANGED vars
    BY <1>1 DEF vars, TypeOK
  <1>2. ASSUME Execute PROVE TypeOK'
    <2>1. CreateFrame("execute", terminal_id[current_pid]) \in Frame
      BY <1>2, NewFrames DEF Execute, TypeOK, PidOrNone
    <2>2. kstack' \in [Stacks -> Seq(Frame)] /\ cpu' \in Stacks
      BY <1>2, <2>1, EnterFacts DEF Execute
    <2> QED
      BY <1>2, <2>2 DEF Execute, TypeOK
  <1>3. ASSUME FindPid PROVE TypeOK'
    <2>1. PICK p \in FreePids : SetTop([Top EXCEPT !.pc = "reserve", !.pid = p])
      BY <1>3 DEF FindPid
    <2>2. ~UserMode /\ Top \in Frame
      BY <1>3, TopIsFrame DEF FindPid, At
    <2>3. [Top EXCEPT !.pc = "reserve", !.pid = p] \in Frame
      BY <2>2, MovedFrame DEF FreePids
    <2>4. kstack' \in [Stacks -> Seq(Frame)]
      BY <2>1, <2>2, <2>3, SetTopFacts
    <2> QED
      BY <1>3, <2>4 DEF FindPid, TypeOK
  <1>4. ASSUME FindNoPid PROVE TypeOK'
    <2>1. kstack' \in [Stacks -> Seq(Frame)]
      BY <1>4, ReturnFacts DEF FindNoPid, At
    <2> QED
      BY <1>4, <2>1 DEF FindNoPid, TypeOK
  <1>5. ASSUME ReservePid PROVE TypeOK'
    <2>1. ~UserMode /\ Top \in Frame /\ Top.pc = "reserve"
      BY <1>5, TopIsFrame DEF ReservePid, At
    <2>2. [Top EXCEPT !.pc = "load"] \in Frame
      BY <2>1, MovedFrame
    <2>3. kstack' \in [Stacks -> Seq(Frame)]
      BY <1>5, <2>1, <2>2, SetTopFacts DEF ReservePid
    <2> QED
      BY <1>5, <2>3 DEF ReservePid, TypeOK
  <1>6. ASSUME LoadAndStart PROVE TypeOK'
    <2>1. /\ ~UserMode /\ Top \in Frame /\ Top.pc = "load"
          /\ Depth \in 1 .. Len(kstack[cpu]) /\ Depth \in Nat
      BY <1>6, TopIsFrame DEF LoadAndStart, At
    <2> DEFINE p == Top.pid
    <2>2. p \in Pids /\ p \in PidOrNone /\ Top.term \in Terminals
      BY <2>1, MovedFrame DEF PidOrNone
    <2>3. /\ page' = p
          /\ terminal_id' \in [Pids -> Terminals]
          /\ parent_pcb' \in [Pids -> PidOrNone]
          /\ UNCHANGED <<terminalVars, rtcVars>>
      BY <1>6, <2>2 DEF LoadAndStart, TypeOK, PidOrNone
    <2>4. IF active_pids[p] = 0 THEN StartProcess(p) ELSE RefuseStart(p)
      BY <1>6 DEF LoadAndStart
    <2> HIDE DEF p
    <2>5. CASE active_pids[p] = 0
      <3> DEFINE suspended == [Top EXCEPT !.pc = IF Top.by = "execute" THEN "child"
                                                 ELSE "off"]
                 start == [Top EXCEPT !.pc = "start"]
                 s2 == [kstack[cpu] EXCEPT ![Depth] = suspended]
                 empty == IF current_pid # None
                          THEN [[kstack EXCEPT ![cpu] = s2] EXCEPT ![p] = <<>>]
                          ELSE [[kstack EXCEPT ![cpu] = <<>>] EXCEPT ![p] = <<>>]
      <3>1. suspended \in Frame /\ start \in Frame
        BY <2>1, <2>2, MovedFrame DEF p
      <3>2. s2 \in Seq(Frame)
        BY <2>1, <3>1, ExceptSeq DEF TypeOK
      <3>3. IF "start" \in Windows
            THEN cpu' = cpu /\ kstack' = [empty EXCEPT ![cpu] = Append(empty[cpu], start)]
            ELSE cpu' = p /\ kstack' = empty
        BY <2>4, <2>5 DEF StartProcess
      <3> HIDE DEF s2
      <3>4. empty \in [Stacks -> Seq(Frame)]
        <4>1. <<>> \in Seq(Frame) /\ kstack \in [Stacks -> Seq(Frame)]
          BY DEF TypeOK
        <4> QED
          BY <3>2, <4>1
      <3> HIDE DEF empty, start
      <3>7. kstack' \in [Stacks -> Seq(Frame)] /\ cpu' \in Stacks
        <4>1. CASE "start" \in Windows
          <5>1. cpu \in Stacks /\ empty[cpu] \in Seq(Frame)
            BY <3>4 DEF TypeOK
          <5>2. Append(empty[cpu], start) \in Seq(Frame)
            BY <3>1, <5>1, AppendProperties
          <5> QED
            BY <3>3, <3>4, <4>1, <5>1, <5>2
        <4>2. CASE "start" \notin Windows
          BY <2>2, <3>3, <3>4, <4>2 DEF Stacks
        <4> QED
          BY <4>1, <4>2
      <3>5. kernel_esp' \in [Pids -> Stacks \X Nat]
        <4>1. kernel_esp' = [q \in Pids |-> IF q = current_pid THEN <<cpu, Depth>>
                                            ELSE IF q = p THEN <<p, 0>>
                                            ELSE kernel_esp[q]]
          BY <2>4, <2>5 DEF StartProcess
        <4> QED
          BY <2>1, <2>2, <4>1 DEF TypeOK, Stacks
      <3>6. /\ active_pids' \in [Pids -> {-1, 0, 1}]
            /\ terminal_pids' \in [Terminals -> PidOrNone]
            /\ current_pid' = p /\ file_descriptors' = p /\ esp0' = p
            /\ wild' = FALSE
        BY <2>2, <2>4, <2>5 DEF StartProcess, TypeOK
      <3> QED
        BY <2>2, <2>3, <3>5, <3>6, <3>7 DEF TypeOK
    <2>6. CASE active_pids[p] # 0
      <3>1. kstack' \in [Stacks -> Seq(Frame)]
        BY <2>1, <2>4, <2>6, ReturnFacts DEF RefuseStart
      <3>2. kernel_esp' \in [Pids -> Stacks \X Nat]
        <4>1. kernel_esp' = [kernel_esp EXCEPT ![p] = <<p, 0>>]
          BY <2>4, <2>6 DEF RefuseStart
        <4> QED
          BY <2>2, <4>1 DEF TypeOK, Stacks
      <3> QED
        BY <2>2, <2>3, <2>4, <2>6, <3>1, <3>2 DEF RefuseStart, TypeOK
    <2> QED
      BY <2>5, <2>6
  <1>7. ASSUME RtcInterrupt PROVE TypeOK'
    <2>1. kstack' \in [Stacks -> Seq(Frame)] /\ cpu' \in Stacks
      BY <1>7, NewFrames, EnterFacts DEF RtcInterrupt
    <2> QED
      BY <1>7, <2>1 DEF RtcInterrupt, TypeOK
  <1>8. ASSUME RtcAck PROVE TypeOK'
    <2>1. ~UserMode /\ Top \in Frame
      BY <1>8, TopIsFrame DEF RtcAck, At
    <2>2. [Top EXCEPT !.pc = "tick"] \in Frame
      BY <2>1, MovedFrame
    <2>3. kstack' \in [Stacks -> Seq(Frame)]
      BY <1>8, <2>1, <2>2, SetTopFacts DEF RtcAck
    <2> QED
      BY <1>8, <2>3 DEF RtcAck, TypeOK
  <1>9. ASSUME RtcTick PROVE TypeOK'
    <2>1. kstack' \in [Stacks -> Seq(Frame)]
      BY <1>9, ReturnFacts DEF RtcTick, At
    <2>2. rtc_count' \in 0 .. SchedTicks
      BY <1>9, ConstantsAssumption DEF RtcTick, Countdown, TypeOK
    <2> QED
      BY <1>9, <2>1, <2>2 DEF RtcTick, TypeOK
  <1>10. ASSUME RtcSchedule PROVE TypeOK'
    <2>1. ~UserMode /\ Top \in Frame
      BY <1>10, TopIsFrame DEF RtcSchedule, At
    <2>2. PICK k \in Rounds :
             /\ Eligible(k)
             /\ current_index' = NthIndex(k)
             /\ SetTop([Top EXCEPT !.pc = "save", !.pid = terminal_pids[NthIndex(k)]])
      BY <1>10 DEF RtcSchedule
    <2>3. NthIndex(k) \in Terminals /\ terminal_pids[NthIndex(k)] \in Pids
      BY <2>2, IndexInRange DEF Eligible, TypeOK, PidOrNone
    <2>4. [Top EXCEPT !.pc = "save", !.pid = terminal_pids[NthIndex(k)]] \in Frame
      BY <2>1, <2>3, MovedFrame
    <2>5. kstack' \in [Stacks -> Seq(Frame)]
      BY <2>1, <2>2, <2>4, SetTopFacts
    <2>6. rtc_count' \in 0 .. SchedTicks
      BY <1>10, ConstantsAssumption DEF RtcSchedule
    <2> QED
      BY <1>10, <2>2, <2>3, <2>5, <2>6 DEF RtcSchedule, TypeOK
  <1>11. ASSUME SwitchSave PROVE TypeOK'
    <2>1. ~UserMode /\ Top \in Frame /\ Top.pc = "save" /\ Depth \in Nat
      BY <1>11, TopIsFrame DEF SwitchSave, At
    <2>2. [Top EXCEPT !.pc = "set"] \in Frame
      BY <2>1, MovedFrame
    <2>3. kstack' \in [Stacks -> Seq(Frame)]
      BY <1>11, <2>1, <2>2, SetTopFacts DEF SwitchSave
    <2>4. kernel_esp' \in [Pids -> Stacks \X Nat]
      BY <1>11, <2>1 DEF SwitchSave, TypeOK
    <2> QED
      BY <1>11, <2>3, <2>4 DEF SwitchSave, TypeOK
  <1>12. ASSUME SwitchSet PROVE TypeOK'
    <2>1. ~UserMode /\ Top \in Frame /\ Top.pc = "set"
      BY <1>12, TopIsFrame DEF SwitchSet, At
    <2>2. [Top EXCEPT !.pc = "jump"] \in Frame /\ Top.pid \in PidOrNone
      BY <2>1, MovedFrame
    <2>3. kstack' \in [Stacks -> Seq(Frame)]
      BY <1>12, <2>1, <2>2, SetTopFacts DEF SwitchSet
    <2> QED
      BY <1>12, <2>2, <2>3 DEF SwitchSet, TypeOK
  <1>13. ASSUME SwitchJump PROVE TypeOK'
    <2>1. /\ ~UserMode /\ Top \in Frame /\ Top.pc = "jump"
          /\ Depth \in 1 .. Len(kstack[cpu])
      BY <1>13, TopIsFrame DEF SwitchJump, At
    <2> DEFINE off == [Top EXCEPT !.pc = "off"]
               ks == [kstack EXCEPT ![cpu] = [kstack[cpu] EXCEPT ![Depth] = off]]
    <2>2. off \in Frame
      BY <2>1, MovedFrame
    <2>3. [kstack[cpu] EXCEPT ![Depth] = off] \in Seq(Frame)
      BY <2>1, <2>2, ExceptSeq DEF TypeOK
    <2>4. ks \in [Stacks -> Seq(Frame)]
      BY <2>3 DEF TypeOK
    <2>5. Resume(kernel_esp[Top.pid], "off", ks)
      BY <1>13 DEF SwitchJump
    <2>6. Top.pid \in Pids
      BY <2>1, MovedFrame
    <2>7. kernel_esp[Top.pid] \in Stacks \X Nat
      BY <2>6 DEF TypeOK
    <2> HIDE DEF ks
    <2>8. kstack' \in [Stacks -> Seq(Frame)] /\ cpu' \in Stacks /\ wild' \in BOOLEAN
      BY <2>4, <2>5, <2>7, ResumeType
    <2> QED
      BY <1>13, <2>8 DEF SwitchJump, TypeOK
  <1>14. ASSUME NEW t \in Terminals, SwitchTerminal(t) PROVE TypeOK'
    <2>1. kstack' \in [Stacks -> Seq(Frame)] /\ cpu' \in Stacks
      BY <1>14, NewFrames, EnterFacts DEF SwitchTerminal, TypeOK
    <2>2. terminal_active' \in [Terminals -> BOOLEAN]
      BY <1>14 DEF SwitchTerminal, TypeOK
    <2> QED
      BY <1>14, <2>1, <2>2 DEF SwitchTerminal, TypeOK
  <1>15. ASSUME HaltRoot PROVE TypeOK'
    <2>1. CreateFrame("halt", terminal_id[current_pid]) \in Frame
      BY <1>15, NewFrames DEF HaltRoot, TypeOK, PidOrNone
    <2>2. kstack' \in [Stacks -> Seq(Frame)] /\ cpu' \in Stacks
      BY <1>15, <2>1, EnterFacts DEF HaltRoot
    <2> QED
      BY <1>15, <2>2 DEF HaltRoot, TypeOK, PidOrNone
  <1>16. ASSUME HaltChild PROVE TypeOK'
    <2> DEFINE parent == parent_pcb[current_pid]
    <2>1. parent \in Pids
      BY <1>16 DEF HaltChild, TypeOK, PidOrNone
    <2>2. Resume(kernel_esp[parent], "child", kstack)
      BY <1>16 DEF HaltChild
    <2>3. kstack' \in [Stacks -> Seq(Frame)] /\ cpu' \in Stacks /\ wild' \in BOOLEAN
      BY <2>1, <2>2, ResumeType DEF TypeOK
    <2> QED
      BY <1>16, <2>1, <2>3 DEF HaltChild, TypeOK, PidOrNone
  <1>17. ASSUME Iret PROVE TypeOK'
    <2>1. ~UserMode /\ Top \in Frame /\ Top.pc = "start"
      BY <1>17, TopIsFrame DEF Iret, At
    <2>2. kstack' \in [Stacks -> Seq(Frame)]
      BY <1>17, <2>1, ReturnFacts DEF Iret
    <2>3. cpu' \in Stacks
      BY <1>17, <2>1, MovedFrame DEF Iret, Stacks, PidOrNone
    <2> QED
      BY <1>17, <2>2, <2>3 DEF Iret, TypeOK
  <1> QED
    BY <1>1, <1>2, <1>3, <1>4, <1>5, <1>6, <1>7, <1>8, <1>9, <1>10, <1>11,
       <1>12, <1>13, <1>14, <1>15, <1>16, <1>17 DEF Next, KernelStep

\* Type correctness needs no other invariant and no assumption on Windows.
THEOREM TypeCorrect == Spec => []TypeOK
  BY TypeInit, TypeStep, PTL DEF Spec

-----------------------------------------------------------------------------
(* How the parts of the invariant survive a change of the kernel stacks.   *)

\* Under NarrowWindows an interrupt finds the kernel in one of the windows
\* Interrupted lists.
LEMMA InterruptedTop ==
    ASSUME NarrowWindows, IndInv, InterruptsOn, ~UserMode
    PROVE  Interrupted(Top)
  <1>1. Window(Top) \in {"find", "load", "ack", "tick"}
    BY ConstantsAssumption DEF InterruptsOn, NarrowWindows, AllWindows
  <1>2. FrameKind(Top)
    BY TopIsFrame DEF IndInv, TableOK, FramesOK, Positions, Top, Depth, TypeOK
  <1> QED
    BY <1>1, <1>2 DEF Window, Interrupted, FrameKind, CreatePcs, SwitchPcs

\* The jobs of the terminals do not change when only the running stack does.
LEMMA JobsKept ==
    ASSUME IndInv,
           \A p \in Pids : active_pids'[p] = 1 <=> active_pids[p] = 1,
           UNCHANGED <<terminal_id, parent_pcb, terminal_pids, cpu>>,
           \A s \in Stacks : s # cpu => kstack'[s] = kstack[s],
           \A t \in Terminals : Restarting(t) => Restarting(t)'
    PROVE  JobsOK'
  <1> SUFFICES ASSUME NEW t \in Terminals PROVE \E job \in Seq(Pids) : JobsOf(t, job)'
    BY DEF JobsOK
  <1>1. PICK job \in Seq(Pids) : JobsOf(t, job)
    BY DEF IndInv, JobsOK
  <1>2. \A i \in 1 .. Len(job) : job[i] \in Pids /\ job[i] \in Stacks
    BY ElementOfSeq DEF Stacks, PidOrNone
  <1>3. JobsOf(t, job)'
    BY <1>1, <1>2 DEF JobsOf, TopPc
  <1> QED
    BY <1>3

\* The creations in progress do not change when their frames do not.
LEMMA LoadsKept ==
    ASSUME LoadsOK,
           \A p \in Pids : active_pids'[p] = 0 <=> active_pids[p] = 0,
           \A s \in Stacks : \A d \in Positions(s)' : IsLoad(kstack[s][d])' =>
               d \in Positions(s) /\ kstack'[s][d] = kstack[s][d],
           \A s \in Stacks : \A d \in Positions(s) : IsLoad(kstack[s][d]) =>
               d \in Positions(s)' /\ kstack'[s][d] = kstack[s][d]
    PROVE  LoadsOK'
  <1>1. LoadPids'
    BY DEF LoadsOK, LoadPids, IsLoad
  <1>2. LoadsDistinct'
    BY DEF LoadsOK, LoadsDistinct, IsLoad
  <1>3. ReservedLoads'
    BY DEF LoadsOK, ReservedLoads, IsLoad
  <1> QED
    BY <1>1, <1>2, <1>3 DEF LoadsOK

\* The creations of terminals' first shells stay on distinct terminals when no
\* frame of such a creation is new.
LEMMA RootsKept ==
    ASSUME RootsDistinct,
           \A s \in Stacks : \A d \in Positions(s)' : StartsTerminal(kstack[s][d])' =>
               d \in Positions(s) /\ kstack'[s][d] = kstack[s][d]
    PROVE  RootsDistinct'
  BY DEF RootsDistinct, StartsTerminal

\* The terminals of the started processes and of the creations in progress stay
\* right when no process is started, none with frames on its stack is ended and
\* no frame of a creation is new.
LEMMA TermsKept ==
    ASSUME TermsOK, UNCHANGED <<terminal_id, terminal_active>>,
           \A p \in Pids : active_pids'[p] = 1 => active_pids[p] = 1,
           \A p \in Pids : active_pids[p] = 1 /\ Positions(p)' # {} => active_pids'[p] = 1,
           \A s \in Stacks : \A d \in Positions(s)' :
               \/ d \in Positions(s) /\ kstack'[s][d] = kstack[s][d]
               \/ kstack'[s][d].pc \notin CreatePcs
    PROVE  TermsOK'
  <1>1. \A s \in Stacks : \A d \in Positions(s)' :
           (StartsChild(kstack[s][d])' \/ StartsTerminal(kstack[s][d])') =>
               d \in Positions(s) /\ kstack'[s][d] = kstack[s][d]
    BY DEF StartsChild, StartsTerminal
  <1>2. TermsActive'
    BY DEF TermsOK, TermsActive
  <1>3. ChildFrames'
    BY <1>1 DEF TermsOK, ChildFrames, StartsChild
  <1>4. RootFrames'
    BY <1>1 DEF TermsOK, RootFrames, StartsTerminal
  <1>5. RootsDistinct'
    BY <1>1, RootsKept DEF TermsOK
  <1> QED
    BY <1>2, <1>3, <1>4, <1>5 DEF TermsOK

\* A step inside rtc_handler or process_switch that moves the running frame on.
LEMMA RtcMove ==
    ASSUME IndInv, ~UserMode, Top.by = "rtc",
           NEW f \in Frame, SetTop(f),
           f.by = "rtc", f.pc \in {"tick", "save", "set", "jump"},
           UNCHANGED <<active_pids, terminal_id, parent_pcb, terminal_pids,
                       terminal_active, cpu>>,
           \A s \in Pids : s # cpu => kernel_esp'[s] = kernel_esp[s]
    PROVE  FramesOK' /\ StacksOK' /\ ReserveOK' /\ LoadsOK' /\ TermsOK' /\ JobsOK'
  <1>1. TypeOK /\ FramesOK /\ StacksOK /\ LoadsOK /\ TermsOK
    BY DEF IndInv, TableOK
  <1>2. /\ Len(kstack'[cpu]) = Len(kstack[cpu])
        /\ kstack'[cpu][Len(kstack[cpu])] = f
        /\ \A d \in 1 .. Len(kstack[cpu]) :
               d # Len(kstack[cpu]) => kstack'[cpu][d] = kstack[cpu][d]
        /\ \A s \in Stacks : s # cpu => kstack'[s] = kstack[s]
        /\ kstack' \in [Stacks -> Seq(Frame)]
    BY <1>1, SetTopFacts
  <1>3. /\ Len(kstack[cpu]) \in Nat \ {0} /\ cpu \in Stacks
        /\ Top = kstack[cpu][Len(kstack[cpu])]
    BY <1>1, TopIsFrame DEF Top, Depth, TypeOK
  <1>4. Top.pc \notin CreatePcs /\ f.pc \notin CreatePcs
    <2>1. FrameKind(Top)
      BY <1>1, <1>3 DEF FramesOK, Positions
    <2> QED
      BY <2>1 DEF FrameKind, CreatePcs, SwitchPcs
  <1>5. FramesOK'
    BY <1>1, <1>2, <1>3, SMTT(30) DEF FramesOK, Positions, FrameKind, SwitchPcs
  <1>6. StacksOK'
    <2>1. kstack'[cpu] # <<>> /\ TopPc(cpu)' = f.pc
      BY <1>2, <1>3, EmptySeq DEF TopPc
    <2>2. \A s \in Stacks : s # cpu => kstack'[s] = kstack[s] /\ TopPc(s)' = TopPc(s)
      BY <1>2 DEF TopPc
    <2> QED
      BY <1>1, <2>1, <2>2 DEF StacksOK
  <1>7. ReserveOK'
    BY <1>2, <1>3 DEF ReserveOK, At, Top, Depth
  <1>8. LoadsOK'
    <2>1. \A s \in Stacks : Len(kstack'[s]) = Len(kstack[s])
      BY <1>2
    <2>2. \A s \in Stacks : \A d \in 1 .. Len(kstack[s]) :
             \/ kstack'[s][d] = kstack[s][d]
             \/ ~IsLoad(kstack'[s][d]) /\ ~IsLoad(kstack[s][d])
      BY <1>2, <1>3, <1>4 DEF CreatePcs, IsLoad
    <2> QED
      BY <1>1, <2>1, <2>2, LoadsKept DEF Positions
  <1>9. TermsOK'
    <2>1. \A s \in Stacks : Len(kstack'[s]) = Len(kstack[s])
      BY <1>2
    <2>2. \A s \in Stacks : \A d \in 1 .. Len(kstack[s]) :
             \/ kstack'[s][d] = kstack[s][d]
             \/ kstack'[s][d].pc \notin CreatePcs /\ kstack[s][d].pc \notin CreatePcs
      BY <1>2, <1>3, <1>4
    <2> QED
      BY <1>1, <2>1, <2>2, TermsKept DEF Positions
  <1>10. JobsOK'
    <2>1. \A t \in Terminals : ~Restarting(t)
      BY DEF Restarting
    <2> QED
      BY <1>2, <2>1, JobsKept
  <1> QED
    BY <1>5, <1>6, <1>7, <1>8, <1>9, <1>10

\* The parts of the invariant for a kernel that is not creating an orphan.
LEMMA RunningFacts ==
    ASSUME IndInv, UserMode \/ Top.by \notin {"halt", "boot"}
    PROVE  /\ cpu \in Pids
           /\ active_pids[cpu] = 1
           /\ (UserMode \/ Top.pc # "jump") =>
                 <<current_pid, page, esp0, file_descriptors>> = <<cpu, cpu, cpu, cpu>>
           /\ ~UserMode /\ Top.pc = "jump" =>
                 <<current_pid, page, esp0, file_descriptors>>
                     = <<Top.pid, Top.pid, Top.pid, Top.pid>>
           /\ ~UserMode /\ Top.pc \in {"set", "jump"} =>
                 kernel_esp[cpu] = <<cpu, Len(kstack[cpu])>>
  <1>1. ~Orphan
    BY DEF Orphan, UserMode
  <1> QED
    BY <1>1 DEF IndInv, TableOK, CurrentOK, At

\* Frames that only rtc_handler and process_switch use.
LEMMA TopKind ==
    ASSUME IndInv, ~UserMode
    PROVE  /\ FrameKind(Top)
           /\ Top.pc \in {"ack", "tick", "save", "set", "jump"} => Top.by = "rtc"
           /\ Top.pc \in CreatePcs => Top.by \in {"execute", "keyboard", "halt", "boot"}
           /\ Top = kstack[cpu][Len(kstack[cpu])]
           /\ Len(kstack[cpu]) \in Nat \ {0}
           /\ cpu \in Stacks
  <1>1. TypeOK /\ FramesOK
    BY DEF IndInv, TableOK
  <1>2. /\ Len(kstack[cpu]) \in Nat \ {0} /\ cpu \in Stacks
        /\ Top = kstack[cpu][Len(kstack[cpu])]
    BY <1>1, TopIsFrame DEF Top, Depth, TypeOK
  <1>3. FrameKind(Top)
    BY <1>1, <1>2 DEF FramesOK, Positions
  <1> QED
    BY <1>2, <1>3 DEF FrameKind, CreatePcs, SwitchPcs

\* The running frame after SetTop.
LEMMA NewTop ==
    ASSUME IndInv, ~UserMode, NEW f \in Frame, SetTop(f), cpu' = cpu
    PROVE  /\ ~UserMode'
           /\ Top' = f
           /\ TopPc(cpu)' = f.pc
           /\ Len(kstack'[cpu]) = Len(kstack[cpu])
           /\ kstack'[cpu] # <<>>
           /\ \A s \in Stacks : s # cpu => kstack'[s] = kstack[s] /\ TopPc(s)' = TopPc(s)
  <1>1. TypeOK
    BY DEF IndInv
  <1>2. /\ Len(kstack'[cpu]) = Len(kstack[cpu])
        /\ kstack'[cpu][Len(kstack[cpu])] = f
        /\ \A s \in Stacks : s # cpu => kstack'[s] = kstack[s]
        /\ kstack' \in [Stacks -> Seq(Frame)]
    BY <1>1, SetTopFacts
  <1>3. Len(kstack[cpu]) \in Nat \ {0}
    BY TopKind
  <1>4. kstack'[cpu] # <<>>
    BY <1>2, <1>3, EmptySeq
  <1> QED
    BY <1>2, <1>4 DEF UserMode, Top, Depth, TopPc

-----------------------------------------------------------------------------
(* Every action preserves the invariant: rtc_handler and process_switch.   *)

\* The EOI and the sti of rtc_handler preserve the invariant.
LEMMA RtcAckKeeps == IndInv /\ RtcAck => TableOK' /\ JobsOK' /\ ~wild'
  <1> SUFFICES ASSUME IndInv, RtcAck PROVE TableOK' /\ JobsOK' /\ ~wild'
    OBVIOUS
  <1> USE DEF contextVars, terminalVars, pcbVars
  <1>1. ~UserMode /\ Top.pc = "ack" /\ Top.by = "rtc" /\ Top \in Frame
    BY TopKind, TopIsFrame DEF RtcAck, At, IndInv
  <1> DEFINE f == [Top EXCEPT !.pc = "tick"]
  <1>2. f \in Frame /\ f.pc = "tick" /\ f.by = "rtc" /\ SetTop(f)
    BY <1>1, MovedFrame, ZenonT(40) DEF RtcAck, Frame
  <1> HIDE DEF f
  <1>3. FramesOK' /\ StacksOK' /\ ReserveOK' /\ LoadsOK' /\ TermsOK' /\ JobsOK'
    BY <1>1, <1>2, RtcMove DEF RtcAck
  <1>4. ~UserMode' /\ Top' = f
    BY <1>1, <1>2, NewTop DEF RtcAck
  <1>5. CurrentOK' /\ TargetOK'
    <2>1. /\ cpu \in Pids
          /\ active_pids[cpu] = 1
          /\ <<current_pid, page, esp0, file_descriptors>> = <<cpu, cpu, cpu, cpu>>
      BY <1>1, RunningFacts
    <2> QED
      BY <1>2, <1>4, <2>1 DEF RtcAck, CurrentOK, TargetOK, Orphan, At, SwitchPcs
  <1> QED
    BY <1>3, <1>5 DEF TableOK, RtcAck, IndInv

\* The scheduler's choice of the next process preserves the invariant: the process
\* that holds another terminal is started and suspended.
LEMMA RtcScheduleKeeps == IndInv /\ RtcSchedule => TableOK' /\ JobsOK' /\ ~wild'
  <1> SUFFICES ASSUME IndInv, RtcSchedule PROVE TableOK' /\ JobsOK' /\ ~wild'
    OBVIOUS
  <1> USE DEF contextVars, terminalVars, pcbVars
  <1>1. ~UserMode /\ Top.pc = "tick" /\ Top.by = "rtc" /\ Top \in Frame
    BY TopKind, TopIsFrame DEF RtcSchedule, At, IndInv
  <1>2. PICK k \in Rounds :
           /\ Eligible(k)
           /\ SetTop([Top EXCEPT !.pc = "save", !.pid = terminal_pids[NthIndex(k)]])
    BY DEF RtcSchedule
  <1> DEFINE t == NthIndex(k)
             p == terminal_pids[t]
             f == [Top EXCEPT !.pc = "save", !.pid = p]
  <1>3. t \in Terminals
    BY IndexInRange DEF IndInv
  <1>4. p \in Pids /\ p # current_pid
    BY <1>2, <1>3 DEF Eligible, IndInv, TypeOK, PidOrNone
  <1>5. /\ cpu \in Pids
        /\ active_pids[cpu] = 1
        /\ <<current_pid, page, esp0, file_descriptors>> = <<cpu, cpu, cpu, cpu>>
    BY <1>1, RunningFacts
  <1>6. active_pids[p] = 1 /\ p # cpu /\ TopPc(p) = "off"
    <2>1. PICK job \in Seq(Pids) : JobsOf(t, job)
      BY <1>3 DEF IndInv, JobsOK
    <2>2. ~Restarting(t) /\ p # None
      BY <1>1, <1>4 DEF Restarting, Pids, None
    <2>3. job # <<>> /\ p = job[Len(job)]
      BY <2>1, <2>2 DEF JobsOf
    <2>4. Len(job) \in 1 .. Len(job)
      BY <2>3, EmptySeq
    <2> QED
      BY <1>4, <1>5, <2>1, <2>3, <2>4 DEF JobsOf
  <1>7. f \in Frame /\ f.pc = "save" /\ f.by = "rtc" /\ f.pid = p /\ SetTop(f)
    <2>1. f \in Frame
      BY <1>1, <1>4, MovedFrame
    <2> QED
      BY <1>1, <1>2, <2>1 DEF Frame
  <1> HIDE DEF f, p, t
  <1>8. FramesOK' /\ StacksOK' /\ ReserveOK' /\ LoadsOK' /\ TermsOK' /\ JobsOK'
    BY <1>1, <1>7, RtcMove DEF RtcSchedule
  <1>9. /\ ~UserMode' /\ Top' = f
        /\ \A s \in Pids : s # cpu => TopPc(s)' = TopPc(s)
    BY <1>1, <1>7, NewTop DEF RtcSchedule, Stacks, PidOrNone
  <1>10. CurrentOK' /\ TargetOK'
    BY <1>4, <1>5, <1>6, <1>7, <1>9
       DEF RtcSchedule, CurrentOK, TargetOK, Orphan, At, SwitchPcs
  <1> QED
    BY <1>8, <1>10 DEF TableOK, RtcSchedule, IndInv

\* process_switch saves the current context where the invariant expects it.
LEMMA SwitchSaveKeeps == IndInv /\ SwitchSave => TableOK' /\ JobsOK' /\ ~wild'
  <1> SUFFICES ASSUME IndInv, SwitchSave PROVE TableOK' /\ JobsOK' /\ ~wild'
    OBVIOUS
  <1> USE DEF contextVars, terminalVars, pcbVars
  <1>1. ~UserMode /\ Top.pc = "save" /\ Top.by = "rtc" /\ Top \in Frame
    BY TopKind, TopIsFrame DEF SwitchSave, At, IndInv
  <1> DEFINE f == [Top EXCEPT !.pc = "set"]
  <1>2. f \in Frame /\ f.pc = "set" /\ f.by = "rtc" /\ f.pid = Top.pid /\ SetTop(f)
    <2>1. SetTop(f)
      BY Zenon DEF SwitchSave
    <2>2. Top.pid \in Pids
      BY <1>1, MovedFrame, Zenon
    <2>3. f \in Frame
      BY <1>1, <2>2, MovedFrame, Zenon
    <2>4. f.pc = "set" /\ f.by = "rtc" /\ f.pid = Top.pid
      BY <1>1 DEF Frame
    <2> QED
      BY <2>1, <2>3, <2>4, Zenon
  <1>3. Top.pid \in Pids /\ Top.pid # cpu /\ active_pids[Top.pid] = 1 /\ TopPc(Top.pid) = "off"
    BY <1>1 DEF IndInv, TableOK, TargetOK, At, SwitchPcs
  <1> HIDE DEF f
  <1>4. /\ cpu \in Pids
        /\ active_pids[cpu] = 1
        /\ <<current_pid, page, esp0, file_descriptors>> = <<cpu, cpu, cpu, cpu>>
    BY <1>1, RunningFacts
  <1>5. /\ kernel_esp'[cpu] = <<cpu, Len(kstack[cpu])>>
        /\ \A s \in Pids : s # cpu => kernel_esp'[s] = kernel_esp[s]
    BY <1>4 DEF SwitchSave, Depth
  <1>6. FramesOK' /\ StacksOK' /\ ReserveOK' /\ LoadsOK' /\ TermsOK' /\ JobsOK'
    BY <1>1, <1>2, <1>5, RtcMove DEF SwitchSave
  <1>7. /\ ~UserMode' /\ Top' = f /\ TopPc(Top.pid)' = TopPc(Top.pid)
        /\ Len(kstack'[cpu]) = Len(kstack[cpu])
    BY <1>1, <1>2, <1>3, NewTop DEF SwitchSave, Stacks, PidOrNone
  <1>8. CurrentOK' /\ TargetOK'
    BY <1>2, <1>3, <1>4, <1>5, <1>7
       DEF SwitchSave, CurrentOK, TargetOK, Orphan, At, SwitchPcs
  <1> QED
    BY <1>6, <1>8 DEF TableOK, SwitchSave, IndInv

\* process_switch makes its target current and preserves the invariant.
LEMMA SwitchSetKeeps == IndInv /\ SwitchSet => TableOK' /\ JobsOK' /\ ~wild'
  <1> SUFFICES ASSUME IndInv, SwitchSet PROVE TableOK' /\ JobsOK' /\ ~wild'
    OBVIOUS
  <1> USE DEF terminalVars, pcbVars
  <1>1. ~UserMode /\ Top.pc = "set" /\ Top.by = "rtc" /\ Top \in Frame
    BY TopKind, TopIsFrame DEF SwitchSet, At, IndInv
  <1> DEFINE f == [Top EXCEPT !.pc = "jump"]
  <1>2. f \in Frame /\ f.pc = "jump" /\ f.by = "rtc" /\ f.pid = Top.pid /\ SetTop(f)
    <2>1. SetTop(f)
      BY Zenon DEF SwitchSet
    <2>2. Top.pid \in Pids
      BY <1>1, MovedFrame, Zenon
    <2>3. f \in Frame
      BY <1>1, <2>2, MovedFrame, Zenon
    <2>4. f.pc = "jump" /\ f.by = "rtc" /\ f.pid = Top.pid
      BY <1>1 DEF Frame
    <2> QED
      BY <2>1, <2>3, <2>4, Zenon
  <1>3. Top.pid \in Pids /\ Top.pid # cpu /\ active_pids[Top.pid] = 1 /\ TopPc(Top.pid) = "off"
    BY <1>1 DEF IndInv, TableOK, TargetOK, At, SwitchPcs
  <1> HIDE DEF f
  <1>4. /\ cpu \in Pids
        /\ active_pids[cpu] = 1
        /\ kernel_esp[cpu] = <<cpu, Len(kstack[cpu])>>
    BY <1>1, RunningFacts
  <1>5. FramesOK' /\ StacksOK' /\ ReserveOK' /\ LoadsOK' /\ TermsOK' /\ JobsOK'
    BY <1>1, <1>2, RtcMove DEF SwitchSet
  <1>6. /\ ~UserMode' /\ Top' = f /\ TopPc(Top.pid)' = TopPc(Top.pid)
        /\ Len(kstack'[cpu]) = Len(kstack[cpu])
    BY <1>1, <1>2, <1>3, NewTop DEF SwitchSet, Stacks, PidOrNone
  <1>7. CurrentOK' /\ TargetOK'
    BY <1>2, <1>3, <1>4, <1>6
       DEF SwitchSet, CurrentOK, TargetOK, Orphan, At, SwitchPcs
  <1> QED
    BY <1>5, <1>7 DEF TableOK, SwitchSet, IndInv

\* A handler that returns without having changed the process table.
LEMMA ReturnKeeps ==
    ASSUME IndInv, ~UserMode, Return,
           Top.pc \in {"find", "tick"}, Top.by \notin {"halt", "boot"},
           UNCHANGED <<active_pids, terminal_pids, current_pid, page, esp0,
                       file_descriptors, parent_pcb, terminal_id, kernel_esp,
                       terminal_active, cpu>>
    PROVE  TableOK' /\ JobsOK'
  <1>1. TypeOK /\ FramesOK /\ StacksOK /\ LoadsOK /\ TermsOK
    BY DEF IndInv, TableOK
  <1>2. /\ kstack' \in [Stacks -> Seq(Frame)]
        /\ Len(kstack'[cpu]) = Len(kstack[cpu]) - 1
        /\ \A d \in 1 .. Len(kstack[cpu]) - 1 : kstack'[cpu][d] = kstack[cpu][d]
        /\ \A s \in Stacks : s # cpu => kstack'[s] = kstack[s]
    BY <1>1, ReturnFacts
  <1>3. /\ Len(kstack[cpu]) \in Nat \ {0} /\ cpu \in Stacks
        /\ Top = kstack[cpu][Len(kstack[cpu])]
    BY TopKind
  <1>4. \A s \in Stacks : \A d \in 1 .. Len(kstack'[s]) :
           /\ d \in 1 .. Len(kstack[s])
           /\ kstack'[s][d] = kstack[s][d]
           /\ d < Len(kstack'[s]) => d < Len(kstack[s])
           /\ s = cpu => d < Len(kstack[s])
    BY <1>2, <1>3
  <1>5. kstack'[cpu] # <<>> => Len(kstack'[cpu]) \in 1 .. Len(kstack'[cpu])
    BY <1>2, <1>3, EmptySeq
  <1>6. ~UserMode' => Interrupted(Top)'
    BY <1>1, <1>3, <1>4, <1>5 DEF UserMode, Top, Depth, FramesOK, Positions, Interrupted
  <1>7. FramesOK'
    BY <1>1, <1>4 DEF FramesOK, Positions
  <1>8. StacksOK'
    <2>1. kstack'[cpu] # <<>> => TopPc(cpu)' \notin {"child", "off"}
      BY <1>6 DEF UserMode, Interrupted, Top, Depth, TopPc
    <2>2. \A s \in Stacks : s # cpu => kstack'[s] = kstack[s] /\ TopPc(s)' = TopPc(s)
      BY <1>2 DEF TopPc
    <2> QED
      BY <1>1, <2>1, <2>2 DEF StacksOK
  <1>9. CurrentOK' /\ TargetOK' /\ ReserveOK'
    <2>1. /\ cpu \in Pids
          /\ active_pids[cpu] = 1
          /\ <<current_pid, page, esp0, file_descriptors>> = <<cpu, cpu, cpu, cpu>>
      BY RunningFacts
    <2>2. ~Orphan'
      BY <1>6 DEF Orphan, UserMode, Interrupted
    <2>3. ~At({"set", "jump"})' /\ ~At({"jump"})' /\ ~At(SwitchPcs)' /\ ~At({"reserve"})'
      BY <1>6 DEF At, Interrupted, SwitchPcs
    <2> QED
      BY <2>1, <2>2, <2>3 DEF CurrentOK, TargetOK, ReserveOK
  <1>10. LoadsOK'
    <2>1. \A s \in Stacks : \A d \in 1 .. Len(kstack[s]) : IsLoad(kstack[s][d]) =>
             d \in 1 .. Len(kstack'[s]) /\ kstack'[s][d] = kstack[s][d]
      <3>1. ~IsLoad(kstack[cpu][Len(kstack[cpu])])
        BY <1>3 DEF IsLoad
      <3>2. \A d \in 1 .. Len(kstack[cpu]) :
               d = Len(kstack[cpu]) \/ d \in 1 .. Len(kstack[cpu]) - 1
        BY <1>3
      <3> QED
        BY <1>2, <1>3, <3>1, <3>2
    <2> QED
      BY <1>1, <1>4, <2>1, LoadsKept DEF Positions
  <1>11. TermsOK'
    BY <1>1, <1>4, TermsKept DEF Positions
  <1>12. JobsOK'
    <2>1. \A t \in Terminals : ~Restarting(t)
      BY DEF Restarting
    <2> QED
      BY <1>2, <2>1, JobsKept
  <1> QED
    BY <1>7, <1>8, <1>9, <1>10, <1>11, <1>12 DEF TableOK

\* An rtc_handler that does not switch preserves the invariant.
LEMMA RtcTickKeeps == IndInv /\ RtcTick => TableOK' /\ JobsOK' /\ ~wild'
  <1> SUFFICES ASSUME IndInv, RtcTick PROVE TableOK' /\ JobsOK' /\ ~wild'
    OBVIOUS
  <1>1. ~UserMode /\ Top.pc = "tick" /\ Top.by = "rtc"
    BY TopKind DEF RtcTick, At
  <1> QED
    BY <1>1, ReturnKeeps DEF RtcTick, contextVars, pcbVars, terminalVars, IndInv

\* Only a creation that has a current process can fail: halt has just freed a pid.
LEMMA FindNoPidKeeps == IndInv /\ FindNoPid => TableOK' /\ JobsOK' /\ ~wild'
  <1> SUFFICES ASSUME IndInv, FindNoPid PROVE TableOK' /\ JobsOK' /\ ~wild'
    OBVIOUS
  <1>1. ~UserMode /\ Top.pc = "find"
    BY DEF FindNoPid, At
  <1>2. Top.by \notin {"halt", "boot"}
    <2>1. Top.by \in {"halt", "boot"} => Orphan /\ TopPc(cpu) = "find"
      BY <1>1 DEF Orphan, UserMode, Top, Depth, TopPc, CreatePcs
    <2> QED
      BY <2>1 DEF IndInv, TableOK, CurrentOK, FindNoPid
  <1> QED
    BY <1>1, <1>2, ReturnKeeps DEF FindNoPid, contextVars, pcbVars, terminalVars

-----------------------------------------------------------------------------
(* Traps and interrupts that push a frame.                                 *)

\* A trap or an interrupt that pushes a frame on the running stack preserves the
\* parts of the invariant that do not depend on the kind of frame.
LEMMA PushKeeps ==
    ASSUME IndInv, UserMode \/ Interrupted(Top),
           NEW f \in Frame, Enter(f), FrameKind(f),
           f.pc \in {"find", "ack"}, f.by \notin {"halt", "boot"},
           UNCHANGED <<active_pids, terminal_pids, current_pid, page, esp0,
                       file_descriptors, parent_pcb, terminal_id, kernel_esp>>
    PROVE  /\ FramesOK' /\ StacksOK' /\ CurrentOK' /\ TargetOK' /\ ReserveOK'
           /\ LoadsOK' /\ JobsOK'
           /\ cpu' = cpu
           /\ \A s \in Stacks : \A d \in 1 .. Len(kstack'[s]) :
                  \/ d \in 1 .. Len(kstack[s]) /\ kstack'[s][d] = kstack[s][d]
                  \/ s = cpu /\ d = Len(kstack[cpu]) + 1 /\ kstack'[s][d] = f
  <1>1. TypeOK /\ FramesOK /\ StacksOK /\ LoadsOK
    BY DEF IndInv, TableOK
  <1>2. /\ cpu \in Pids
        /\ active_pids[cpu] = 1
        /\ <<current_pid, page, esp0, file_descriptors>> = <<cpu, cpu, cpu, cpu>>
    BY RunningFacts DEF Interrupted
  <1>3. cpu' = cpu /\ kstack' = [kstack EXCEPT ![cpu] = Append(kstack[cpu], f)]
    BY <1>1, <1>2, EnterFacts
  <1>4. /\ kstack' \in [Stacks -> Seq(Frame)]
        /\ Len(kstack'[cpu]) = Len(kstack[cpu]) + 1
        /\ kstack'[cpu][Len(kstack[cpu]) + 1] = f
        /\ \A d \in 1 .. Len(kstack[cpu]) : kstack'[cpu][d] = kstack[cpu][d]
        /\ \A s \in Stacks : s # cpu => kstack'[s] = kstack[s]
    BY <1>1, <1>3, PushFacts
  <1>5. cpu \in Stacks /\ Len(kstack[cpu]) \in Nat
    BY <1>1, LenProperties DEF TypeOK
  <1>6. \A s \in Stacks : \A d \in 1 .. Len(kstack'[s]) :
           \/ d \in 1 .. Len(kstack[s]) /\ kstack'[s][d] = kstack[s][d]
           \/ s = cpu /\ d = Len(kstack[cpu]) + 1 /\ kstack'[s][d] = f
    BY <1>4, <1>5
  <1>7. /\ ~UserMode' /\ Top' = f /\ TopPc(cpu)' = f.pc
        /\ \A s \in Stacks : s # cpu => kstack'[s] = kstack[s] /\ TopPc(s)' = TopPc(s)
    BY <1>3, <1>4, <1>5, EmptySeq DEF UserMode, Top, Depth, TopPc
  <1>8. FramesOK'
    <2>1. ~UserMode => kstack[cpu][Len(kstack[cpu])] = Top
      BY DEF Top, Depth
    <2>2. UserMode => Len(kstack[cpu]) = 0
      BY DEF UserMode
    <2>3. \A d \in 1 .. Len(kstack[cpu]) : Interrupted(kstack[cpu][d])
      BY <1>1, <1>5, <2>1, <2>2 DEF FramesOK, Positions
    <2>4. \A d \in 1 .. Len(kstack'[cpu]) :
             /\ FrameKind(kstack'[cpu][d])
             /\ d < Len(kstack'[cpu]) => Interrupted(kstack'[cpu][d])
      BY <1>1, <1>4, <1>5, <2>3 DEF FramesOK, Positions
    <2> QED
      BY <1>1, <1>4, <2>4 DEF FramesOK, Positions
  <1>9. StacksOK'
    BY <1>1, <1>3, <1>7 DEF StacksOK
  <1>10. CurrentOK' /\ TargetOK' /\ ReserveOK'
    BY <1>2, <1>3, <1>7 DEF CurrentOK, TargetOK, ReserveOK, Orphan, At, SwitchPcs
  <1>11. LoadsOK'
    <2>1. \A s \in Stacks : \A d \in 1 .. Len(kstack'[s]) : IsLoad(kstack'[s][d]) =>
             d \in 1 .. Len(kstack[s]) /\ kstack'[s][d] = kstack[s][d]
      BY <1>6 DEF IsLoad
    <2>2. \A s \in Stacks : \A d \in 1 .. Len(kstack[s]) :
             d \in 1 .. Len(kstack'[s]) /\ kstack'[s][d] = kstack[s][d]
      BY <1>4, <1>5
    <2> QED
      BY <1>1, <2>1, <2>2, LoadsKept DEF Positions
  <1>12. JobsOK'
    <2>1. \A t \in Terminals : ~Restarting(t)
      BY <1>2 DEF Restarting, Pids, None
    <2> QED
      BY <1>3, <1>4, <2>1, JobsKept
  <1> QED
    BY <1>3, <1>6, <1>8, <1>9, <1>10, <1>11, <1>12

\* execute, up to the allocation of a pid, preserves the invariant.
LEMMA ExecuteKeeps == IndInv /\ Execute => TableOK' /\ JobsOK' /\ ~wild'
  <1> SUFFICES ASSUME IndInv, Execute PROVE TableOK' /\ JobsOK' /\ ~wild'
    OBVIOUS
  <1> USE DEF contextVars, terminalVars, pcbVars
  <1>1. UserMode
    BY DEF Execute
  <1>2. cpu \in Pids /\ active_pids[cpu] = 1 /\ current_pid = cpu
    BY <1>1, RunningFacts
  <1> DEFINE f == CreateFrame("execute", terminal_id[cpu])
  <1>3. /\ f \in Frame /\ FrameKind(f)
        /\ f.pc = "find" /\ f.by = "execute" /\ f.term = terminal_id[cpu]
    BY <1>2, NewFrames DEF IndInv, TypeOK, CreateFrame, FrameKind, CreatePcs
  <1>4. Enter(f)
    BY <1>2 DEF Execute
  <1> HIDE DEF f
  <1>5. /\ FramesOK' /\ StacksOK' /\ CurrentOK' /\ TargetOK' /\ ReserveOK'
        /\ LoadsOK' /\ JobsOK' /\ cpu' = cpu
        /\ \A s \in Stacks : \A d \in 1 .. Len(kstack'[s]) :
               \/ d \in 1 .. Len(kstack[s]) /\ kstack'[s][d] = kstack[s][d]
               \/ s = cpu /\ d = Len(kstack[cpu]) + 1 /\ kstack'[s][d] = f
    BY <1>1, <1>3, <1>4, PushKeeps DEF Execute
  <1>6. TermsOK'
    <2>1. TermsOK
      BY DEF IndInv, TableOK
    <2>2. ~StartsTerminal(f) /\ UNCHANGED <<active_pids, terminal_id, terminal_active>>
      BY <1>3 DEF StartsTerminal, Execute
    <2>3. TermsActive' /\ ChildFrames'
      BY <1>2, <1>3, <1>5, <2>1, <2>2 DEF TermsOK, TermsActive, ChildFrames, Positions
    <2>4. \A s \in Stacks : \A d \in 1 .. Len(kstack'[s]) :
             StartsTerminal(kstack'[s][d]) =>
                 d \in 1 .. Len(kstack[s]) /\ kstack'[s][d] = kstack[s][d]
      BY <1>5, <2>2
    <2>5. RootFrames'
      BY <2>1, <2>2, <2>4 DEF TermsOK, RootFrames, Positions, StartsTerminal
    <2>6. RootsDistinct'
      <3>1. \A s \in Stacks : \A d \in Positions(s)' : StartsTerminal(kstack[s][d])' =>
               d \in Positions(s) /\ kstack'[s][d] = kstack[s][d]
        BY <2>4 DEF Positions, StartsTerminal
      <3> QED
        BY <2>1, <3>1, RootsKept DEF TermsOK
    <2> QED
      BY <2>3, <2>5, <2>6 DEF TermsOK
  <1> QED
    BY <1>5, <1>6 DEF TableOK, Execute, IndInv

\* An RTC interrupt preserves the invariant wherever it is taken.
LEMMA RtcInterruptKeeps ==
    NarrowWindows /\ IndInv /\ RtcInterrupt => TableOK' /\ JobsOK' /\ ~wild'
  <1> SUFFICES ASSUME NarrowWindows, IndInv, RtcInterrupt
               PROVE  TableOK' /\ JobsOK' /\ ~wild'
    OBVIOUS
  <1> USE DEF contextVars, terminalVars, pcbVars
  <1>1. UserMode \/ Interrupted(Top)
    BY InterruptedTop DEF RtcInterrupt
  <1> DEFINE f == RtcFrame
  <1>2. f \in Frame /\ FrameKind(f) /\ f.pc = "ack" /\ f.by = "rtc"
    BY NewFrames DEF RtcFrame, FrameKind
  <1>3. Enter(f)
    BY DEF RtcInterrupt
  <1> HIDE DEF f
  <1>4. /\ FramesOK' /\ StacksOK' /\ CurrentOK' /\ TargetOK' /\ ReserveOK'
        /\ LoadsOK' /\ JobsOK' /\ cpu' = cpu
        /\ \A s \in Stacks : \A d \in 1 .. Len(kstack'[s]) :
               \/ d \in 1 .. Len(kstack[s]) /\ kstack'[s][d] = kstack[s][d]
               \/ s = cpu /\ d = Len(kstack[cpu]) + 1 /\ kstack'[s][d] = f
    BY <1>1, <1>2, <1>3, PushKeeps DEF RtcInterrupt
  <1>5. TermsOK'
    <2>1. TermsOK
      BY DEF IndInv, TableOK
    <2>2. f.pc \notin CreatePcs
      BY <1>2 DEF CreatePcs
    <2> QED
      BY <1>4, <2>1, <2>2, TermsKept DEF RtcInterrupt, Positions
  <1> QED
    BY <1>4, <1>5 DEF TableOK, RtcInterrupt, IndInv

\* Alt+Fn preserves the invariant, whether the terminal has a shell or needs one.
LEMMA SwitchTerminalKeeps ==
    ASSUME NarrowWindows, IndInv, NEW t \in Terminals, SwitchTerminal(t)
    PROVE  TableOK' /\ JobsOK' /\ ~wild'
  <1> USE DEF contextVars, pcbVars
  <1>1. CASE terminal_active[t]
    <2>1. UNCHANGED <<active_pids, terminal_pids, current_pid, page, esp0,
                      file_descriptors, parent_pcb, terminal_id, kernel_esp,
                      terminal_active, cpu, kstack, wild>>
      BY <1>1 DEF SwitchTerminal
    <2>2. \A s : TopPc(s)' = TopPc(s) /\ Positions(s)' = Positions(s)
      BY <2>1 DEF TopPc, Positions
    <2>3. Top' = Top /\ (UserMode' <=> UserMode) /\ Depth' = Depth
      BY <2>1 DEF Top, Depth, UserMode
    <2>4. \A pcs : At(pcs)' <=> At(pcs)
      BY <2>3 DEF At
    <2>5. FramesOK' /\ StacksOK' /\ TargetOK' /\ ReserveOK' /\ LoadsOK' /\ TermsOK'
      <3>1. FramesOK' /\ StacksOK' /\ TargetOK' /\ ReserveOK'
        BY <2>1, <2>2, <2>3, <2>4
           DEF IndInv, TableOK, FramesOK, StacksOK, TargetOK, ReserveOK
      <3>2. LoadsOK'
        BY <2>1, <2>2, LoadsKept DEF IndInv, TableOK
      <3>3. TermsOK'
        BY <2>1, <2>2, TermsKept DEF IndInv, TableOK
      <3> QED
        BY <3>1, <3>2, <3>3
    <2>6. CurrentOK'
      BY <2>1, <2>2, <2>3, <2>4 DEF IndInv, TableOK, CurrentOK, Orphan, FreePids
    <2>7. JobsOK'
      <3>1. \A u \in Terminals : Restarting(u) => Restarting(u)'
        BY <2>1, <2>3 DEF Restarting
      <3> QED
        BY <2>1, <3>1, JobsKept
    <2> QED
      BY <2>1, <2>5, <2>6, <2>7 DEF TableOK, IndInv
  <1>2. CASE ~terminal_active[t]
    <2>1. UserMode \/ Interrupted(Top)
      BY InterruptedTop DEF SwitchTerminal
    <2> DEFINE f == CreateFrame("keyboard", t)
    <2>2. /\ f \in Frame /\ FrameKind(f)
          /\ f.pc = "find" /\ f.by = "keyboard" /\ f.term = t
      BY NewFrames DEF CreateFrame, FrameKind, CreatePcs
    <2>3. Enter(f)
      BY <1>2 DEF SwitchTerminal
    <2> HIDE DEF f
    <2>4. /\ FramesOK' /\ StacksOK' /\ CurrentOK' /\ TargetOK' /\ ReserveOK'
          /\ LoadsOK' /\ JobsOK' /\ cpu' = cpu
          /\ \A s \in Stacks : \A d \in 1 .. Len(kstack'[s]) :
                 \/ d \in 1 .. Len(kstack[s]) /\ kstack'[s][d] = kstack[s][d]
                 \/ s = cpu /\ d = Len(kstack[cpu]) + 1 /\ kstack'[s][d] = f
      BY <2>1, <2>2, <2>3, PushKeeps DEF SwitchTerminal
    <2>5. TermsOK'
      <3>1. TermsOK
        BY DEF IndInv, TableOK
      <3>2. /\ terminal_active'[t]
            /\ \A u \in Terminals : terminal_active[u] => u # t /\ terminal_active'[u]
        BY <1>2 DEF SwitchTerminal, IndInv, TypeOK
      <3>3. UNCHANGED <<active_pids, terminal_id>>
        BY DEF SwitchTerminal
      <3>4. TermsActive' /\ \A p \in Pids : active_pids[p] = 1 => terminal_id[p] # t
        BY <3>1, <3>2, <3>3 DEF TermsOK, TermsActive, IndInv, TypeOK
      <3>5. \A s \in Stacks : \A d \in 1 .. Len(kstack[s]) :
               StartsTerminal(kstack[s][d]) =>
                   kstack[s][d].term # t /\ terminal_active'[kstack[s][d].term]
        <4>1. \A s \in Stacks : \A d \in 1 .. Len(kstack[s]) : kstack[s][d].term \in Terminals
          BY ElementOfSeq, MovedFrame DEF IndInv, TypeOK
        <4> QED
          BY <3>1, <3>2, <4>1 DEF TermsOK, RootFrames, Positions
      <3>6. ChildFrames'
        <4>1. ~StartsChild(f)
          BY <2>2 DEF StartsChild
        <4> QED
          BY <2>4, <3>1, <3>3, <4>1 DEF TermsOK, ChildFrames, Positions
      <3>7. RootFrames'
        BY <2>2, <2>4, <3>1, <3>2, <3>3, <3>4, <3>5 DEF TermsOK, RootFrames, Positions
      <3>8. RootsDistinct'
        <4> SUFFICES ASSUME NEW s \in Stacks, NEW r \in Stacks,
                            NEW d \in 1 .. Len(kstack'[s]), NEW e \in 1 .. Len(kstack'[r]),
                            StartsTerminal(kstack'[s][d]), StartsTerminal(kstack'[r][e]),
                            kstack'[s][d].term = kstack'[r][e].term
                     PROVE  r = s /\ e = d
          BY DEF RootsDistinct, Positions, StartsTerminal
        <4>1. \/ d \in Positions(s) /\ kstack'[s][d] = kstack[s][d] /\ kstack'[s][d].term # t
              \/ s = cpu /\ d = Len(kstack[cpu]) + 1 /\ kstack'[s][d].term = t
          BY <2>2, <2>4, <3>5 DEF Positions
        <4>2. \/ e \in Positions(r) /\ kstack'[r][e] = kstack[r][e] /\ kstack'[r][e].term # t
              \/ r = cpu /\ e = Len(kstack[cpu]) + 1 /\ kstack'[r][e].term = t
          BY <2>2, <2>4, <3>5 DEF Positions
        <4> QED
          BY <3>1, <4>1, <4>2 DEF TermsOK, RootsDistinct
      <3> QED
        BY <3>4, <3>6, <3>7, <3>8 DEF TermsOK
    <2> QED
      BY <2>4, <2>5 DEF TableOK, SwitchTerminal, IndInv
  <1> QED
    BY <1>1, <1>2

-----------------------------------------------------------------------------
(* process_create: the allocation of a pid.                                *)

\* A step of process_create that moves its frame from the search to the reservation
\* or to the load preserves the parts of the invariant about stacks and jobs.
LEMMA CreateMove ==
    ASSUME IndInv, ~UserMode, Top.pc \in {"find", "reserve"},
           NEW f \in Frame, SetTop(f),
           f.pc \in {"reserve", "load"}, f.by = Top.by, f.term = Top.term,
           \A p \in Pids : active_pids'[p] = 1 <=> active_pids[p] = 1,
           UNCHANGED <<terminal_pids, current_pid, page, esp0, file_descriptors,
                       terminal_id, parent_pcb, kernel_esp, terminal_active, cpu>>
    PROVE  FramesOK' /\ StacksOK' /\ CurrentOK' /\ TargetOK' /\ TermsOK' /\ JobsOK'
  <1>1. TypeOK /\ FramesOK /\ StacksOK /\ CurrentOK /\ TermsOK
    BY DEF IndInv, TableOK
  <1>2. /\ Len(kstack'[cpu]) = Len(kstack[cpu])
        /\ kstack'[cpu][Len(kstack[cpu])] = f
        /\ \A d \in 1 .. Len(kstack[cpu]) :
               d # Len(kstack[cpu]) => kstack'[cpu][d] = kstack[cpu][d]
        /\ \A s \in Stacks : s # cpu => kstack'[s] = kstack[s]
        /\ kstack' \in [Stacks -> Seq(Frame)]
    BY <1>1, SetTopFacts
  <1>3. /\ Len(kstack[cpu]) \in Nat \ {0} /\ cpu \in Stacks
        /\ Top = kstack[cpu][Len(kstack[cpu])]
        /\ FrameKind(Top)
        /\ Top.pc \in CreatePcs /\ f.pc \in CreatePcs
    BY TopKind DEF CreatePcs
  <1>4. /\ ~UserMode' /\ Top' = f /\ TopPc(cpu)' = f.pc
        /\ kstack'[cpu] # <<>>
        /\ \A s \in Stacks : s # cpu => kstack'[s] = kstack[s] /\ TopPc(s)' = TopPc(s)
    BY NewTop
  <1>5. FramesOK'
    <2>1. FrameKind(f)
      BY <1>3 DEF FrameKind, CreatePcs, SwitchPcs
    <2> QED
      BY <1>1, <1>2, <1>3, <2>1 DEF FramesOK, Positions
  <1>6. StacksOK'
    BY <1>1, <1>3, <1>4 DEF StacksOK, CreatePcs, Stacks, PidOrNone
  <1>7. TargetOK'
    BY <1>4 DEF TargetOK, At, SwitchPcs
  <1>8. CurrentOK'
    <2>1. Orphan' <=> Orphan
      BY <1>3, <1>4 DEF Orphan, Top, Depth, TopPc, UserMode
    <2>2. ~At({"jump"})' /\ ~At({"jump"}) /\ ~At({"set", "jump"})'
      BY <1>3, <1>4 DEF At, CreatePcs
    <2> QED
      BY <1>1, <1>2, <1>4, <2>1, <2>2 DEF CurrentOK
  <1>9. TermsOK'
    <2>1. \A s \in Stacks : Positions(s)' = Positions(s)
      BY <1>2 DEF Positions
    <2>2. \A s \in Stacks : \A d \in Positions(s) :
             /\ StartsChild(kstack'[s][d]) <=> StartsChild(kstack[s][d])
             /\ StartsTerminal(kstack'[s][d]) <=> StartsTerminal(kstack[s][d])
             /\ kstack'[s][d].term = kstack[s][d].term
      BY <1>2, <1>3 DEF Positions, StartsChild, StartsTerminal
    <2>3. TermsActive' /\ ChildFrames'
      BY <1>1, <2>1, <2>2
         DEF TermsOK, TermsActive, ChildFrames, StartsChild, Stacks, PidOrNone
    <2>4. RootFrames'
      BY <1>1, <2>1, <2>2 DEF TermsOK, RootFrames, StartsTerminal
    <2>5. RootsDistinct'
      BY <1>1, <2>1, <2>2 DEF TermsOK, RootsDistinct, StartsTerminal
    <2> QED
      BY <2>3, <2>4, <2>5 DEF TermsOK
  <1>10. JobsOK'
    <2>1. \A t \in Terminals : Restarting(t) => Restarting(t)'
      BY <1>4 DEF Restarting
    <2> QED
      BY <1>2, <2>1, JobsKept
  <1> QED
    BY <1>5, <1>6, <1>7, <1>8, <1>9, <1>10

\* A successful get_free_pid preserves the invariant.
LEMMA FindPidKeeps == IndInv /\ FindPid => TableOK' /\ JobsOK' /\ ~wild'
  <1> SUFFICES ASSUME IndInv, FindPid PROVE TableOK' /\ JobsOK' /\ ~wild'
    OBVIOUS
  <1> USE DEF contextVars, terminalVars, pcbVars
  <1>1. ~UserMode /\ Top.pc = "find" /\ Top \in Frame
    BY TopIsFrame DEF FindPid, At, IndInv
  <1>2. PICK p \in FreePids : SetTop([Top EXCEPT !.pc = "reserve", !.pid = p])
    BY DEF FindPid
  <1> DEFINE f == [Top EXCEPT !.pc = "reserve", !.pid = p]
  <1>3. /\ f \in Frame /\ SetTop(f)
        /\ f.pc = "reserve" /\ f.by = Top.by /\ f.term = Top.term /\ f.pid = p
    <2>1. f \in Frame
      BY <1>1, MovedFrame DEF FreePids
    <2> QED
      BY <1>1, <1>2, <2>1 DEF Frame
  <1> HIDE DEF f
  <1>4. FramesOK' /\ StacksOK' /\ CurrentOK' /\ TargetOK' /\ TermsOK' /\ JobsOK'
    BY <1>1, <1>3, CreateMove DEF FindPid
  <1>5. ~UserMode' /\ Top' = f
    BY <1>1, <1>3, NewTop DEF FindPid
  <1>6. ReserveOK'
    BY <1>3, <1>5 DEF ReserveOK, FreePids, FindPid
  <1>7. LoadsOK'
    <2>1. /\ Len(kstack'[cpu]) = Len(kstack[cpu])
          /\ kstack'[cpu][Len(kstack[cpu])] = f
          /\ \A d \in 1 .. Len(kstack[cpu]) :
                 d # Len(kstack[cpu]) => kstack'[cpu][d] = kstack[cpu][d]
          /\ \A s \in Stacks : s # cpu => kstack'[s] = kstack[s]
      BY <1>1, <1>3, SetTopFacts DEF IndInv
    <2>2. Top = kstack[cpu][Len(kstack[cpu])] /\ Len(kstack[cpu]) \in Nat
      BY <1>1, TopKind
    <2>3. \A s \in Stacks : Positions(s)' = Positions(s)
      BY <2>1 DEF Positions
    <2>4. \A s \in Stacks : \A d \in Positions(s) :
             \/ kstack'[s][d] = kstack[s][d]
             \/ ~IsLoad(kstack'[s][d]) /\ ~IsLoad(kstack[s][d])
      BY <1>1, <1>3, <2>1, <2>2 DEF Positions, IsLoad
    <2> QED
      BY <2>3, <2>4, LoadsKept DEF FindPid, IndInv, TableOK
  <1> QED
    BY <1>4, <1>6, <1>7 DEF TableOK, FindPid, IndInv

\* The reservation of a pid preserves the invariant: under NarrowWindows the pid is
\* still free.
LEMMA ReservePidKeeps == IndInv /\ ReservePid => TableOK' /\ JobsOK' /\ ~wild'
  <1> SUFFICES ASSUME IndInv, ReservePid PROVE TableOK' /\ JobsOK' /\ ~wild'
    OBVIOUS
  <1> USE DEF contextVars, terminalVars, pcbVars
  <1>1. ~UserMode /\ Top.pc = "reserve" /\ Top \in Frame
    BY TopIsFrame DEF ReservePid, At, IndInv
  <1>2. PICK p \in Pids : p = Top.pid
    BY <1>1, MovedFrame
  <1>3. active_pids[p] = -1
    BY <1>1, <1>2 DEF IndInv, TableOK, ReserveOK, At
  <1> DEFINE f == [Top EXCEPT !.pc = "load"]
  <1>4. /\ f \in Frame /\ SetTop(f)
        /\ f.pc = "load" /\ f.by = Top.by /\ f.term = Top.term /\ f.pid = p
    BY <1>1, <1>2, MovedFrame, ZenonT(40) DEF Frame, ReservePid
  <1> HIDE DEF f
  <1>5. /\ active_pids'[p] = 0
        /\ \A q \in Pids : q # p => active_pids'[q] = active_pids[q]
    BY <1>2 DEF ReservePid, IndInv, TypeOK
  <1>6. \A q \in Pids : active_pids'[q] = 1 <=> active_pids[q] = 1
    BY <1>3, <1>5
  <1>7. FramesOK' /\ StacksOK' /\ CurrentOK' /\ TargetOK' /\ TermsOK' /\ JobsOK'
    BY <1>1, <1>4, <1>6, CreateMove DEF ReservePid
  <1>8. ~UserMode' /\ Top' = f
    BY <1>1, <1>4, NewTop DEF ReservePid
  <1>9. ReserveOK'
    BY <1>4, <1>8 DEF ReserveOK, At
  <1>10. LoadsOK'
    <2>1. /\ Len(kstack'[cpu]) = Len(kstack[cpu])
          /\ kstack'[cpu][Len(kstack[cpu])] = f
          /\ \A d \in 1 .. Len(kstack[cpu]) :
                 d # Len(kstack[cpu]) => kstack'[cpu][d] = kstack[cpu][d]
          /\ \A s \in Stacks : s # cpu => kstack'[s] = kstack[s]
      BY <1>1, <1>4, SetTopFacts DEF IndInv
    <2>2. /\ Top = kstack[cpu][Len(kstack[cpu])] /\ Len(kstack[cpu]) \in Nat \ {0}
          /\ cpu \in Stacks
      BY <1>1, TopKind
    <2>3. \A s \in Stacks : Positions(s)' = Positions(s)
      BY <2>1 DEF Positions
    <2> DEFINE n == Len(kstack[cpu])
    <2>4. n \in Positions(cpu) /\ ~IsLoad(kstack[cpu][n]) /\ kstack'[cpu][n] = f
      BY <1>1, <2>1, <2>2 DEF Positions, IsLoad
    <2>5. \A s \in Stacks : \A d \in Positions(s) :
             (s = cpu /\ d = n) \/ kstack'[s][d] = kstack[s][d]
      BY <2>1 DEF Positions
    <2> HIDE DEF n
    <2>6. LoadsOK
      BY DEF IndInv, TableOK
    <2>7. LoadPids'
      BY <1>4, <1>5, <2>3, <2>4, <2>5, <2>6 DEF LoadsOK, LoadPids, IsLoad
    <2>8. \A s \in Stacks : \A d \in Positions(s) :
             IsLoad(kstack[s][d]) => kstack[s][d].pid # p
      BY <1>3, <2>6 DEF LoadsOK, LoadPids
    <2>9. LoadsDistinct'
      <3> SUFFICES ASSUME NEW s \in Stacks, NEW r \in Stacks,
                          NEW d \in Positions(s), NEW e \in Positions(r),
                          IsLoad(kstack'[s][d]), IsLoad(kstack'[r][e]),
                          kstack'[s][d].pid = kstack'[r][e].pid
                   PROVE  r = s /\ e = d
        BY <2>3 DEF LoadsDistinct, IsLoad
      <3>1. (s = cpu /\ d = n /\ kstack'[s][d].pid = p)
               \/ (kstack'[s][d] = kstack[s][d] /\ kstack'[s][d].pid # p)
        BY <1>4, <2>4, <2>5, <2>8
      <3>2. (r = cpu /\ e = n /\ kstack'[r][e].pid = p)
               \/ (kstack'[r][e] = kstack[r][e] /\ kstack'[r][e].pid # p)
        BY <1>4, <2>4, <2>5, <2>8
      <3> QED
        BY <2>6, <3>1, <3>2 DEF LoadsOK, LoadsDistinct
    <2>10. ReservedLoads'
      <3> SUFFICES ASSUME NEW q \in Pids, active_pids'[q] = 0
                   PROVE  \E s \in Stacks : \E d \in Positions(s) :
                             IsLoad(kstack'[s][d]) /\ kstack'[s][d].pid = q
        BY <2>3 DEF ReservedLoads, IsLoad
      <3>1. CASE q = p
        BY <1>4, <2>2, <2>4, <3>1 DEF IsLoad
      <3>2. CASE q # p
        <4>1. PICK s \in Stacks : \E d \in Positions(s) :
                 IsLoad(kstack[s][d]) /\ kstack[s][d].pid = q
          BY <1>5, <2>6, <3>2 DEF LoadsOK, ReservedLoads
        <4>2. PICK d \in Positions(s) : IsLoad(kstack[s][d]) /\ kstack[s][d].pid = q
          BY <4>1
        <4>3. kstack'[s][d] = kstack[s][d]
          BY <2>4, <2>5, <4>2
        <4> QED
          BY <4>2, <4>3
      <3> QED
        BY <3>1, <3>2
    <2> QED
      BY <2>7, <2>9, <2>10 DEF LoadsOK
  <1> QED
    BY <1>7, <1>9, <1>10 DEF TableOK, ReservePid, IndInv

-----------------------------------------------------------------------------
(* Steps that resume a suspended process.                                  *)

\* What Resume does to the stacks when the frame to return to is on top of its
\* stack with the expected pc: that frame is popped and control is kept.
LEMMA ResumeFacts ==
    ASSUME NEW p \in Pids, NEW pc, NEW ks \in [Stacks -> Seq(Frame)],
           ks[p] # <<>>, ks[p][Len(ks[p])].pc = pc,
           Resume(<<p, Len(ks[p])>>, pc, ks)
    PROVE  /\ cpu' = p
           /\ wild' = FALSE
           /\ kstack' \in [Stacks -> Seq(Frame)]
           /\ Len(ks[p]) \in Nat \ {0}
           /\ Len(kstack'[p]) = Len(ks[p]) - 1
           /\ \A d \in 1 .. Len(ks[p]) - 1 : kstack'[p][d] = ks[p][d]
           /\ \A s \in Stacks : s # p => kstack'[s] = ks[s]
  <1>1. p \in Stacks /\ ks[p] \in Seq(Frame)
    BY DEF Stacks, PidOrNone
  <1>2. Len(ks[p]) \in Nat \ {0}
    BY <1>1, EmptySeq
  <1> DEFINE s2 == SubSeq(ks[p], 1, Len(ks[p]) - 1)
  <1>3. /\ s2 \in Seq(Frame)
        /\ Len(s2) = Len(ks[p]) - 1
        /\ \A d \in 1 .. Len(ks[p]) - 1 : s2[d] = ks[p][d]
    <2>1. Len(ks[p]) - 1 \in Nat /\ Len(ks[p]) - 1 <= Len(ks[p])
      BY <1>2
    <2> QED
      BY <1>1, <2>1, PrefixFacts
  <1>4. /\ cpu' = p
        /\ kstack' = [ks EXCEPT ![p] = s2]
        /\ wild' = FALSE
    BY <1>2 DEF Resume
  <1> HIDE DEF s2
  <1> QED
    BY <1>1, <1>2, <1>3, <1>4

\* The stack of the resumed process, whose frames all were interrupted.
LEMMA ResumedTop ==
    ASSUME IndInv, NEW p \in Pids, Len(kstack[p]) \in Nat \ {0},
           cpu' = p,
           kstack' \in [Stacks -> Seq(Frame)],
           Len(kstack'[p]) = Len(kstack[p]) - 1,
           \A d \in 1 .. Len(kstack[p]) - 1 : kstack'[p][d] = kstack[p][d]
    PROVE  /\ \A d \in 1 .. Len(kstack'[p]) :
                  FrameKind(kstack'[p][d]) /\ Interrupted(kstack'[p][d])
           /\ ~UserMode' => Interrupted(Top)'
           /\ kstack'[p] # <<>> => TopPc(p)' \notin {"child", "off"}
  <1>1. \A d \in 1 .. Len(kstack'[p]) :
           FrameKind(kstack'[p][d]) /\ Interrupted(kstack'[p][d])
    BY DEF IndInv, TableOK, FramesOK, Positions, Stacks, PidOrNone
  <1>2. kstack'[p] # <<>> => Len(kstack'[p]) \in 1 .. Len(kstack'[p])
    BY EmptySeq DEF Stacks, PidOrNone
  <1>3. kstack'[p] # <<>> => Interrupted(kstack'[p][Len(kstack'[p])])
    BY <1>1, <1>2
  <1> QED
    BY <1>1, <1>3 DEF UserMode, Top, Depth, Interrupted, TopPc

\* The jump of process_switch preserves the invariant: the target is suspended at
\* the esp in its PCB.
LEMMA SwitchJumpKeeps == IndInv /\ SwitchJump => TableOK' /\ JobsOK' /\ ~wild'
  <1> SUFFICES ASSUME IndInv, SwitchJump PROVE TableOK' /\ JobsOK' /\ ~wild'
    OBVIOUS
  <1> USE DEF contextVars, terminalVars, pcbVars
  <1>1. ~UserMode /\ Top.pc = "jump" /\ Top.by = "rtc" /\ Top \in Frame
    BY TopKind, TopIsFrame DEF SwitchJump, At, IndInv
  <1>2. TypeOK /\ FramesOK /\ StacksOK /\ LoadsOK /\ TermsOK
    BY DEF IndInv, TableOK
  <1>3. PICK c \in Pids : c = cpu
    BY <1>1, RunningFacts
  <1>4. PICK p \in Pids : p = Top.pid
    BY <1>1, MovedFrame
  <1>5. p # c /\ active_pids[p] = 1 /\ TopPc(p) = "off"
    BY <1>1, <1>3, <1>4 DEF IndInv, TableOK, TargetOK, At, SwitchPcs
  <1>6. /\ active_pids[c] = 1
        /\ <<current_pid, page, esp0, file_descriptors>> = <<p, p, p, p>>
        /\ kernel_esp[c] = <<c, Len(kstack[c])>>
    BY <1>1, <1>3, <1>4, RunningFacts
  <1>7. c \in Stacks /\ p \in Stacks
    BY DEF Stacks, PidOrNone
  <1>8. kstack[p] # <<>> /\ kernel_esp[p] = <<p, Len(kstack[p])>>
    BY <1>2, <1>3, <1>5, <1>7 DEF StacksOK
  <1> DEFINE off == [Top EXCEPT !.pc = "off"]
             n == Len(kstack[c])
             ks == [kstack EXCEPT ![c] = [kstack[c] EXCEPT ![n] = off]]
  <1>9. off \in Frame /\ off.pc = "off" /\ off.by = "rtc"
    BY <1>1, MovedFrame, ZenonT(40) DEF Frame
  <1>10. n \in Nat \ {0} /\ kstack[c][n] = Top
    BY <1>1, <1>3, TopKind
  <1> HIDE DEF off
  <1>11. /\ ks \in [Stacks -> Seq(Frame)]
         /\ Len(ks[c]) = n
         /\ \A d \in 1 .. n : ks[c][d] = IF d = n THEN off ELSE kstack[c][d]
         /\ \A s \in Stacks : s # c => ks[s] = kstack[s]
    <2>1. kstack[c] \in Seq(Frame) /\ n \in 1 .. Len(kstack[c])
      BY <1>2, <1>7, <1>10 DEF TypeOK
    <2>2. /\ [kstack[c] EXCEPT ![n] = off] \in Seq(Frame)
          /\ Len([kstack[c] EXCEPT ![n] = off]) = n
          /\ \A d \in 1 .. n : [kstack[c] EXCEPT ![n] = off][d]
                                  = IF d = n THEN off ELSE kstack[c][d]
      BY <1>9, <2>1, ExceptSeq
    <2> QED
      BY <1>2, <1>7, <2>2 DEF TypeOK
  <1>12. Resume(<<p, Len(ks[p])>>, "off", ks)
    BY <1>3, <1>4, <1>5, <1>7, <1>8, <1>11 DEF SwitchJump, Depth, off
  <1> HIDE DEF ks
  <1>13. /\ cpu' = p
         /\ wild' = FALSE
         /\ kstack' \in [Stacks -> Seq(Frame)]
         /\ Len(kstack[p]) \in Nat \ {0}
         /\ Len(kstack'[p]) = Len(kstack[p]) - 1
         /\ \A d \in 1 .. Len(kstack[p]) - 1 : kstack'[p][d] = kstack[p][d]
         /\ \A s \in Stacks : s # p => kstack'[s] = ks[s]
    <2>1. ks[p] = kstack[p] /\ ks[p] # <<>> /\ ks[p][Len(ks[p])].pc = "off"
      BY <1>5, <1>7, <1>8, <1>11 DEF TopPc
    <2>2. ks \in [Stacks -> Seq(Frame)]
      BY <1>11
    <2>3. /\ cpu' = p
          /\ wild' = FALSE
          /\ kstack' \in [Stacks -> Seq(Frame)]
          /\ Len(ks[p]) \in Nat \ {0}
          /\ Len(kstack'[p]) = Len(ks[p]) - 1
          /\ \A d \in 1 .. Len(ks[p]) - 1 : kstack'[p][d] = ks[p][d]
          /\ \A s \in Stacks : s # p => kstack'[s] = ks[s]
      BY <1>12, <2>1, <2>2, ResumeFacts, Zenon
    <2> QED
      BY <2>1, <2>3
  <1>14. /\ Len(kstack'[c]) = n
         /\ kstack'[c][n] = off
         /\ \A d \in 1 .. n : d # n => kstack'[c][d] = kstack[c][d]
         /\ \A s \in Stacks : s \notin {c, p} => kstack'[s] = kstack[s]
    BY <1>5, <1>7, <1>10, <1>11, <1>13
  <1>15. /\ \A d \in 1 .. Len(kstack'[p]) :
                FrameKind(kstack'[p][d]) /\ Interrupted(kstack'[p][d])
         /\ ~UserMode' => Interrupted(Top)'
         /\ kstack'[p] # <<>> => TopPc(p)' \notin {"child", "off"}
    BY <1>13, ResumedTop
  <1>16. /\ kstack'[c] # <<>> /\ TopPc(c)' = "off"
         /\ \A s \in Stacks : s \notin {c, p} => TopPc(s)' = TopPc(s)
    BY <1>7, <1>9, <1>10, <1>13, <1>14, EmptySeq DEF TopPc
  <1>17. FramesOK'
    <2>1. FrameKind(off)
      BY <1>9 DEF FrameKind
    <2>2. \A d \in 1 .. Len(kstack'[c]) :
             /\ FrameKind(kstack'[c][d])
             /\ d < Len(kstack'[c]) => Interrupted(kstack'[c][d])
      BY <1>2, <1>7, <1>10, <1>14, <2>1 DEF FramesOK, Positions
    <2> QED
      BY <1>2, <1>14, <1>15, <2>2 DEF FramesOK, Positions
  <1>18. StacksOK'
    BY <1>2, <1>3, <1>6, <1>13, <1>14, <1>15, <1>16 DEF StacksOK, SwitchJump
  <1>19. CurrentOK' /\ TargetOK' /\ ReserveOK'
    <2>1. ~Orphan'
      BY <1>15 DEF Orphan, UserMode, Interrupted
    <2>2. ~At({"set", "jump"})' /\ ~At({"jump"})' /\ ~At(SwitchPcs)' /\ ~At({"reserve"})'
      BY <1>15 DEF At, Interrupted, SwitchPcs
    <2> QED
      BY <1>5, <1>6, <1>13, <2>1, <2>2 DEF CurrentOK, TargetOK, ReserveOK, SwitchJump
  <1>20. \A s \in Stacks : \A d \in Positions(s)' :
            \/ d \in Positions(s) /\ kstack'[s][d] = kstack[s][d]
            \/ s = c /\ d = n /\ kstack'[s][d] = off
    BY <1>7, <1>10, <1>13, <1>14 DEF Positions
  <1>21. \A s \in Stacks : \A d \in Positions(s) :
            \/ d \in Positions(s)' /\ kstack'[s][d] = kstack[s][d]
            \/ s = c /\ d = n /\ kstack[s][d] = Top
            \/ s = p /\ d = Len(kstack[p]) /\ kstack[s][d].pc = "off"
    BY <1>5, <1>7, <1>10, <1>13, <1>14, SMTT(30) DEF Positions, TopPc
  <1>22. LoadsOK'
    BY <1>1, <1>2, <1>9, <1>20, <1>21, LoadsKept DEF IsLoad, SwitchJump
  <1>23. TermsOK'
    BY <1>2, <1>9, <1>20, TermsKept DEF CreatePcs, SwitchJump
  <1>24. JobsOK'
    <2> SUFFICES ASSUME NEW t \in Terminals PROVE \E job \in Seq(Pids) : JobsOf(t, job)'
      BY DEF JobsOK
    <2>1. PICK job \in Seq(Pids) : JobsOf(t, job)
      BY DEF IndInv, JobsOK
    <2>2. \A i \in 1 .. Len(job) : job[i] \in Pids /\ job[i] \in Stacks
      BY ElementOfSeq DEF Stacks, PidOrNone
    <2>3. ~Restarting(t)
      BY <1>1 DEF Restarting
    <2>4. \A i \in 1 .. Len(job) :
             /\ i < Len(job) => job[i] # p /\ TopPc(job[i])' = "child"
             /\ i = Len(job) /\ job[i] # p => TopPc(job[i])' = "off"
      BY <1>3, <1>5, <1>16, <2>1, <2>2 DEF JobsOf
    <2>5. JobsOf(t, job)'
      BY <1>13, <2>1, <2>3, <2>4 DEF JobsOf, SwitchJump
    <2> QED
      BY <2>5
  <1> QED
    BY <1>13, <1>17, <1>18, <1>19, <1>22, <1>23, <1>24 DEF TableOK

-----------------------------------------------------------------------------
(* halt.                                                                   *)

\* The process that executes is the last job of its terminal.
LEMMA CpuIsLastJob ==
    ASSUME IndInv, cpu \in Pids, active_pids[cpu] = 1
    PROVE  \E job \in Seq(Pids) :
               /\ JobsOf(terminal_id[cpu], job)
               /\ Len(job) \in Nat \ {0}
               /\ job[Len(job)] = cpu
  <1>1. terminal_id[cpu] \in Terminals
    BY DEF IndInv, TypeOK
  <1>2. PICK job \in Seq(Pids) : JobsOf(terminal_id[cpu], job)
    BY <1>1 DEF IndInv, JobsOK
  <1>3. PICK i \in 1 .. Len(job) : job[i] = cpu
    BY <1>2 DEF JobsOf
  <1>4. Len(job) \in Nat
    BY LenProperties
  <1>5. i = Len(job)
    BY <1>2, <1>3, <1>4 DEF JobsOf
  <1> QED
    BY <1>2, <1>3, <1>4, <1>5

\* halt of a child preserves the invariant: its parent waits in execute and becomes
\* the last job of the terminal.
LEMMA HaltChildKeeps == IndInv /\ HaltChild => TableOK' /\ JobsOK' /\ ~wild'
  <1> SUFFICES ASSUME IndInv, HaltChild PROVE TableOK' /\ JobsOK' /\ ~wild'
    OBVIOUS
  <1> USE DEF terminalVars, pcbVars
  <1>1. UserMode
    BY DEF HaltChild
  <1>2. TypeOK /\ FramesOK /\ StacksOK /\ LoadsOK /\ TermsOK
    BY DEF IndInv, TableOK
  <1>3. PICK c \in Pids : c = cpu /\ active_pids[c] = 1 /\ current_pid = c
    BY <1>1, RunningFacts
  <1>4. PICK p \in Pids : p = parent_pcb[c]
    BY <1>2, <1>3 DEF HaltChild, TypeOK, PidOrNone
  <1>5. PICK t \in Terminals : t = terminal_id[c]
    BY <1>2 DEF TypeOK
  <1>6. PICK job \in Seq(Pids) :
           JobsOf(t, job) /\ Len(job) \in Nat \ {0} /\ job[Len(job)] = c
    BY <1>3, <1>5, CpuIsLastJob
  <1> DEFINE m == Len(job) - 1
  <1>7. m \in Nat \ {0} /\ Len(job) = m + 1 /\ job[m] = p
    BY <1>3, <1>4, <1>6 DEF JobsOf, Pids, None
  <1> HIDE DEF m
  <1>8. m \in 1 .. Len(job) /\ m < Len(job)
    BY <1>7
  <1>9. p # c /\ active_pids[p] = 1 /\ terminal_id[p] = t /\ TopPc(p) = "child"
    BY <1>3, <1>6, <1>7, <1>8 DEF JobsOf
  <1>10. c \in Stacks /\ p \in Stacks
    BY DEF Stacks, PidOrNone
  <1>11. kstack[p] # <<>> /\ kernel_esp[p] = <<p, Len(kstack[p])>>
    BY <1>2, <1>3, <1>9, <1>10 DEF StacksOK
  <1>12. /\ cpu' = p
         /\ wild' = FALSE
         /\ kstack' \in [Stacks -> Seq(Frame)]
         /\ Len(kstack[p]) \in Nat \ {0}
         /\ Len(kstack'[p]) = Len(kstack[p]) - 1
         /\ \A d \in 1 .. Len(kstack[p]) - 1 : kstack'[p][d] = kstack[p][d]
         /\ \A s \in Stacks : s # p => kstack'[s] = kstack[s]
    <2>1. Resume(<<p, Len(kstack[p])>>, "child", kstack)
      BY <1>3, <1>4, <1>11 DEF HaltChild
    <2>2. kstack \in [Stacks -> Seq(Frame)] /\ kstack[p][Len(kstack[p])].pc = "child"
      BY <1>2, <1>9 DEF TypeOK, TopPc
    <2> QED
      BY <1>11, <2>1, <2>2, ResumeFacts, Zenon
  <1>13. /\ \A d \in 1 .. Len(kstack'[p]) :
                FrameKind(kstack'[p][d]) /\ Interrupted(kstack'[p][d])
         /\ ~UserMode' => Interrupted(Top)'
         /\ kstack'[p] # <<>> => TopPc(p)' \notin {"child", "off"}
    BY <1>12, ResumedTop
  <1>14. /\ \A s \in Stacks : s # p => TopPc(s)' = TopPc(s)
         /\ kstack'[c] = <<>>
    BY <1>1, <1>3, <1>9, <1>10, <1>12 DEF TopPc, UserMode
  <1>15. /\ active_pids'[c] = -1
         /\ \A q \in Pids : q # c => active_pids'[q] = active_pids[q]
         /\ terminal_pids'[t] = p
         /\ \A u \in Terminals : u # t => terminal_pids'[u] = terminal_pids[u]
         /\ <<current_pid, page, esp0, file_descriptors>>' = <<p, p, p, p>>
         /\ UNCHANGED <<terminal_id, parent_pcb, kernel_esp, terminal_active>>
    BY <1>2, <1>3, <1>4, <1>9 DEF HaltChild, TypeOK
  <1>16. FramesOK'
    BY <1>2, <1>12, <1>13 DEF FramesOK, Positions
  <1>17. StacksOK'
    <2>1. \A s \in Stacks : s \notin {c, p} =>
             kstack'[s] = kstack[s] /\ (s \in Pids => active_pids'[s] = active_pids[s])
      BY <1>12, <1>15
    <2> QED
      BY <1>2, <1>3, <1>12, <1>13, <1>14, <1>15, <2>1 DEF StacksOK
  <1>18. CurrentOK' /\ TargetOK' /\ ReserveOK'
    <2>1. ~Orphan'
      BY <1>13 DEF Orphan, UserMode, Interrupted
    <2>2. ~At({"set", "jump"})' /\ ~At({"jump"})' /\ ~At(SwitchPcs)' /\ ~At({"reserve"})'
      BY <1>13 DEF At, Interrupted, SwitchPcs
    <2> QED
      BY <1>9, <1>12, <1>15, <2>1, <2>2 DEF CurrentOK, TargetOK, ReserveOK
  <1>19. \A s \in Stacks : \A d \in Positions(s)' :
            d \in Positions(s) /\ kstack'[s][d] = kstack[s][d]
    BY <1>10, <1>12, SMTT(30) DEF Positions
  <1>20. \A s \in Stacks : \A d \in Positions(s) :
            \/ d \in Positions(s)' /\ kstack'[s][d] = kstack[s][d]
            \/ kstack[s][d].pc = "child"
    BY <1>9, <1>10, <1>12, SMTT(30) DEF Positions, TopPc
  <1>21. LoadsOK'
    <2>1. \A q \in Pids : active_pids'[q] = 0 <=> active_pids[q] = 0
      BY <1>3, <1>15
    <2> QED
      BY <1>2, <1>19, <1>20, <2>1, LoadsKept DEF IsLoad
  <1>22. TermsOK'
    <2>1. Positions(c)' = {}
      BY <1>14 DEF Positions
    <2> QED
      BY <1>2, <1>15, <1>19, <2>1, TermsKept
  <1>23. JobsOK'
    <2> SUFFICES ASSUME NEW u \in Terminals PROVE \E jb \in Seq(Pids) : JobsOf(u, jb)'
      BY DEF JobsOK
    <2>1. CASE u = t
      <3> DEFINE jb == SubSeq(job, 1, m)
      <3>1. /\ jb \in Seq(Pids)
            /\ Len(jb) = m
            /\ \A i \in 1 .. m : jb[i] = job[i]
        <4>1. \A i \in 1 .. m : job[i] \in Pids
          BY <1>7, ElementOfSeq
        <4> QED
          BY <1>7, <4>1, SubSeqProperties
      <3> HIDE DEF jb
      <3>2. \A i \in 1 .. m :
               /\ i \in 1 .. Len(job) /\ i < Len(job)
               /\ job[i] # c /\ job[i] \in Stacks
               /\ i < m => job[i] # p
        BY <1>3, <1>6, <1>7, <1>8, ElementOfSeq DEF JobsOf, Stacks, PidOrNone
      <3>3. \A i \in 1 .. Len(jb) :
               /\ active_pids'[jb[i]] = 1
               /\ terminal_id'[jb[i]] = t
               /\ parent_pcb'[jb[i]] = IF i = 1 THEN None ELSE jb[i - 1]
               /\ i < Len(jb) => jb[i] # p /\ TopPc(jb[i])' = "child"
               /\ i = Len(jb) => jb[i] = p
               /\ \A j \in 1 .. Len(jb) : jb[i] = jb[j] => i = j
        <4> SUFFICES ASSUME NEW i \in 1 .. m
                     PROVE  /\ active_pids'[job[i]] = 1
                            /\ terminal_id'[job[i]] = t
                            /\ parent_pcb'[job[i]] = IF i = 1 THEN None ELSE job[i - 1]
                            /\ i < m => job[i] # p /\ TopPc(job[i])' = "child"
                            /\ i = m => job[i] = p
                            /\ \A j \in 1 .. m : job[i] = job[j] => i = j
          BY <1>7, <3>1
        <4>1. /\ active_pids[job[i]] = 1
              /\ terminal_id[job[i]] = t
              /\ parent_pcb[job[i]] = IF i = 1 THEN None ELSE job[i - 1]
              /\ TopPc(job[i]) = "child"
              /\ \A j \in 1 .. Len(job) : job[i] = job[j] => i = j
          BY <1>6, <3>2 DEF JobsOf
        <4>2. job[i] \in Pids
          BY <3>2, ElementOfSeq
        <4> QED
          BY <1>7, <1>14, <1>15, <3>2, <4>1, <4>2
      <3>4. \A q \in Pids : active_pids'[q] = 1 /\ terminal_id'[q] = t =>
               \E i \in 1 .. Len(jb) : jb[i] = q
        <4> SUFFICES ASSUME NEW q \in Pids, active_pids'[q] = 1, terminal_id'[q] = t
                     PROVE  \E i \in 1 .. Len(jb) : jb[i] = q
          OBVIOUS
        <4>1. q # c /\ active_pids[q] = 1 /\ terminal_id[q] = t
          BY <1>15
        <4>2. PICK i \in 1 .. Len(job) : job[i] = q
          BY <1>6, <4>1 DEF JobsOf
        <4>3. i \in 1 .. m
          BY <1>6, <1>7, <4>1, <4>2
        <4> QED
          BY <3>1, <4>2, <4>3
      <3>5. jb # <<>> /\ jb[Len(jb)] = p
        BY <1>7, <3>1, EmptySeq
      <3>6. JobsOf(t, jb)'
        BY <1>12, <1>15, <3>3, <3>4, <3>5 DEF JobsOf
      <3> QED
        BY <2>1, <3>1, <3>6
    <2>2. CASE u # t
      <3>1. PICK jb \in Seq(Pids) : JobsOf(u, jb)
        BY DEF IndInv, JobsOK
      <3>2. \A i \in 1 .. Len(jb) : jb[i] \in Pids /\ jb[i] \in Stacks
        BY ElementOfSeq DEF Stacks, PidOrNone
      <3>3. \A i \in 1 .. Len(jb) : jb[i] # c /\ jb[i] # p
        BY <1>5, <1>9, <2>2, <3>1 DEF JobsOf
      <3>4. ~Restarting(u)
        BY <1>1 DEF Restarting
      <3>5. \A i \in 1 .. Len(jb) :
               active_pids'[jb[i]] = active_pids[jb[i]] /\ TopPc(jb[i])' = TopPc(jb[i])
        BY <1>14, <1>15, <3>2, <3>3
      <3>6. \A q \in Pids : active_pids'[q] = 1 => active_pids[q] = 1
        BY <1>15
      <3>7. JobsOf(u, jb)'
        BY <1>3, <1>12, <1>15, <2>2, <3>1, <3>3, <3>4, <3>5, <3>6 DEF JobsOf
      <3> QED
        BY <3>7
    <2> QED
      BY <2>1, <2>2
  <1> QED
    BY <1>12, <1>16, <1>17, <1>18, <1>21, <1>22, <1>23 DEF TableOK

\* halt of a root shell preserves the invariant: its stack holds the creation of the
\* next shell, with a pid free for it.
LEMMA HaltRootKeeps == IndInv /\ HaltRoot => TableOK' /\ JobsOK' /\ ~wild'
  <1> SUFFICES ASSUME IndInv, HaltRoot PROVE TableOK' /\ JobsOK' /\ ~wild'
    OBVIOUS
  <1> USE DEF terminalVars, pcbVars
  <1>1. UserMode
    BY DEF HaltRoot
  <1>2. TypeOK /\ FramesOK /\ StacksOK /\ LoadsOK /\ TermsOK
    BY DEF IndInv, TableOK
  <1>3. PICK c \in Pids : c = cpu /\ active_pids[c] = 1 /\ current_pid = c /\ esp0 = c
    BY <1>1, RunningFacts
  <1>4. PICK t \in Terminals : t = terminal_id[c]
    BY <1>2 DEF TypeOK
  <1>5. \A q \in Pids : active_pids[q] = 1 /\ terminal_id[q] = t => q = c
    <2>1. PICK job \in Seq(Pids) :
             JobsOf(t, job) /\ Len(job) \in Nat \ {0} /\ job[Len(job)] = c
      BY <1>3, <1>4, CpuIsLastJob
    <2>2. parent_pcb[c] = None
      BY <1>3 DEF HaltRoot
    <2>3. Len(job) # 1 => job[Len(job) - 1] \in Pids /\ parent_pcb[c] = job[Len(job) - 1]
      <3> SUFFICES ASSUME Len(job) # 1
                   PROVE  job[Len(job) - 1] \in Pids /\ parent_pcb[c] = job[Len(job) - 1]
        OBVIOUS
      <3>1. Len(job) \in 1 .. Len(job) /\ Len(job) - 1 \in 1 .. Len(job)
        <4>1. \A n \in Nat \ {0} : n # 1 => n \in 1 .. n /\ n - 1 \in 1 .. n
          OBVIOUS
        <4> QED
          BY <2>1, <4>1, Zenon
      <3>2. job[Len(job) - 1] \in Pids
        BY <3>1, ElementOfSeq
      <3>3. parent_pcb[job[Len(job)]] = IF Len(job) = 1 THEN None ELSE job[Len(job) - 1]
        BY <2>1, <3>1 DEF JobsOf
      <3> QED
        BY <2>1, <3>2, <3>3
    <2>4. Len(job) = 1
      BY <2>2, <2>3 DEF Pids, None
    <2> QED
      BY <2>1, <2>4 DEF JobsOf
  <1> DEFINE f == CreateFrame("halt", t)
  <1>6. /\ f \in Frame /\ FrameKind(f)
        /\ f.pc = "find" /\ f.by = "halt" /\ f.term = t
    BY NewFrames DEF CreateFrame, FrameKind, CreatePcs
  <1>7. Enter(f)
    BY <1>3, <1>4 DEF HaltRoot
  <1> HIDE DEF f
  <1>8. c \in Stacks
    BY DEF Stacks, PidOrNone
  <1>9. cpu' = c /\ kstack' = [kstack EXCEPT ![c] = Append(kstack[c], f)]
    BY <1>2, <1>3, <1>6, <1>7, EnterFacts
  <1>10. /\ kstack' \in [Stacks -> Seq(Frame)]
         /\ Len(kstack'[c]) = 1
         /\ kstack'[c][1] = f
         /\ \A s \in Stacks : s # c => kstack'[s] = kstack[s]
    <2>1. kstack[c] = <<>> /\ Len(kstack[c]) = 0
      BY <1>1, <1>3 DEF UserMode
    <2>2. kstack' = [kstack EXCEPT ![cpu] = Append(kstack[cpu], f)]
      BY <1>3, <1>9
    <2>3. /\ kstack' \in [Stacks -> Seq(Frame)]
          /\ Len(kstack'[cpu]) = Len(kstack[cpu]) + 1
          /\ kstack'[cpu][Len(kstack[cpu]) + 1] = f
          /\ \A s \in Stacks : s # cpu => kstack'[s] = kstack[s]
      BY <1>2, <1>6, <2>2, PushFacts
    <2> QED
      BY <1>3, <2>1, <2>3
  <1>11. /\ ~UserMode' /\ Top' = f /\ TopPc(c)' = "find" /\ kstack'[c] # <<>>
         /\ \A s \in Stacks : s # c => kstack'[s] = kstack[s] /\ TopPc(s)' = TopPc(s)
    BY <1>6, <1>9, <1>10 DEF UserMode, Top, Depth, TopPc
  <1>12. /\ active_pids'[c] = -1
         /\ \A q \in Pids : q # c => active_pids'[q] = active_pids[q]
         /\ current_pid' = None /\ wild' = FALSE
         /\ UNCHANGED <<terminal_pids, terminal_id, parent_pcb, kernel_esp, terminal_active>>
    BY <1>2, <1>3 DEF HaltRoot, TypeOK, IndInv
  <1>13. \A s \in Stacks : \A d \in Positions(s)' :
            \/ s # c /\ d \in Positions(s) /\ kstack'[s][d] = kstack[s][d]
               /\ Len(kstack'[s]) = Len(kstack[s])
            \/ s = c /\ d = 1 /\ kstack'[s][d] = f /\ Len(kstack'[s]) = 1
    <2> SUFFICES ASSUME NEW s \in Stacks, NEW d \in Positions(s)'
                 PROVE  \/ s # c /\ d \in Positions(s) /\ kstack'[s][d] = kstack[s][d]
                           /\ Len(kstack'[s]) = Len(kstack[s])
                        \/ s = c /\ d = 1 /\ kstack'[s][d] = f /\ Len(kstack'[s]) = 1
      OBVIOUS
    <2>1. d \in 1 .. Len(kstack'[s])
      BY DEF Positions
    <2>2. CASE s = c
      <3>1. d \in 1 .. 1
        BY <1>10, <2>1, <2>2, Zenon
      <3>2. d = 1
        BY <3>1
      <3> QED
        BY <1>10, <2>2, <3>2, Zenon
    <2>3. CASE s # c
      BY <1>10, <2>1, <2>3 DEF Positions
    <2> QED
      BY <2>2, <2>3
  <1>14. StacksOK'
    BY <1>2, <1>3, <1>9, <1>11, <1>12 DEF StacksOK
  <1>15. CurrentOK' /\ TargetOK' /\ ReserveOK'
    <2>1. Orphan'
      BY <1>6, <1>9, <1>11 DEF Orphan, CreatePcs
    <2>2. FreePids' # {}
      BY <1>12 DEF FreePids
    <2> QED
      BY <1>6, <1>9, <1>10, <1>11, <1>12, <2>1, <2>2
         DEF CurrentOK, TargetOK, ReserveOK, At, SwitchPcs
  <1>16. FramesOK'
    <2> SUFFICES ASSUME NEW s \in Stacks, NEW d \in Positions(s)'
                 PROVE  /\ FrameKind(kstack'[s][d])
                        /\ d < Len(kstack'[s]) => Interrupted(kstack'[s][d])
      BY DEF FramesOK, FrameKind, Interrupted
    <2>1. CASE s # c /\ d \in Positions(s) /\ kstack'[s][d] = kstack[s][d]
               /\ Len(kstack'[s]) = Len(kstack[s])
      BY <1>2, <2>1 DEF FramesOK
    <2>2. CASE s = c /\ d = 1 /\ kstack'[s][d] = f /\ Len(kstack'[s]) = 1
      BY <1>6, <2>2
    <2> QED
      BY <1>13, <2>1, <2>2, Zenon
  <1>17. LoadsOK'
    <2>1. \A q \in Pids : active_pids'[q] = 0 <=> active_pids[q] = 0
      BY <1>3, <1>12
    <2>2. ~IsLoad(f)
      BY <1>6 DEF IsLoad
    <2>3. \A s \in Stacks : \A d \in Positions(s) :
             d \in Positions(s)' /\ kstack'[s][d] = kstack[s][d]
      <3>1. Positions(c) = {}
        BY <1>1, <1>3 DEF Positions, UserMode
      <3> QED
        BY <1>10, <3>1 DEF Positions
    <2> QED
      BY <1>2, <1>13, <2>1, <2>2, <2>3, LoadsKept DEF IsLoad
  <1>18. TermsOK'
    <2>1. TermsActive'
      BY <1>2, <1>12 DEF TermsOK, TermsActive
    <2>2. ChildFrames'
      <3>1. ~StartsChild(f)
        BY <1>6 DEF StartsChild
      <3> QED
        BY <1>2, <1>12, <1>13, <3>1 DEF TermsOK, ChildFrames, StartsChild
    <2>3. \A q \in Pids : active_pids'[q] = 1 =>
             active_pids[q] = 1 /\ terminal_id'[q] = terminal_id[q] /\ terminal_id[q] # t
      BY <1>5, <1>12
    <2>4. terminal_active[t]
      BY <1>2, <1>3, <1>4 DEF TermsOK, TermsActive
    <2>5. RootFrames'
      BY <1>2, <1>6, <1>12, <1>13, <2>3, <2>4 DEF TermsOK, RootFrames, StartsTerminal
    <2>6. \A s \in Stacks : \A d \in Positions(s) :
             StartsTerminal(kstack[s][d]) => kstack[s][d].term # t
      BY <1>2, <1>3, <1>4 DEF TermsOK, RootFrames
    <2>7. RootsDistinct'
      <3> SUFFICES ASSUME NEW s \in Stacks, NEW r \in Stacks,
                          NEW d \in Positions(s)', NEW e \in Positions(r)',
                          StartsTerminal(kstack'[s][d]), StartsTerminal(kstack'[r][e]),
                          kstack'[s][d].term = kstack'[r][e].term
                   PROVE  r = s /\ e = d
        BY DEF RootsDistinct, StartsTerminal
      <3>1. \/ d \in Positions(s) /\ kstack'[s][d] = kstack[s][d] /\ kstack'[s][d].term # t
            \/ s = c /\ d = 1 /\ kstack'[s][d].term = t
        BY <1>6, <1>13, <2>6
      <3>2. \/ e \in Positions(r) /\ kstack'[r][e] = kstack[r][e] /\ kstack'[r][e].term # t
            \/ r = c /\ e = 1 /\ kstack'[r][e].term = t
        BY <1>6, <1>13, <2>6
      <3> QED
        BY <1>2, <3>1, <3>2 DEF TermsOK, RootsDistinct
    <2> QED
      BY <2>1, <2>2, <2>5, <2>7 DEF TermsOK
  <1>19. JobsOK'
    <2> SUFFICES ASSUME NEW u \in Terminals PROVE \E jb \in Seq(Pids) : JobsOf(u, jb)'
      BY DEF JobsOK
    <2>1. CASE u = t
      <3>1. Restarting(t)'
        BY <1>6, <1>11, <1>12 DEF Restarting
      <3>2. \A q \in Pids : ~(active_pids'[q] = 1 /\ terminal_id'[q] = t)
        BY <1>5, <1>12
      <3>3. <<>> \in Seq(Pids) /\ Len(<<>>) = 0
        BY EmptySeq
      <3>4. JobsOf(t, <<>>)'
        BY <3>1, <3>2, <3>3 DEF JobsOf
      <3> QED
        BY <2>1, <3>3, <3>4
    <2>2. CASE u # t
      <3>1. PICK jb \in Seq(Pids) : JobsOf(u, jb)
        BY DEF IndInv, JobsOK
      <3>2. \A i \in 1 .. Len(jb) : jb[i] \in Pids /\ jb[i] \in Stacks
        BY ElementOfSeq DEF Stacks, PidOrNone
      <3>3. \A i \in 1 .. Len(jb) : jb[i] # c
        BY <1>4, <2>2, <3>1 DEF JobsOf
      <3>4. ~Restarting(u)
        BY <1>1 DEF Restarting
      <3>5. \A i \in 1 .. Len(jb) :
               active_pids'[jb[i]] = active_pids[jb[i]] /\ TopPc(jb[i])' = TopPc(jb[i])
        BY <1>11, <1>12, <3>2, <3>3
      <3>6. \A q \in Pids : active_pids'[q] = 1 => active_pids[q] = 1
        BY <1>12
      <3>7. JobsOf(u, jb)'
        BY <1>3, <1>9, <1>12, <2>2, <3>1, <3>3, <3>4, <3>5, <3>6 DEF JobsOf
      <3> QED
        BY <3>7
    <2> QED
      BY <2>1, <2>2
  <1> QED
    BY <1>12, <1>13, <1>14, <1>15, <1>16, <1>17, <1>18, <1>19 DEF TableOK

-----------------------------------------------------------------------------
(* process_create and process_start.                                       *)

\* What the stacks and the table look like once process_start has given the
\* CPU to p: the creator's frame is suspended, or gone with its stack when
\* there was no current process.
LEMMA StartFacts ==
    ASSUME NarrowWindows, IndInv, LoadAndStart
    PROVE  \E c \in Stacks, p \in Pids, t \in Terminals, n \in Nat \ {0} :
              /\ c = cpu /\ n = Len(kstack[c])
              /\ Top = kstack[c][n] /\ IsLoad(Top) /\ Top.pid = p /\ Top.term = t
              /\ Top.by \in {"execute", "keyboard", "halt", "boot"}
              /\ active_pids[p] = 0
              /\ IF Top.by \in {"halt", "boot"}
                 THEN /\ current_pid = None /\ n = 1
                      /\ c \in Pids => active_pids[c] # 1
                 ELSE c \in Pids /\ active_pids[c] = 1 /\ current_pid = c
              /\ StartProcess(p) /\ "start" \notin Windows
              /\ page' = p
              /\ terminal_id' = [terminal_id EXCEPT ![p] = t]
              /\ parent_pcb' = [parent_pcb EXCEPT
                     ![p] = IF Top.by = "execute" THEN current_pid ELSE None]
              /\ UNCHANGED terminal_active
  <1>1. ~UserMode /\ Top.pc = "load"
    BY DEF LoadAndStart, At
  <1>2. /\ Top.by \in {"execute", "keyboard", "halt", "boot"}
        /\ Top = kstack[cpu][Len(kstack[cpu])]
        /\ Len(kstack[cpu]) \in Nat \ {0}
        /\ cpu \in Stacks
    BY <1>1, TopKind DEF CreatePcs
  <1>3. Top.term \in Terminals
    BY <1>1, TopIsFrame, MovedFrame DEF IndInv
  <1>4. Top.pid \in Pids /\ active_pids[Top.pid] = 0
    BY <1>1, <1>2 DEF IndInv, TableOK, LoadsOK, LoadPids, IsLoad, Positions
  <1>5. IF Top.by \in {"halt", "boot"}
        THEN /\ current_pid = None /\ Len(kstack[cpu]) = 1
             /\ cpu \in Pids => active_pids[cpu] # 1
        ELSE cpu \in Pids /\ active_pids[cpu] = 1 /\ current_pid = cpu
    <2>1. CASE Top.by \in {"halt", "boot"}
      <3>1. Orphan
        BY <1>1, <1>2, <2>1 DEF Orphan, UserMode, TopPc, CreatePcs
      <3> QED
        BY <2>1, <3>1 DEF IndInv, TableOK, CurrentOK
    <2>2. CASE Top.by \notin {"halt", "boot"}
      BY <1>1, <2>2, RunningFacts
    <2> QED
      BY <2>1, <2>2
  <1>6. /\ StartProcess(Top.pid)
        /\ page' = Top.pid
        /\ terminal_id' = [terminal_id EXCEPT ![Top.pid] = Top.term]
        /\ parent_pcb' = [parent_pcb EXCEPT
               ![Top.pid] = IF Top.by = "execute" THEN current_pid ELSE None]
        /\ UNCHANGED terminal_active
    BY <1>4 DEF LoadAndStart, terminalVars
  <1>7. "start" \notin Windows
    BY DEF NarrowWindows
  <1> QED
    BY <1>1, <1>2, <1>3, <1>4, <1>5, <1>6, <1>7 DEF IsLoad

\* The end of process_create and process_start preserve the invariant: the new process
\* becomes the last job of its terminal and executes.
LEMMA LoadAndStartKeeps ==
    NarrowWindows /\ IndInv /\ LoadAndStart => TableOK' /\ JobsOK' /\ ~wild'
  <1> SUFFICES ASSUME NarrowWindows, IndInv, LoadAndStart PROVE TableOK' /\ JobsOK' /\ ~wild'
    OBVIOUS
  <1>1. TypeOK /\ FramesOK /\ StacksOK /\ LoadsOK /\ TermsOK
    BY DEF IndInv, TableOK
  <1>2. PICK c \in Stacks, p \in Pids, t \in Terminals, n \in Nat \ {0},
              by \in {"execute", "keyboard", "halt", "boot"} :
           /\ c = cpu /\ n = Len(kstack[c])
           /\ Top = kstack[c][n] /\ IsLoad(Top) /\ Top.pid = p /\ Top.term = t
           /\ Top.by = by
           /\ by \in {"execute", "keyboard", "halt", "boot"}
           /\ active_pids[p] = 0
           /\ IF by \in {"halt", "boot"}
              THEN /\ current_pid = None /\ n = 1
                   /\ c \in Pids => active_pids[c] # 1
              ELSE c \in Pids /\ active_pids[c] = 1 /\ current_pid = c
           /\ StartProcess(p) /\ "start" \notin Windows
           /\ page' = p
           /\ terminal_id' = [terminal_id EXCEPT ![p] = t]
           /\ parent_pcb' = [parent_pcb EXCEPT
                  ![p] = IF by = "execute" THEN current_pid ELSE None]
           /\ UNCHANGED terminal_active
    BY StartFacts
  <1>3. p \in Stacks /\ (by \notin {"halt", "boot"} => c # p)
    BY <1>2 DEF Stacks, PidOrNone
  <1>4. /\ active_pids'[p] = 1
        /\ \A q \in Pids : q # p => active_pids'[q] = active_pids[q]
        /\ terminal_id'[p] = t
        /\ \A q \in Pids : q # p => terminal_id'[q] = terminal_id[q]
        /\ parent_pcb'[p] = IF by = "execute" THEN c ELSE None
        /\ \A q \in Pids : q # p => parent_pcb'[q] = parent_pcb[q]
        /\ terminal_pids'[t] = p
        /\ \A u \in Terminals : u # t => terminal_pids'[u] = terminal_pids[u]
        /\ <<current_pid, page, esp0, file_descriptors>>' = <<p, p, p, p>>
        /\ cpu' = p /\ wild' = FALSE
    BY <1>1, <1>2 DEF StartProcess, TypeOK
  <1>5. /\ by \notin {"halt", "boot"} => kernel_esp'[c] = <<c, n>>
        /\ \A q \in Pids : q \notin {c, p} => kernel_esp'[q] = kernel_esp[q]
    <2>1. kernel_esp' = [q \in Pids |-> IF q = current_pid THEN <<cpu, Depth>>
                                        ELSE IF q = p THEN <<p, 0>>
                                        ELSE kernel_esp[q]]
      BY <1>2 DEF StartProcess
    <2>2. Depth = n
      BY <1>2 DEF Depth
    <2>3. current_pid \in Pids => current_pid = c
      BY <1>2 DEF Pids, None
    <2> QED
      BY <1>2, <2>1, <2>2, <2>3
  <1> DEFINE g == [Top EXCEPT !.pc = IF by = "execute" THEN "child" ELSE "off"]
  <1>6. g.pc = (IF by = "execute" THEN "child" ELSE "off") /\ g.by = by
    BY <1>1, <1>2, TopIsFrame DEF Frame, LoadAndStart, At
  <1> HIDE DEF g
  <1>7. /\ kstack'[p] = <<>>
        /\ \A s \in Stacks : s \notin {c, p} => kstack'[s] = kstack[s]
        /\ IF by \in {"halt", "boot"} THEN kstack'[c] = <<>>
           ELSE /\ Len(kstack'[c]) = n
                /\ kstack'[c][n] = g
                /\ \A d \in 1 .. n : d # n => kstack'[c][d] = kstack[c][d]
        /\ kstack' \in [Stacks -> Seq(Frame)]
    <2> DEFINE s2 == [kstack[c] EXCEPT ![n] = g]
    <2>1. kstack[c] \in Seq(Frame) /\ kstack \in [Stacks -> Seq(Frame)]
      BY <1>1, <1>2 DEF TypeOK
    <2>2. g \in Frame
      BY <1>1, <1>2, TopIsFrame, MovedFrame DEF g, LoadAndStart, At
    <2>3. /\ s2 \in Seq(Frame)
          /\ Len(s2) = n
          /\ \A j \in 1 .. n : s2[j] = IF j = n THEN g ELSE kstack[c][j]
      <3>1. n \in 1 .. Len(kstack[c]) /\ n = Len(kstack[c])
        BY <1>2
      <3> QED
        BY <2>1, <2>2, <3>1, ExceptSeq
    <2>4. kstack' = [[kstack EXCEPT ![c] = IF by \in {"halt", "boot"} THEN <<>> ELSE s2]
                        EXCEPT ![p] = <<>>]
      <3>1. current_pid # None <=> by \notin {"halt", "boot"}
        BY <1>2 DEF Pids, None
      <3>2. Depth = n
        BY <1>2 DEF Depth
      <3> QED
        BY <1>2, <3>1, <3>2 DEF StartProcess, g
    <2> HIDE DEF s2
    <2>5. n \in 1 .. n
      BY <1>2
    <2>6. <<>> \in Seq(Frame)
      OBVIOUS
    <2> QED
      BY <1>2, <1>3, <2>1, <2>3, <2>4, <2>5, <2>6
  <1>8. p # c => kstack[p] = <<>>
    BY <1>1, <1>2, <1>3 DEF StacksOK
  \* The frames that are left, and the ones that were there.
  <1>9. \A s \in Stacks : \A d \in Positions(s)' :
           /\ d \in Positions(s)
           /\ Len(kstack'[s]) = Len(kstack[s])
           /\ \/ (s # c \/ d # n) /\ kstack'[s][d] = kstack[s][d]
              \/ s = c /\ d = n /\ kstack'[s][d] = g /\ by \notin {"halt", "boot"}
    <2> SUFFICES ASSUME NEW s \in Stacks, NEW d \in 1 .. Len(kstack'[s])
                 PROVE  /\ d \in 1 .. Len(kstack[s])
                        /\ Len(kstack'[s]) = Len(kstack[s])
                        /\ \/ (s # c \/ d # n) /\ kstack'[s][d] = kstack[s][d]
                           \/ s = c /\ d = n /\ kstack'[s][d] = g
                              /\ by \notin {"halt", "boot"}
      BY DEF Positions
    <2>1. kstack'[s] # <<>>
      BY EmptySeq
    <2>2. CASE s \notin {c, p}
      BY <1>7, <2>2
    <2>3. CASE s = c
      BY <1>2, <1>7, <2>1, <2>3
    <2> QED
      BY <1>7, <2>1, <2>2, <2>3
  <1>10. \A s \in Stacks : \A d \in Positions(s) :
            \/ s = c /\ d = n
            \/ d \in Positions(s)' /\ kstack'[s][d] = kstack[s][d]
    <2> SUFFICES ASSUME NEW s \in Stacks, NEW d \in 1 .. Len(kstack[s]), s # c \/ d # n
                 PROVE  d \in 1 .. Len(kstack'[s]) /\ kstack'[s][d] = kstack[s][d]
      BY DEF Positions
    <2>1. kstack[s] # <<>>
      BY EmptySeq
    <2>2. CASE s # c
      BY <1>7, <1>8, <2>1, <2>2
    <2>3. CASE s = c
      <3>1. d \in 1 .. n /\ d # n
        BY <1>2, <2>3
      <3>2. by \notin {"halt", "boot"}
        BY <1>2, <3>1
      <3> QED
        BY <1>7, <2>3, <3>1, <3>2
    <2> QED
      BY <2>2, <2>3
  <1>11. UserMode'
    BY <1>4, <1>7 DEF UserMode
  <1>12. n \in Positions(c) /\ IsLoad(kstack[c][n]) /\ kstack[c][n].pid = p
         /\ kstack[c][n].term = t /\ kstack[c][n].by = by
    BY <1>2 DEF Positions
  <1>13. FramesOK'
    <2> SUFFICES ASSUME NEW s \in Stacks, NEW d \in Positions(s)'
                 PROVE  /\ FrameKind(kstack'[s][d])
                        /\ d < Len(kstack'[s]) => Interrupted(kstack'[s][d])
      BY DEF FramesOK, FrameKind, Interrupted
    <2>1. /\ d \in Positions(s)
          /\ Len(kstack'[s]) = Len(kstack[s])
          /\ \/ (s # c \/ d # n) /\ kstack'[s][d] = kstack[s][d]
             \/ s = c /\ d = n /\ kstack'[s][d] = g /\ by \notin {"halt", "boot"}
      BY <1>9
    <2>2. CASE kstack'[s][d] = kstack[s][d]
      BY <1>1, <2>1, <2>2 DEF FramesOK
    <2>3. CASE s = c /\ d = n /\ kstack'[s][d] = g /\ by \notin {"halt", "boot"}
      BY <1>2, <1>6, <2>1, <2>3 DEF FrameKind
    <2> QED
      BY <2>1, <2>2, <2>3
  <1>14. StacksOK'
    <2>1. \A s \in Stacks : s \notin {c, p} =>
             /\ kstack'[s] = kstack[s] /\ TopPc(s)' = TopPc(s)
             /\ s \in Pids => active_pids'[s] = active_pids[s]
                              /\ kernel_esp'[s] = kernel_esp[s]
      BY <1>4, <1>5, <1>7 DEF TopPc
    <2>2. by \notin {"halt", "boot"} =>
             /\ kstack'[c] # <<>>
             /\ TopPc(c)' \in {"child", "off"}
             /\ kernel_esp'[c] = <<c, Len(kstack'[c])>>
             /\ c \in Pids /\ active_pids'[c] = 1
      <3> SUFFICES ASSUME by \notin {"halt", "boot"}
                   PROVE  /\ kstack'[c] # <<>>
                          /\ TopPc(c)' \in {"child", "off"}
                          /\ kernel_esp'[c] = <<c, Len(kstack'[c])>>
                          /\ c \in Pids /\ active_pids'[c] = 1
        OBVIOUS
      <3>1. Len(kstack'[c]) = n /\ kstack'[c][n] = g
        BY <1>7
      <3>2. kstack'[c] # <<>>
        BY <1>2, <3>1, EmptySeq
      <3> QED
        BY <1>2, <1>3, <1>4, <1>5, <1>6, <3>1, <3>2 DEF TopPc
    <2>3. by \in {"halt", "boot"} /\ c # p =>
             kstack'[c] = <<>> /\ ~(c \in Pids /\ active_pids'[c] = 1)
      BY <1>2, <1>4, <1>7
    <2>4. \A s \in Stacks : s # p =>
             IF s \in Pids /\ active_pids'[s] = 1
             THEN /\ kstack'[s] # <<>>
                  /\ kernel_esp'[s] = <<s, Len(kstack'[s])>>
                  /\ TopPc(s)' \in {"child", "off"}
             ELSE kstack'[s] = <<>>
      <3> SUFFICES ASSUME NEW s \in Stacks, s # p
                   PROVE  IF s \in Pids /\ active_pids'[s] = 1
                          THEN /\ kstack'[s] # <<>>
                               /\ kernel_esp'[s] = <<s, Len(kstack'[s])>>
                               /\ TopPc(s)' \in {"child", "off"}
                          ELSE kstack'[s] = <<>>
        OBVIOUS
      <3>1. CASE s = c
        BY <2>2, <2>3, <3>1
      <3>2. CASE s # c
        BY <1>1, <1>2, <2>1, <3>2 DEF StacksOK
      <3> QED
        BY <3>1, <3>2
    <2> QED
      BY <1>4, <1>7, <2>4 DEF StacksOK, TopPc
  <1>15. CurrentOK' /\ TargetOK' /\ ReserveOK'
    <2>1. ~Orphan' /\ ~At({"set", "jump"})' /\ ~At({"jump"})' /\ ~At(SwitchPcs)'
          /\ ~At({"reserve"})'
      BY <1>11 DEF Orphan, At, UserMode
    <2> QED
      BY <1>4, <2>1 DEF CurrentOK, TargetOK, ReserveOK
  <1>16. LoadsOK'
    <2>1. \A s \in Stacks : \A d \in Positions(s)' : IsLoad(kstack'[s][d]) =>
             d \in Positions(s) /\ kstack'[s][d] = kstack[s][d] /\ (s # c \/ d # n)
      BY <1>6, <1>9 DEF IsLoad
    <2>2. \A s \in Stacks : \A d \in Positions(s) :
             IsLoad(kstack[s][d]) /\ (s # c \/ d # n) => kstack[s][d].pid # p
      BY <1>1, <1>12 DEF LoadsOK, LoadsDistinct
    <2>3. LoadPids'
      BY <1>1, <1>4, <2>1, <2>2 DEF LoadsOK, LoadPids, IsLoad
    <2>4. LoadsDistinct'
      BY <1>1, <2>1 DEF LoadsOK, LoadsDistinct, IsLoad
    <2>5. ReservedLoads'
      <3> SUFFICES ASSUME NEW q \in Pids, active_pids'[q] = 0
                   PROVE  \E s \in Stacks : \E d \in Positions(s)' :
                             IsLoad(kstack'[s][d]) /\ kstack'[s][d].pid = q
        BY DEF ReservedLoads, IsLoad
      <3>1. q # p /\ active_pids[q] = 0
        BY <1>4
      <3>2. PICK s \in Stacks : \E d \in Positions(s) :
               IsLoad(kstack[s][d]) /\ kstack[s][d].pid = q
        BY <1>1, <3>1 DEF LoadsOK, ReservedLoads
      <3>3. PICK d \in Positions(s) : IsLoad(kstack[s][d]) /\ kstack[s][d].pid = q
        BY <3>2
      <3>4. d \in Positions(s)' /\ kstack'[s][d] = kstack[s][d]
        BY <1>10, <1>12, <3>1, <3>3
      <3> QED
        BY <3>3, <3>4
    <2> QED
      BY <2>3, <2>4, <2>5 DEF LoadsOK
  <1>17. IF by = "execute"
         THEN c \in Pids /\ active_pids[c] = 1 /\ terminal_id[c] = t
         ELSE \A q \in Pids : active_pids[q] = 1 => terminal_id[q] # t
    <2>1. CASE by = "execute"
      <3>1. StartsChild(kstack[c][n])
        BY <1>12, <2>1 DEF StartsChild, IsLoad, CreatePcs
      <3> QED
        BY <1>1, <1>12, <2>1, <3>1 DEF TermsOK, ChildFrames
    <2>2. CASE by # "execute"
      <3>1. StartsTerminal(kstack[c][n])
        BY <1>12, <2>2 DEF StartsTerminal, IsLoad, CreatePcs
      <3> QED
        BY <1>1, <1>12, <2>2, <3>1 DEF TermsOK, RootFrames
    <2> QED
      BY <2>1, <2>2
  <1>18. terminal_active[t]
    <2>1. CASE by = "execute"
      BY <1>1, <1>17, <2>1 DEF TermsOK, TermsActive
    <2>2. CASE by # "execute"
      <3>1. StartsTerminal(kstack[c][n])
        BY <1>12, <2>2 DEF StartsTerminal, IsLoad, CreatePcs
      <3> QED
        BY <1>1, <1>12, <3>1 DEF TermsOK, RootFrames
    <2> QED
      BY <2>1, <2>2
  <1>19. TermsOK'
    <2>1. \A s \in Stacks : \A d \in Positions(s)' : kstack'[s][d].pc \in CreatePcs =>
             d \in Positions(s) /\ kstack'[s][d] = kstack[s][d] /\ (s # c \/ d # n)
      BY <1>6, <1>9 DEF CreatePcs
    <2>2. TermsActive'
      BY <1>1, <1>2, <1>4, <1>18 DEF TermsOK, TermsActive
    <2>3. ChildFrames'
      BY <1>1, <1>2, <1>4, <2>1 DEF TermsOK, ChildFrames, StartsChild
    <2>4. \A s \in Stacks : \A d \in Positions(s) :
             StartsTerminal(kstack[s][d]) /\ (s # c \/ d # n) => kstack[s][d].term # t
      <3>1. CASE by = "execute"
        BY <1>1, <1>17, <3>1 DEF TermsOK, RootFrames
      <3>2. CASE by # "execute"
        <4>1. StartsTerminal(kstack[c][n])
          BY <1>12, <3>2 DEF StartsTerminal, IsLoad, CreatePcs
        <4> QED
          BY <1>1, <1>12, <4>1 DEF TermsOK, RootsDistinct
      <3> QED
        BY <3>1, <3>2
    <2>5. RootFrames'
      <3> SUFFICES ASSUME NEW s \in Stacks, NEW d \in Positions(s)',
                          StartsTerminal(kstack'[s][d])
                   PROVE  /\ terminal_active'[kstack'[s][d].term]
                          /\ \A q \in Pids : active_pids'[q] = 1 =>
                                terminal_id'[q] # kstack'[s][d].term
        BY DEF RootFrames, StartsTerminal
      <3>1. d \in Positions(s) /\ kstack'[s][d] = kstack[s][d] /\ (s # c \/ d # n)
        BY <2>1 DEF StartsTerminal
      <3>2. /\ terminal_active[kstack[s][d].term]
            /\ \A q \in Pids : active_pids[q] = 1 => terminal_id[q] # kstack[s][d].term
            /\ kstack[s][d].term # t
        BY <1>1, <2>4, <3>1 DEF TermsOK, RootFrames
      <3> QED
        BY <1>2, <1>4, <3>1, <3>2
    <2>6. RootsDistinct'
      BY <1>1, <2>1, RootsKept DEF TermsOK, StartsTerminal
    <2> QED
      BY <2>2, <2>3, <2>5, <2>6 DEF TermsOK
  <1>20. JobsOK'
    <2> SUFFICES ASSUME NEW u \in Terminals PROVE \E jb \in Seq(Pids) : JobsOf(u, jb)'
      BY DEF JobsOK
    <2>1. \A s \in Stacks : s \notin {c, p} => TopPc(s)' = TopPc(s)
      BY <1>7 DEF TopPc
    <2>2. by \notin {"halt", "boot"} =>
             TopPc(c)' = IF by = "execute" THEN "child" ELSE "off"
      BY <1>6, <1>7 DEF TopPc
    <2>3. CASE u = t /\ by = "execute"
      <3>1. PICK job \in Seq(Pids) :
               JobsOf(t, job) /\ Len(job) \in Nat \ {0} /\ job[Len(job)] = c
        BY <1>2, <1>17, <2>3, CpuIsLastJob
      <3> DEFINE jb == Append(job, p)
      <3>2. PICK m \in Nat \ {0} : m = Len(job)
        BY <3>1
      <3>3. /\ jb \in Seq(Pids)
            /\ Len(jb) = m + 1
            /\ jb[m + 1] = p
            /\ \A i \in 1 .. m : jb[i] = job[i]
        BY <3>2, AppendProperties
      <3> HIDE DEF jb
      <3>4. \A i \in 1 .. m : job[i] \in Pids /\ job[i] \in Stacks
        BY <3>2, ElementOfSeq DEF Stacks, PidOrNone
      <3>5. \A i \in 1 .. m :
               /\ active_pids[job[i]] = 1
               /\ terminal_id[job[i]] = t
               /\ parent_pcb[job[i]] = IF i = 1 THEN None ELSE job[i - 1]
               /\ i # m => job[i] # c /\ TopPc(job[i]) = "child"
               /\ \A j \in 1 .. m : job[i] = job[j] => i = j
        <4> SUFFICES ASSUME NEW i \in 1 .. m
                     PROVE  /\ active_pids[job[i]] = 1
                            /\ terminal_id[job[i]] = t
                            /\ parent_pcb[job[i]] = IF i = 1 THEN None ELSE job[i - 1]
                            /\ i # m => job[i] # c /\ TopPc(job[i]) = "child"
                            /\ \A j \in 1 .. m : job[i] = job[j] => i = j
          OBVIOUS
        <4>1. i \in 1 .. Len(job) /\ (i # m => i < Len(job))
          BY <3>2
        <4> QED
          BY <1>2, <3>1, <3>2, <4>1 DEF JobsOf
      <3>6. \A i \in 1 .. m :
               /\ job[i] # p
               /\ active_pids'[job[i]] = 1
               /\ terminal_id'[job[i]] = t
               /\ parent_pcb'[job[i]] = IF i = 1 THEN None ELSE job[i - 1]
               /\ TopPc(job[i])' = "child"
        <4> SUFFICES ASSUME NEW i \in 1 .. m
                     PROVE  /\ job[i] # p
                            /\ active_pids'[job[i]] = 1
                            /\ terminal_id'[job[i]] = t
                            /\ parent_pcb'[job[i]] = IF i = 1 THEN None ELSE job[i - 1]
                            /\ TopPc(job[i])' = "child"
          OBVIOUS
        <4>1. job[i] # p /\ job[i] \in Pids /\ job[i] \in Stacks
          BY <1>2, <3>4, <3>5
        <4>2. TopPc(job[i])' = "child"
          <5>1. CASE i = m
            BY <2>2, <2>3, <3>1, <3>2, <5>1
          <5>2. CASE i # m
            BY <2>1, <3>5, <4>1, <5>2
          <5> QED
            BY <5>1, <5>2
        <4> QED
          BY <1>4, <3>5, <4>1, <4>2
      <3>7. \A i \in 1 .. m + 1 :
               /\ active_pids'[jb[i]] = 1
               /\ terminal_id'[jb[i]] = t
               /\ parent_pcb'[jb[i]] = IF i = 1 THEN None ELSE jb[i - 1]
               /\ i < m + 1 => jb[i] # p /\ TopPc(jb[i])' = "child"
               /\ i = m + 1 => jb[i] = p
               /\ \A j \in 1 .. m + 1 : jb[i] = jb[j] => i = j
        <4> SUFFICES ASSUME NEW i \in 1 .. m + 1
                     PROVE  /\ active_pids'[jb[i]] = 1
                            /\ terminal_id'[jb[i]] = t
                            /\ parent_pcb'[jb[i]] = IF i = 1 THEN None ELSE jb[i - 1]
                            /\ i < m + 1 => jb[i] # p /\ TopPc(jb[i])' = "child"
                            /\ i = m + 1 => jb[i] = p
                            /\ \A j \in 1 .. m + 1 : jb[i] = jb[j] => i = j
          OBVIOUS
        <4>1. CASE i = m + 1
          <5>1. jb[i] = p /\ i # 1 /\ i - 1 = m /\ jb[i - 1] = c
            BY <3>1, <3>2, <3>3, <4>1
          <5>2. \A j \in 1 .. m + 1 : j # m + 1 => jb[j] # p
            BY <3>3, <3>6
          <5> QED
            BY <1>4, <2>3, <4>1, <5>1, <5>2
        <4>2. CASE i \in 1 .. m
          <5>1. jb[i] = job[i] /\ (i # 1 => jb[i - 1] = job[i - 1])
            BY <3>3, <4>2
          <5>2. \A j \in 1 .. m + 1 : jb[i] = jb[j] => i = j
            <6> SUFFICES ASSUME NEW j \in 1 .. m + 1, jb[i] = jb[j] PROVE i = j
              OBVIOUS
            <6>1. j # m + 1
              BY <3>3, <3>6, <4>2
            <6>2. j \in 1 .. m
              BY <6>1
            <6> QED
              BY <3>3, <3>5, <4>2, <6>2
          <5> QED
            BY <3>6, <4>2, <5>1, <5>2
        <4> QED
          BY <4>1, <4>2
      <3>8. \A q \in Pids : active_pids'[q] = 1 /\ terminal_id'[q] = t =>
               \E i \in 1 .. m + 1 : jb[i] = q
        <4> SUFFICES ASSUME NEW q \in Pids, active_pids'[q] = 1, terminal_id'[q] = t
                     PROVE  \E i \in 1 .. m + 1 : jb[i] = q
          OBVIOUS
        <4>1. CASE q = p
          <5>1. m + 1 \in 1 .. m + 1
            OBVIOUS
          <5> QED
            BY <3>3, <4>1, <5>1
        <4>2. CASE q # p
          <5>1. PICK i \in 1 .. Len(job) : job[i] = q
            BY <1>4, <3>1, <4>2 DEF JobsOf
          <5>2. i \in 1 .. m + 1 /\ i \in 1 .. m
            BY <3>2
          <5> QED
            BY <3>3, <5>1, <5>2
        <4> QED
          BY <4>1, <4>2
      <3>9. jb # <<>> /\ jb[Len(jb)] = p
        BY <3>3, EmptySeq
      <3>10. JobsOf(t, jb)'
        BY <1>4, <3>3, <3>7, <3>8, <3>9 DEF JobsOf
      <3> QED
        BY <2>3, <3>3, <3>10
    <2>4. CASE u = t /\ by # "execute"
      <3> DEFINE jb == <<p>>
      <3>1. jb \in Seq(Pids) /\ Len(jb) = 1 /\ jb[1] = p /\ jb # <<>>
        OBVIOUS
      <3> HIDE DEF jb
      <3>2. \A i \in 1 .. 1 : i = 1
        OBVIOUS
      <3>3. \A q \in Pids : active_pids'[q] = 1 /\ terminal_id'[q] = t => q = p
        BY <1>4, <1>17, <2>4
      <3>4. JobsOf(t, jb)'
        BY <1>4, <2>4, <3>1, <3>2, <3>3 DEF JobsOf
      <3> QED
        BY <2>4, <3>1, <3>4
    <2>5. CASE u # t
      <3>1. PICK jb \in Seq(Pids) : JobsOf(u, jb)
        BY DEF IndInv, JobsOK
      <3>2. \A i \in 1 .. Len(jb) : jb[i] \in Pids /\ jb[i] \in Stacks /\ jb[i] # p
        BY <1>2, <3>1, ElementOfSeq DEF JobsOf, Stacks, PidOrNone
      <3>3. ~Restarting(u)
        BY <1>2, <2>5 DEF Restarting
      <3>4. \A i \in 1 .. Len(jb) :
               /\ active_pids'[jb[i]] = active_pids[jb[i]]
               /\ terminal_id'[jb[i]] = terminal_id[jb[i]]
               /\ parent_pcb'[jb[i]] = parent_pcb[jb[i]]
               /\ jb[i] # c => TopPc(jb[i])' = TopPc(jb[i])
               /\ jb[i] = c => TopPc(jb[i])' = "off"
        <4> SUFFICES ASSUME NEW i \in 1 .. Len(jb)
                     PROVE  /\ active_pids'[jb[i]] = active_pids[jb[i]]
                            /\ terminal_id'[jb[i]] = terminal_id[jb[i]]
                            /\ parent_pcb'[jb[i]] = parent_pcb[jb[i]]
                            /\ jb[i] # c => TopPc(jb[i])' = TopPc(jb[i])
                            /\ jb[i] = c => TopPc(jb[i])' = "off"
          OBVIOUS
        <4>1. active_pids[jb[i]] = 1 /\ terminal_id[jb[i]] = u
          BY <3>1 DEF JobsOf
        <4>2. jb[i] = c => by \notin {"halt", "boot", "execute"}
          BY <1>2, <1>17, <2>5, <3>2, <4>1
        <4> QED
          BY <1>4, <2>1, <2>2, <3>2, <4>2
      <3>5. \A q \in Pids : active_pids'[q] = 1 /\ terminal_id'[q] = u =>
               active_pids[q] = 1 /\ terminal_id[q] = u
        BY <1>4, <2>5
      <3>6. JobsOf(u, jb)'
        BY <1>2, <1>4, <2>5, <3>1, <3>2, <3>3, <3>4, <3>5 DEF JobsOf
      <3> QED
        BY <3>6
    <2> QED
      BY <2>3, <2>4, <2>5
  <1> QED
    BY <1>4, <1>13, <1>14, <1>15, <1>16, <1>19, <1>20 DEF TableOK

-----------------------------------------------------------------------------
(* The inductive invariant.                                                *)

\* The invariant holds when entry() is about to create the first shell.
LEMMA IndInvInit == Init => IndInv
  <1> SUFFICES ASSUME Init PROVE IndInv
    OBVIOUS
  <1> DEFINE b == CreateFrame("boot", 0)
  <1>1. TypeOK /\ ~wild
    BY TypeInit DEF Init
  <1>2. /\ cpu = None /\ None \in Stacks /\ None \notin Pids
        /\ 0 \in Terminals /\ 0 \in Pids
        /\ \A p \in Pids : active_pids[p] = -1
    BY ConstantsAssumption DEF Init, Stacks, PidOrNone, Pids, None, Terminals
  <1>3. /\ b.pc = "find" /\ b.by = "boot" /\ b.term = 0
        /\ FrameKind(b) /\ ~IsLoad(b) /\ ~StartsChild(b)
    BY DEF CreateFrame, FrameKind, IsLoad, StartsChild, CreatePcs
  <1>4. /\ kstack[None] = <<b>>
        /\ \A s \in Stacks : s # None => kstack[s] = <<>>
    BY <1>2 DEF Init
  <1> HIDE DEF b
  <1>5. /\ Len(kstack[None]) = 1 /\ kstack[None][1] = b /\ kstack[None] # <<>>
        /\ Top = b /\ TopPc(None) = "find"
    BY <1>2, <1>3, <1>4 DEF Top, Depth, TopPc
  <1>6. \A s \in Stacks : \A d \in Positions(s) :
           s = None /\ d = 1 /\ kstack[s][d] = b /\ Len(kstack[s]) = 1
    <2> SUFFICES ASSUME NEW s \in Stacks, NEW d \in 1 .. Len(kstack[s])
                 PROVE  s = None /\ d = 1 /\ kstack[s][d] = b /\ Len(kstack[s]) = 1
      BY DEF Positions
    <2>1. s = None
      BY <1>4, EmptySeq
    <2>2. d \in 1 .. 1
      BY <1>5, <2>1, Zenon
    <2>3. d = 1
      BY <2>2
    <2> QED
      BY <1>5, <2>1, <2>3, Zenon
  <1>7. FramesOK
    <2>1. ~(1 < 1)
      OBVIOUS
    <2> QED
      BY <1>3, <1>6, <2>1, Zenon DEF FramesOK
  <1>8. StacksOK
    BY <1>2, <1>4, <1>5 DEF StacksOK
  <1>9. CurrentOK /\ TargetOK /\ ReserveOK
    <2>1. Orphan
      BY <1>2, <1>3, <1>5 DEF Orphan, CreatePcs
    <2>2. current_pid = None /\ FreePids # {}
      BY <1>2 DEF Init, FreePids
    <2> QED
      BY <1>2, <1>3, <1>5, <2>1, <2>2 DEF CurrentOK, TargetOK, ReserveOK, At, SwitchPcs
  <1>10. LoadsOK
    BY <1>2, <1>3, <1>6 DEF LoadsOK, LoadPids, LoadsDistinct, ReservedLoads
  <1>11. TermsOK
    <2>1. terminal_active[0]
      BY <1>2 DEF Init
    <2> QED
      BY <1>2, <1>3, <1>6, <2>1 DEF TermsOK, TermsActive, ChildFrames, RootFrames, RootsDistinct
  <1>12. JobsOK
    <2> SUFFICES ASSUME NEW t \in Terminals PROVE JobsOf(t, <<>>)
      <3>1. <<>> \in Seq(Pids)
        OBVIOUS
      <3> QED
        BY <3>1, Zenon DEF JobsOK
    <2>1. terminal_pids[t] = None
      BY DEF Init
    <2> QED
      BY <1>2, <2>1 DEF JobsOf
  <1> QED
    BY <1>1, <1>7, <1>8, <1>9, <1>10, <1>11, <1>12 DEF IndInv, TableOK

\* Under NarrowWindows every step preserves the invariant.
LEMMA IndInvStep ==
    ASSUME NarrowWindows
    PROVE  IndInv /\ [Next]_vars => IndInv'
  <1> SUFFICES ASSUME IndInv, [Next]_vars PROVE TableOK' /\ JobsOK' /\ ~wild'
    BY TypeStep DEF IndInv
  <1>1. CASE UNCHANGED vars
    <2>1. UNCHANGED <<active_pids, terminal_pids, current_pid, terminal_active,
                      parent_pcb, terminal_id, kernel_esp, page, esp0,
                      file_descriptors, cpu, kstack, wild>>
      BY <1>1 DEF vars, contextVars, terminalVars, pcbVars
    <2>2. Top' = Top /\ UserMode' = UserMode
      BY <2>1 DEF Top, Depth, UserMode
    <2>3. TableOK'
      <3>1. FramesOK' /\ StacksOK'
        BY <2>1 DEF IndInv, TableOK, FramesOK, StacksOK, Positions, TopPc
      <3>2. CurrentOK' /\ TargetOK' /\ ReserveOK'
        BY <2>1, <2>2 DEF IndInv, TableOK, CurrentOK, Orphan, TargetOK, ReserveOK, At,
           TopPc, FreePids
      <3>3. LoadsOK'
        BY <2>1 DEF IndInv, TableOK, LoadsOK, LoadPids, LoadsDistinct, ReservedLoads, Positions
      <3>4. TermsOK'
        BY <2>1 DEF IndInv, TableOK, TermsOK, TermsActive, ChildFrames, RootFrames,
           RootsDistinct, Positions
      <3> QED
        BY <3>1, <3>2, <3>3, <3>4 DEF TableOK
    <2>4. JobsOK'
      <3>1. \A t \in Terminals : Restarting(t) => Restarting(t)'
        BY <2>1, <2>2 DEF Restarting
      <3> QED
        BY <2>1, <3>1, JobsKept
    <2> QED
      BY <2>1, <2>3, <2>4 DEF IndInv
  <1>6. ~Iret
    BY TopKind DEF Iret, At, FrameKind, CreatePcs, SwitchPcs
  <1>2. CASE KernelStep
    BY <1>2, <1>6, FindPidKeeps, FindNoPidKeeps, ReservePidKeeps, LoadAndStartKeeps,
       RtcAckKeeps, RtcTickKeeps, RtcScheduleKeeps,
       SwitchSaveKeeps, SwitchSetKeeps, SwitchJumpKeeps DEF KernelStep
  <1>3. CASE RtcInterrupt
    BY <1>3, RtcInterruptKeeps
  <1>4. ASSUME NEW t \in Terminals, SwitchTerminal(t) PROVE TableOK' /\ JobsOK' /\ ~wild'
    BY <1>4, SwitchTerminalKeeps
  <1>5. CASE Execute \/ HaltRoot \/ HaltChild
    BY <1>5, ExecuteKeeps, HaltRootKeeps, HaltChildKeeps
  <1> QED
    BY <1>1, <1>2, <1>3, <1>4, <1>5 DEF Next

\* The process table, the PCBs and the kernel stacks stay consistent however
\* traps, RTC interrupts and terminal switches interleave, when no interrupt
\* arrives between get_free_pid and the reservation of its pid, while halt or
\* entry() runs with no current process, or inside process_start or process_switch.
THEOREM TableIntact ==
    ASSUME NarrowWindows
    PROVE  Spec => []IndInv
  <1>1. IndInv /\ [Next]_vars => IndInv'
    BY IndInvStep
  <1> QED
    BY IndInvInit, <1>1, PTL DEF Spec

-----------------------------------------------------------------------------
(* What the invariant gives.                                               *)

\* Relatives share a terminal, and the parent is the job before its child.
LEMMA ParentJob ==
    ASSUME IndInv, NEW q \in Pids, active_pids[q] = 1, parent_pcb[q] # None
    PROVE  \E p \in Pids, job \in Seq(Pids), i \in Nat :
              /\ p = parent_pcb[q]
              /\ JobsOf(terminal_id[q], job)
              /\ i \in 1 .. Len(job) /\ i + 1 \in 1 .. Len(job) /\ i < Len(job)
              /\ job[i] = p /\ job[i + 1] = q
  <1>1. terminal_id[q] \in Terminals
    BY DEF IndInv, TypeOK
  <1>2. PICK job \in Seq(Pids) : JobsOf(terminal_id[q], job)
    BY <1>1 DEF IndInv, JobsOK
  <1>3. PICK j \in 1 .. Len(job) : job[j] = q
    BY <1>2 DEF JobsOf
  <1>4. parent_pcb[job[j]] = IF j = 1 THEN None ELSE job[j - 1]
    BY <1>2 DEF JobsOf
  <1>5. Len(job) \in Nat
    BY LenProperties
  <1>6. PICK i \in Nat :
           i + 1 = j /\ i \in 1 .. Len(job) /\ i + 1 \in 1 .. Len(job) /\ i < Len(job)
                     /\ job[i] = parent_pcb[q]
    <2>1. j # 1 /\ j - 1 \in Nat /\ j - 1 \in 1 .. Len(job) /\ j - 1 + 1 = j /\ j - 1 < Len(job)
      BY <1>3, <1>4, <1>5
    <2> QED
      BY <1>3, <1>4, <2>1
  <1>7. job[i] \in Pids
    BY <1>6, ElementOfSeq
  <1> QED
    BY <1>2, <1>3, <1>6, <1>7

\* halt and process_switch never load a context that is not there, and an
\* ended program never runs again.
THEOREM ControlIsKept ==
    ASSUME NarrowWindows
    PROVE  Spec => []ControlKept
  <1>1. IndInv => ControlKept
    BY DEF IndInv, ControlKept
  <1> QED
    BY TableIntact, <1>1, PTL

\* User code runs with the page, the kernel stack and the file descriptors of
\* the current process.
THEOREM ContextIsCoherent ==
    ASSUME NarrowWindows
    PROVE  Spec => []ContextCoherent
  <1>1. IndInv => ContextCoherent
    BY RunningFacts DEF ContextCoherent, Live
  <1> QED
    BY TableIntact, <1>1, PTL

\* Every started process that does not execute can be resumed from its PCB.
THEOREM SavedContextIsOwn ==
    ASSUME NarrowWindows
    PROVE  Spec => []SavedContextOwn
  <1>1. IndInv => SavedContextOwn
    BY DEF IndInv, TableOK, StacksOK, SavedContextOwn, Live, Stacks, PidOrNone
  <1> QED
    BY TableIntact, <1>1, PTL

\* halt of a child returns to a started parent that waits for it alone.
THEOREM ParentsWait ==
    ASSUME NarrowWindows
    PROVE  Spec => []ParentWaits
  <1>1. IndInv => ParentWaits
    <2> SUFFICES ASSUME IndInv, NEW q \in Pids, active_pids[q] = 1, parent_pcb[q] # None,
                        NEW p, p = parent_pcb[q]
                 PROVE  /\ active_pids[p] = 1
                        /\ terminal_id[p] = terminal_id[q]
                        /\ kstack[p] # <<>> /\ TopPc(p) = "child"
                        /\ \A r \in Pids : ChildOf(r, p) => r = q
      BY DEF ParentWaits, Live
    <2>1. PICK job \in Seq(Pids), i \in Nat :
             /\ p \in Pids
             /\ JobsOf(terminal_id[q], job)
             /\ i \in 1 .. Len(job) /\ i + 1 \in 1 .. Len(job) /\ i < Len(job)
             /\ job[i] = p /\ job[i + 1] = q
      BY ParentJob
    <2>2. active_pids[p] = 1 /\ terminal_id[p] = terminal_id[q] /\ TopPc(p) = "child" /\ p # cpu
      BY <2>1 DEF JobsOf
    <2>3. kstack[p] # <<>>
      BY <2>1, <2>2 DEF IndInv, TableOK, StacksOK, Stacks, PidOrNone
    <2>4. ASSUME NEW r \in Pids, ChildOf(r, p) PROVE r = q
      <3>1. active_pids[r] = 1 /\ parent_pcb[r] = p /\ p # None
        BY <2>1, <2>4 DEF ChildOf, Live
      <3>2. PICK jb \in Seq(Pids), k \in Nat :
               /\ JobsOf(terminal_id[r], jb)
               /\ k \in 1 .. Len(jb) /\ jb[k] = p
        BY <3>1, ParentJob
      <3>3. terminal_id[r] = terminal_id[q]
        BY <2>2, <3>2 DEF JobsOf
      <3>4. PICK j \in 1 .. Len(job) : job[j] = r
        BY <2>1, <3>1, <3>3 DEF JobsOf
      <3>5. j # 1 /\ job[j - 1] = p
        BY <2>1, <3>1, <3>4 DEF JobsOf
      <3>6. j - 1 \in 1 .. Len(job)
        BY <3>4, <3>5, LenProperties
      <3>7. j - 1 = i
        BY <2>1, <3>5, <3>6 DEF JobsOf
      <3>8. j = i + 1
        BY <3>4, <3>7
      <3> QED
        BY <2>1, <3>4, <3>8
    <2> QED
      BY <2>2, <2>3, <2>4
  <1> QED
    BY TableIntact, <1>1, PTL

\* The scheduler switches only to a started process of the terminal that
\* waits for no child.
THEOREM TerminalsHeldByLeaves ==
    ASSUME NarrowWindows
    PROVE  Spec => []TerminalHeldByLeaf
  <1>1. IndInv => TerminalHeldByLeaf
    <2> SUFFICES ASSUME IndInv, NEW t \in Terminals,
                        terminal_pids[t] # None, ~Restarting(t)
                 PROVE  /\ Live(terminal_pids[t])
                        /\ terminal_id[terminal_pids[t]] = t
                        /\ \A q \in Pids : ~ChildOf(q, terminal_pids[t])
      BY DEF TerminalHeldByLeaf
    <2>1. PICK job \in Seq(Pids) : JobsOf(t, job)
      BY DEF IndInv, JobsOK
    <2>2. PICK n \in Nat : n = Len(job)
      BY LenProperties
    <2>3. n \in 1 .. Len(job) /\ job # <<>> /\ terminal_pids[t] = job[n]
      <3>1. job # <<>> /\ terminal_pids[t] = job[Len(job)]
        BY <2>1 DEF JobsOf
      <3>2. n # 0
        BY <2>2, <3>1, EmptySeq
      <3> QED
        BY <2>2, <3>1, <3>2
    <2>4. PICK p \in Pids : p = terminal_pids[t]
      BY <2>3, ElementOfSeq
    <2>5. active_pids[p] = 1 /\ terminal_id[p] = t
      BY <2>1, <2>3, <2>4 DEF JobsOf
    <2>6. ASSUME NEW q \in Pids, ChildOf(q, p) PROVE FALSE
      <3>1. active_pids[q] = 1 /\ parent_pcb[q] = p /\ p # None
        BY <2>4, <2>6 DEF ChildOf, Live
      <3>2. PICK jb \in Seq(Pids), k \in Nat :
               /\ JobsOf(terminal_id[q], jb)
               /\ k \in 1 .. Len(jb) /\ jb[k] = p
        BY <3>1, ParentJob
      <3>3. terminal_id[q] = t
        BY <2>5, <3>2 DEF JobsOf
      <3>4. PICK j \in 1 .. Len(job) : job[j] = q
        BY <2>1, <3>1, <3>3 DEF JobsOf
      <3>5. j # 1 /\ job[j - 1] = p
        BY <2>1, <3>1, <3>4 DEF JobsOf
      <3>6. j - 1 \in 1 .. Len(job)
        BY <3>4, <3>5, LenProperties
      <3>7. j - 1 = n
        BY <2>1, <2>3, <2>4, <3>5, <3>6 DEF JobsOf
      <3> QED
        BY <2>2, <3>4, <3>7
    <2> QED
      BY <2>4, <2>5, <2>6 DEF Live
  <1> QED
    BY TableIntact, <1>1, PTL

\* Every started process holds its terminal or waits for a started child.
THEOREM NoProcessIsLost ==
    ASSUME NarrowWindows
    PROVE  Spec => []NoLostProcess
  <1>1. IndInv => NoLostProcess
    <2> SUFFICES ASSUME IndInv, NEW p \in Pids, active_pids[p] = 1,
                        \A q \in Pids : ~ChildOf(q, p)
                 PROVE  terminal_pids[terminal_id[p]] = p
      BY DEF NoLostProcess, Live
    <2>1. terminal_id[p] \in Terminals
      BY DEF IndInv, TypeOK
    <2>2. PICK job \in Seq(Pids) : JobsOf(terminal_id[p], job)
      BY <2>1 DEF IndInv, JobsOK
    <2>3. PICK i \in 1 .. Len(job) : job[i] = p
      BY <2>2 DEF JobsOf
    <2>4. Len(job) \in Nat /\ job # <<>>
      BY <2>3, LenProperties, EmptySeq
    <2>5. i = Len(job)
      <3> SUFFICES ASSUME i # Len(job) PROVE FALSE
        OBVIOUS
      <3>1. i + 1 \in 1 .. Len(job) /\ i + 1 # 1 /\ i + 1 - 1 = i
        BY <2>3, <2>4
      <3>2. job[i + 1] \in Pids
        BY <3>1, ElementOfSeq
      <3>3. active_pids[job[i + 1]] = 1 /\ parent_pcb[job[i + 1]] = p
        BY <2>2, <2>3, <3>1 DEF JobsOf
      <3> QED
        BY <3>2, <3>3 DEF ChildOf, Live
    <2> QED
      BY <2>2, <2>3, <2>4, <2>5 DEF JobsOf
  <1> QED
    BY TableIntact, <1>1, PTL

\* A reserved pid belongs to exactly one process_create in progress.
THEOREM ReservationsUnique ==
    ASSUME NarrowWindows
    PROVE  Spec => []ReservedOnce
  <1>1. IndInv => ReservedOnce
    <2> SUFFICES ASSUME IndInv, NEW p \in Pids
                 PROVE  active_pids[p] = 0 <=> \E x \in LoadFrames(p) : LoadFrames(p) = {x}
      BY DEF ReservedOnce
    <2>1. LoadPids /\ LoadsDistinct /\ ReservedLoads
      BY DEF IndInv, TableOK, LoadsOK
    <2>2. \A x \in LoadFrames(p) :
             /\ x = <<x[1], x[2]>> /\ x[1] \in Stacks /\ x[2] \in Positions(x[1])
             /\ IsLoad(kstack[x[1]][x[2]]) /\ kstack[x[1]][x[2]].pid = p
      BY DEF LoadFrames, Positions, IsLoad
    <2>3. \A s \in Stacks : \A d \in Positions(s) :
             IsLoad(kstack[s][d]) /\ kstack[s][d].pid = p => <<s, d>> \in LoadFrames(p)
      BY DEF LoadFrames, Positions, IsLoad
    <2>4. ASSUME NEW x \in LoadFrames(p) PROVE active_pids[p] = 0
      BY <2>1, <2>2 DEF LoadPids
    <2>5. \A x, y \in LoadFrames(p) : x = y
      BY <2>1, <2>2 DEF LoadsDistinct
    <2>6. ASSUME active_pids[p] = 0 PROVE \E x \in LoadFrames(p) : LoadFrames(p) = {x}
      <3>1. PICK s \in Stacks : \E d \in Positions(s) :
               IsLoad(kstack[s][d]) /\ kstack[s][d].pid = p
        BY <2>1, <2>6 DEF ReservedLoads
      <3>2. PICK d \in Positions(s) : IsLoad(kstack[s][d]) /\ kstack[s][d].pid = p
        BY <3>1
      <3>3. <<s, d>> \in LoadFrames(p)
        BY <2>3, <3>2
      <3> QED
        BY <2>5, <3>3
    <2> QED
      BY <2>4, <2>6
  <1> QED
    BY TableIntact, <1>1, PTL

\* A pid is reserved before it is started, started before it is ended, and
\* ended before it is used again.
THEOREM LifecycleFollowed ==
    ASSUME NarrowWindows
    PROVE  Spec => PidLifecycle
  <1> DEFINE Legal == \A p \in Pids : active_pids'[p] # active_pids[p] =>
                 <<active_pids[p], active_pids'[p]>> \in {<<-1, 0>>, <<0, 1>>, <<1, -1>>}
  <1>1. IndInv /\ [Next]_vars => [Legal]_vars
    <2> SUFFICES ASSUME IndInv, Next PROVE Legal
      OBVIOUS
    <2>1. CASE UNCHANGED active_pids
      BY <2>1
    <2>2. CASE ReservePid
      <3>1. Top.pid \in Pids /\ active_pids[Top.pid] = -1
        BY <2>2 DEF ReservePid, IndInv, TableOK, ReserveOK
      <3> QED
        BY <2>2, <3>1 DEF ReservePid, IndInv, TypeOK
    <2>3. CASE LoadAndStart
      <3>1. PICK p \in Pids : active_pids[p] = 0 /\ StartProcess(p)
        BY <2>3, StartFacts
      <3> QED
        BY <3>1 DEF StartProcess, IndInv, TypeOK
    <2>4. CASE HaltRoot \/ HaltChild
      <3>1. UserMode
        BY <2>4 DEF HaltRoot, HaltChild
      <3>2. PICK c \in Pids : c = current_pid /\ active_pids[c] = 1
        BY <3>1, RunningFacts
      <3>3. active_pids' = [active_pids EXCEPT ![c] = -1]
        BY <2>4, <3>2 DEF HaltRoot, HaltChild
      <3> QED
        BY <3>2, <3>3 DEF IndInv, TypeOK
    <2> QED
      BY <2>1, <2>2, <2>3, <2>4
         DEF Next, KernelStep, Iret, FindPid, FindNoPid, RtcAck, RtcTick, RtcSchedule, SwitchSave,
             SwitchSet, SwitchJump, RtcInterrupt, SwitchTerminal, Execute
  <1> QED
    BY TableIntact, <1>1, PTL DEF Spec, PidLifecycle

-----------------------------------------------------------------------------
(* The stacks of jobs.                                                     *)

\* The parent of a job, from its place.
Below(job, i) == IF i = 1 THEN None ELSE job[i - 1]

\* job is the set procs as a stack: each one is the parent of the next.
IsStack(procs, parent, job) ==
    /\ job \in Seq(procs)
    /\ \A i \in 1 .. Len(job) : parent[job[i]] = IF i = 1 THEN None ELSE job[i - 1]
    /\ \A i, j \in 1 .. Len(job) : job[i] = job[j] => i = j
    /\ \A p \in procs : \E i \in 1 .. Len(job) : job[i] = p

\* The job of such a stack is the only one with its parent.
LEMMA StackEntry ==
    ASSUME NEW procs \in SUBSET Pids, NEW parent, NEW job, IsStack(procs, parent, job),
           NEW i \in 1 .. Len(job), NEW p \in procs,
           parent[p] = Below(job, i)
    PROVE  p = job[i]
  <1>9. parent[p] = IF i = 1 THEN None ELSE job[i - 1]
    BY DEF Below
  <1>1. Len(job) \in Nat /\ \A k \in 1 .. Len(job) : job[k] \in procs
    BY DEF IsStack
  <1>2. None \notin procs
    BY DEF Pids, None
  <1>3. PICK k \in 1 .. Len(job) : job[k] = p
    BY DEF IsStack
  <1>4. parent[p] = IF k = 1 THEN None ELSE job[k - 1]
    BY <1>3 DEF IsStack
  <1>5. i # 1 => i - 1 \in 1 .. Len(job) /\ job[i - 1] \in procs
    BY <1>1
  <1>6. k # 1 => k - 1 \in 1 .. Len(job) /\ job[k - 1] \in procs
    BY <1>1
  <1>7. CASE i = 1
    BY <1>2, <1>3, <1>4, <1>6, <1>7, <1>9
  <1>8. CASE i # 1
    <2>1. k # 1 /\ job[k - 1] = job[i - 1]
      BY <1>2, <1>4, <1>5, <1>8, <1>9
    <2>2. k - 1 = i - 1
      BY <1>5, <1>6, <1>8, <2>1 DEF IsStack
    <2>3. k = i
      BY <2>2
    <2> QED
      BY <1>3, <2>3
  <1> QED
    BY <1>7, <1>8

\* There is only one such stack, and it is JobStack.
LEMMA JobStackRight ==
    ASSUME NEW procs \in SUBSET Pids, NEW parent, NEW job, IsStack(procs, parent, job)
    PROVE  JobStack(procs, parent) = job
  <1> DEFINE n == Len(job)
             Chosen(f, i) == CHOOSE p \in procs : parent[p] = IF i = 1 THEN None ELSE f[i - 1]
             Is(f) == f = [i \in 1 .. n |-> Chosen(f, i)]
             f == CHOOSE f : Is(f)
  <1>1. n \in Nat /\ job \in [1 .. n -> procs] /\ job = [i \in 1 .. n |-> job[i]]
    BY DEF IsStack
  <1>2. Cardinality(procs) = n
    <2>1. job \in Bijection(1 .. n, procs)
      BY <1>1 DEF IsStack, Bijection, Injection, Surjection, IsInjective
    <2> QED
      BY <1>1, <2>1, FS_CountingElements, Zenon DEF ExistsBijection
  <1>3. JobStack(procs, parent) = f
    BY <1>2, Zenon DEF JobStack
  <1>4. Is(job)
    <2>1. ASSUME NEW i \in 1 .. n PROVE job[i] = Chosen(job, i)
      <3>1. job[i] \in procs
        BY <1>1
      <3>3. ASSUME NEW p \in procs, parent[p] = IF i = 1 THEN None ELSE job[i - 1]
            PROVE  p = job[i]
        <4>1. parent[p] = Below(job, i)
          BY <3>3, Zenon DEF Below
        <4> QED
          BY <4>1, StackEntry, Zenon
      <3>2. parent[job[i]] = IF i = 1 THEN None ELSE job[i - 1]
        BY DEF IsStack
      <3> QED
        BY <3>1, <3>2, <3>3, Zenon
    <2> HIDE DEF Chosen
    <2> QED
      BY <1>1, <2>1, Zenon
  <1>5. Is(f)
    BY <1>4, Zenon
  <1> HIDE DEF f
  <1>6. \A i \in 1 .. n : f[i] = job[i]
    <2> DEFINE Wrong == {i \in 1 .. n : f[i] # job[i]}
    <2>1. CASE Wrong # {}
      <3>1. Wrong \in SUBSET Nat
        OBVIOUS
      <3>2. PICK i \in Wrong : \A j \in Wrong : <<j, i>> \notin OpToRel(<, Nat)
        BY <2>1, <3>1, WFMin, NatLessThanWellFounded, Zenon
      <3>3. \A j \in Wrong : ~(j < i)
        BY <3>1, <3>2, Zenon DEF OpToRel
      <3>4. i \in 1 .. n /\ f[i] # job[i]
        BY <3>2
      <3>5. i # 1 => i - 1 \in 1 .. n /\ i - 1 < i
        BY <3>4
      <3>6. i # 1 => f[i - 1] = job[i - 1]
        BY <3>3, <3>5
      <3>7. f[i] = Chosen(f, i) /\ job[i] = Chosen(job, i)
        <4> HIDE DEF Chosen
        <4> QED
          BY <1>4, <1>5, <3>4, Zenon
      <3>8. (IF i = 1 THEN None ELSE f[i - 1]) = (IF i = 1 THEN None ELSE job[i - 1])
        BY <3>6
      <3>9. Chosen(f, i) = Chosen(job, i)
        BY <3>8
      <3> QED
        BY <3>4, <3>7, <3>9
    <2>2. CASE Wrong = {}
      BY <2>2
    <2> QED
      BY <2>1, <2>2
  <1>7. f = [i \in 1 .. n |-> f[i]]
    <2> HIDE DEF Chosen
    <2> QED
      BY <1>5
  <1>8. f = job
    <2> HIDE DEF n, Is
    <2> QED
      BY <1>1, <1>6, <1>7, Zenon
  <1> QED
    BY <1>3, <1>8

\* A stack grows by a process whose parent is on top, and shrinks from the top.
LEMMA StackPushed ==
    ASSUME NEW procs \in SUBSET Pids, NEW parent, NEW parent2, NEW job, NEW p \in Pids,
           IsStack(procs, parent, job), p \notin procs,
           \A q \in procs : parent2[q] = parent[q],
           parent2[p] = IF job = <<>> THEN None ELSE job[Len(job)]
    PROVE  IsStack(procs \cup {p}, parent2, Append(job, p))
  <1> DEFINE n == Len(job)
             job2 == Append(job, p)
  <1>1. n \in Nat /\ \A k \in 1 .. n : job[k] \in procs
    BY DEF IsStack
  <1>2. /\ job2 \in Seq(procs \cup {p}) /\ Len(job2) = n + 1
        /\ \A k \in 1 .. n : job2[k] = job[k]
        /\ job2[n + 1] = p
    BY DEF IsStack
  <1>3. (job = <<>>) <=> n = 0
    BY DEF IsStack
  <1> HIDE DEF job2
  <1>4. \A i \in 1 .. n + 1 : parent2[job2[i]] = IF i = 1 THEN None ELSE job2[i - 1]
    <2> TAKE i \in 1 .. n + 1
    <2>1. CASE i = n + 1
      <3>1. i # 1 => n \in 1 .. n /\ i - 1 = n /\ n # 0
        BY <1>1, <2>1
      <3>2. i = 1 => n = 0
        BY <1>1, <2>1
      <3> QED
        BY <1>2, <1>3, <2>1, <3>1, <3>2
    <2>2. CASE i # n + 1
      <3>1. i \in 1 .. n /\ (i # 1 => i - 1 \in 1 .. n)
        BY <1>1, <2>2
      <3>2. job2[i] = job[i] /\ job[i] \in procs /\ (i # 1 => job2[i - 1] = job[i - 1])
        BY <1>1, <1>2, <3>1
      <3>3. parent[job[i]] = IF i = 1 THEN None ELSE job[i - 1]
        BY <3>1 DEF IsStack
      <3> QED
        BY <3>2, <3>3
    <2> QED
      BY <2>1, <2>2
  <1>5. \A i, j \in 1 .. n + 1 : job2[i] = job2[j] => i = j
    <2> TAKE i, j \in 1 .. n + 1
    <2>1. i = n + 1 \/ i \in 1 .. n
      BY <1>1
    <2>2. j = n + 1 \/ j \in 1 .. n
      BY <1>1
    <2>3. \A k \in 1 .. n : job2[k] = job[k] /\ job2[k] # p
      BY <1>1, <1>2
    <2>4. \A k, l \in 1 .. n : job[k] = job[l] => k = l
      BY DEF IsStack
    <2> QED
      BY <1>2, <2>1, <2>2, <2>3, <2>4
  <1>6. \A q \in procs \cup {p} : \E i \in 1 .. n + 1 : job2[i] = q
    <2> TAKE q \in procs \cup {p}
    <2>1. CASE q = p
      <3>1. n + 1 \in 1 .. n + 1
        BY <1>1
      <3> QED
        BY <1>2, <2>1, <3>1
    <2>2. CASE q \in procs
      <3>1. PICK k \in 1 .. n : job[k] = q
        BY <2>2 DEF IsStack
      <3>2. k \in 1 .. n + 1
        BY <1>1
      <3> QED
        BY <1>2, <3>1, <3>2
    <2> QED
      BY <2>1, <2>2
  <1> QED
    BY <1>2, <1>4, <1>5, <1>6 DEF IsStack, job2

LEMMA StackPopped ==
    ASSUME NEW procs \in SUBSET Pids, NEW parent, NEW job,
           IsStack(procs, parent, job), job # <<>>
    PROVE  IsStack(procs \ {job[Len(job)]}, parent, SubSeq(job, 1, Len(job) - 1))
  <1> DEFINE n == Len(job)
             m == n - 1
             job2 == SubSeq(job, 1, m)
             rest == procs \ {job[n]}
  <1>1. n \in Nat \ {0} /\ m \in Nat /\ \A k \in 1 .. n : job[k] \in procs
    BY DEF IsStack
  <1>2. \A k \in 1 .. m : k \in 1 .. n /\ k # n /\ (k # 1 => k - 1 \in 1 .. m)
    BY <1>1
  <1>3. n \in 1 .. n
    BY <1>1
  <1>4. \A k \in 1 .. m : job[k] \in rest
    BY <1>1, <1>2, <1>3 DEF IsStack
  <1>5. job2 \in Seq(rest) /\ Len(job2) = m /\ \A k \in 1 .. m : job2[k] = job[k]
    <2>1. job2 = [k \in 1 .. m |-> job[k]]
      BY <1>1 DEF IsStack
    <2> HIDE DEF rest, job2, m
    <2> QED
      BY <1>1, <1>4, <2>1
  <1>6. \A q \in rest : \E i \in 1 .. m : job2[i] = q
    <2> TAKE q \in rest
    <2>1. PICK k \in 1 .. n : job[k] = q
      BY DEF IsStack
    <2>2. k \in 1 .. m
      BY <1>1, <2>1
    <2> QED
      BY <1>5, <2>1, <2>2
  <1> HIDE DEF job2, rest
  <1>7. \A i \in 1 .. m : parent[job2[i]] = IF i = 1 THEN None ELSE job2[i - 1]
    BY <1>2, <1>5 DEF IsStack
  <1>8. \A i, j \in 1 .. m : job2[i] = job2[j] => i = j
    BY <1>2, <1>5 DEF IsStack
  <1> QED
    BY <1>5, <1>6, <1>7, <1>8 DEF IsStack, job2, rest

LEMMA StackSame ==
    ASSUME NEW procs \in SUBSET Pids, NEW parent, NEW parent2, NEW job,
           IsStack(procs, parent, job), \A q \in procs : parent2[q] = parent[q]
    PROVE  IsStack(procs, parent2, job)
  <1>1. \A k \in 1 .. Len(job) : job[k] \in procs
    BY DEF IsStack
  <1> QED
    BY <1>1 DEF IsStack

\* The witness of JobsOK is the stack.
LEMMA StackOfJobs ==
    ASSUME IndInv, NEW t \in Terminals
    PROVE  /\ JobStacks[t] \in Seq(Pids)
           /\ JobsOf(t, JobStacks[t])
           /\ IsStack(LiveOn(t), parent_pcb, JobStacks[t])
  <1>1. PICK job \in Seq(Pids) : JobsOf(t, job)
    BY DEF IndInv, JobsOK
  <1>2. IsStack(LiveOn(t), parent_pcb, job)
    <2>1. \A k \in 1 .. Len(job) : job[k] \in LiveOn(t)
      BY <1>1 DEF JobsOf, LiveOn, Live
    <2>2. job \in Seq(LiveOn(t))
      BY <2>1
    <2>3. \A p \in LiveOn(t) : \E i \in 1 .. Len(job) : job[i] = p
      BY <1>1 DEF JobsOf, LiveOn, Live
    <2> QED
      BY <1>1, <2>2, <2>3 DEF JobsOf, IsStack
  <1>3. LiveOn(t) \in SUBSET Pids
    BY DEF LiveOn
  <1>4. JobStack(LiveOn(t), parent_pcb) = job
    BY <1>2, <1>3, JobStackRight, Zenon
  <1>5. JobStacks[t] = job
    BY <1>4 DEF JobStacks
  <1> QED
    BY <1>1, <1>2, <1>5, Zenon

\* Whoever executes is on top of the stack of its terminal.
LEMMA CpuOnTop ==
    ASSUME IndInv, cpu \in Pids, active_pids[cpu] = 1, NEW t \in Terminals, t = terminal_id[cpu]
    PROVE  /\ Len(JobStacks[t]) \in Nat \ {0} /\ JobStacks[t] # <<>>
           /\ JobStacks[t][Len(JobStacks[t])] = cpu
  <1> DEFINE job == JobStacks[t]
  <1>1. job \in Seq(Pids) /\ JobsOf(t, job)
    BY StackOfJobs, Zenon
  <1> HIDE DEF job
  <1>2. PICK i \in 1 .. Len(job) : job[i] = cpu
    BY <1>1 DEF JobsOf
  <1>3. i = Len(job)
    BY <1>1, <1>2 DEF JobsOf
  <1>4. Len(job) \in Nat \ {0} /\ job # <<>>
    BY <1>1, <1>2
  <1> QED
    BY <1>2, <1>3, <1>4 DEF job

\* Steps that hand the CPU to nobody leave the stacks alone.
LEMMA NoJobStep ==
    ASSUME IndInv, IndInv',
           \A p \in Pids : active_pids'[p] = 1 <=> active_pids[p] = 1,
           UNCHANGED <<terminal_id, parent_pcb, cpu>>,
           Orphan => Top'.term = Top.term
    PROVE  UNCHANGED J!vars
  <1>1. \A t : LiveOn(t)' = LiveOn(t)
    BY DEF LiveOn, Live
  <1>2. JobStacks' = JobStacks
    BY <1>1 DEF JobStacks
  <1>3. Orphan' <=> Orphan
    BY DEF IndInv, TableOK, CurrentOK
  <1>4. Running' = Running /\ Opening' = Opening
    BY <1>3 DEF Running, Opening
  <1> QED
    BY <1>2, <1>4 DEF J!vars

\* How the stacks change when the processes of one terminal do.
LEMMA StacksChange ==
    ASSUME IndInv, NEW t \in Terminals, NEW job, IsStack(LiveOn(t)', parent_pcb', job),
           \A u \in Terminals \ {t} : LiveOn(u)' = LiveOn(u),
           \A u \in Terminals \ {t} : \A q \in LiveOn(u) : parent_pcb'[q] = parent_pcb[q]
    PROVE  JobStacks' = [JobStacks EXCEPT ![t] = job]
  <1>1. \A u : LiveOn(u) \in SUBSET Pids /\ LiveOn(u)' \in SUBSET Pids
    BY DEF LiveOn
  <1>2. JobStack(LiveOn(t)', parent_pcb') = job
    BY <1>1, JobStackRight, Zenon
  <1>3. ASSUME NEW u \in Terminals \ {t}
        PROVE  JobStack(LiveOn(u)', parent_pcb') = JobStacks[u]
    <2>1. IsStack(LiveOn(u), parent_pcb, JobStacks[u])
      BY StackOfJobs
    <2>2. IsStack(LiveOn(u), parent_pcb', JobStacks[u])
      BY <1>1, <2>1, StackSame
    <2>3. IsStack(LiveOn(u)', parent_pcb', JobStacks[u])
      BY <2>2
    <2> QED
      BY <1>1, <2>3, JobStackRight, Zenon
  <1>4. JobStacks' = [u \in Terminals |-> JobStack(LiveOn(u)', parent_pcb')]
    BY DEF JobStacks
  <1>5. JobStacks = [u \in Terminals |-> JobStacks[u]]
    BY DEF JobStacks
  <1>6. \A u \in Terminals : JobStack(LiveOn(u)', parent_pcb') = IF u = t THEN job ELSE JobStacks[u]
    BY <1>2, <1>3
  <1> HIDE DEF JobStacks
  <1> QED
    BY <1>4, <1>5, <1>6

\* A shell is created without a current process just when nobody who is started executes.
LEMMA OrphanRight ==
    ASSUME IndInv
    PROVE  /\ Orphan <=> ~(cpu \in Pids /\ active_pids[cpu] = 1)
           /\ ~UserMode /\ Top.by \notin {"halt", "boot"} => ~Orphan
           /\ UserMode => ~Orphan
           /\ Orphan => TopPc(cpu) = Top.pc
  <1>1. Orphan <=> ~(cpu \in Pids /\ active_pids[cpu] = 1)
    BY DEF IndInv, TableOK, CurrentOK
  <1> QED
    BY <1>1 DEF Orphan, UserMode, TopPc, Top, Depth

\* The kernel's steps on the way from one change of the stacks to the next.
LEMMA QuietSteps ==
    ASSUME NarrowWindows, IndInv, IndInv',
           \/ Execute \/ RtcInterrupt \/ \E t \in Terminals : SwitchTerminal(t)
           \/ FindPid \/ FindNoPid \/ ReservePid
           \/ RtcAck \/ RtcTick \/ RtcSchedule \/ SwitchSave \/ SwitchSet
    PROVE  UNCHANGED J!vars
  <1> USE DEF contextVars, terminalVars, pcbVars
  <1>1. CASE FindPid
    <2>1. ~UserMode /\ Top \in Frame
      BY <1>1, TopIsFrame DEF FindPid, At, IndInv
    <2>2. PICK p \in Pids : SetTop([Top EXCEPT !.pc = "reserve", !.pid = p])
      BY <1>1 DEF FindPid, FreePids
    <2> DEFINE f == [Top EXCEPT !.pc = "reserve", !.pid = p]
    <2>3. f \in Frame /\ f.term = Top.term
      <3>1. f \in Frame
        BY <2>1, MovedFrame, Zenon
      <3>2. f.term = Top.term
        BY <2>1 DEF Frame
      <3> QED
        BY <3>1, <3>2
    <2> HIDE DEF f
    <2>4. Top' = f
      BY <1>1, <2>1, <2>2, <2>3, NewTop DEF FindPid, f
    <2> QED
      BY <1>1, <2>3, <2>4, NoJobStep DEF FindPid
  <1>2. CASE ReservePid
    <2>1. ~UserMode /\ Top \in Frame /\ Top.pc = "reserve"
      BY <1>2, TopIsFrame DEF ReservePid, At, IndInv
    <2> DEFINE f == [Top EXCEPT !.pc = "load"]
    <2>2. f \in Frame /\ f.term = Top.term
      BY <2>1, MovedFrame, ZenonT(40) DEF Frame
    <2> HIDE DEF f
    <2>3. Top' = f
      BY <1>2, <2>1, <2>2, NewTop DEF ReservePid, f
    <2>4. Top.pid \in Pids /\ active_pids[Top.pid] = -1
      BY <1>2 DEF ReservePid, IndInv, TableOK, ReserveOK
    <2>5. \A p \in Pids : active_pids'[p] = 1 <=> active_pids[p] = 1
      BY <1>2, <2>4 DEF ReservePid, IndInv, TypeOK
    <2> QED
      BY <1>2, <2>2, <2>3, <2>5, NoJobStep DEF ReservePid
  <1>3. CASE FindNoPid
    <2>1. ~Orphan
      <3>1. ~UserMode /\ Top.pc = "find" /\ FreePids = {}
        BY <1>3 DEF FindNoPid, At
      <3> QED
        BY <3>1, OrphanRight DEF IndInv, TableOK, CurrentOK
    <2> QED
      BY <1>3, <2>1, NoJobStep DEF FindNoPid
  <1>4. CASE RtcAck \/ RtcTick \/ RtcSchedule \/ SwitchSave \/ SwitchSet
    <2>1. ~UserMode /\ Top.pc \in {"ack", "tick", "save", "set"}
      BY <1>4 DEF RtcAck, RtcTick, RtcSchedule, SwitchSave, SwitchSet, At
    <2>2. ~Orphan
      BY <2>1, TopKind, OrphanRight
    <2>3. UNCHANGED <<active_pids, terminal_id, parent_pcb, cpu>>
      BY <1>4 DEF RtcAck, RtcTick, RtcSchedule, SwitchSave, SwitchSet
    <2> QED
      BY <2>2, <2>3, NoJobStep
  <1>5. CASE Execute \/ RtcInterrupt \/ \E t \in Terminals : SwitchTerminal(t)
    <2>1. UserMode \/ Interrupted(Top)
      BY <1>5, InterruptedTop DEF Execute, RtcInterrupt, SwitchTerminal
    <2>2. ~Orphan /\ (UserMode => esp0 = cpu)
      BY <2>1, OrphanRight, RunningFacts DEF Interrupted
    <2>3. cpu' = cpu
      BY <1>5, <2>2 DEF Execute, RtcInterrupt, SwitchTerminal, Enter
    <2>4. UNCHANGED <<active_pids, terminal_id, parent_pcb>>
      BY <1>5 DEF Execute, RtcInterrupt, SwitchTerminal
    <2> QED
      BY <2>2, <2>3, <2>4, NoJobStep
  <1> QED
    BY <1>1, <1>2, <1>3, <1>4, <1>5

\* process_switch hands the CPU from one top job to another.
LEMMA SwitchOfJobs ==
    ASSUME NarrowWindows, IndInv, IndInv', SwitchJump
    PROVE  J!Next
  <1> USE DEF contextVars, terminalVars, pcbVars
  <1>1. ~UserMode /\ Top.pc = "jump" /\ Top.by = "rtc" /\ Top \in Frame
    BY TopKind, TopIsFrame DEF SwitchJump, At, IndInv
  <1>2. PICK p \in Pids : p = Top.pid
    BY <1>1, MovedFrame
  <1>3. p # cpu /\ active_pids[p] = 1 /\ TopPc(p) = "off"
    BY <1>1, <1>2 DEF IndInv, TableOK, TargetOK, At, SwitchPcs
  <1>4. kernel_esp[p][1] = p
    BY <1>3 DEF IndInv, TableOK, StacksOK, Stacks, PidOrNone
  <1>5. cpu' = p /\ UNCHANGED <<active_pids, terminal_id, parent_pcb>>
    <2>1. ~wild'
      BY DEF IndInv
    <2> QED
      BY <1>2, <1>4, <2>1 DEF SwitchJump, Resume
  <1>6. cpu \in Pids /\ active_pids[cpu] = 1
    BY <1>1, RunningFacts
  <1>7. ~Orphan /\ ~Orphan'
    <2>1. ~Orphan
      BY <1>1, OrphanRight
    <2>2. cpu' \in Pids /\ active_pids'[cpu'] = 1
      BY <1>3, <1>5
    <2>3. ~Orphan'
      BY <2>2 DEF IndInv, TableOK, CurrentOK
    <2> QED
      BY <2>1, <2>3
  <1>8. Running = cpu /\ Running' = p /\ Opening' = Opening
    BY <1>5, <1>7 DEF Running, Opening
  <1>9. JobStacks' = JobStacks
    BY <1>5 DEF JobStacks, LiveOn, Live
  <1>10. PICK t \in Terminals : t = terminal_id[p]
    BY DEF IndInv, TypeOK
  <1> DEFINE job == JobStacks[t]
  <1>11. job \in Seq(Pids) /\ JobsOf(t, job)
    BY StackOfJobs, Zenon
  <1> HIDE DEF job
  <1>12. PICK i \in 1 .. Len(job) : job[i] = p
    BY <1>3, <1>10, <1>11 DEF JobsOf
  <1>13. i = Len(job) /\ job # <<>>
    <2>1. i < Len(job) => TopPc(job[i]) = "child"
      BY <1>11, <1>12 DEF JobsOf
    <2> QED
      BY <1>3, <1>11, <1>12, <2>1
  <1>14. J!Switch(t)
    BY <1>6, <1>8, <1>9, <1>12, <1>13 DEF J!Switch, J!Top, job, Pids, None
  <1> QED
    BY <1>3, <1>8, <1>14 DEF J!Next

\* halt removes the running job; the one below, or nobody, runs.
LEMMA HaltOfJobs ==
    ASSUME NarrowWindows, IndInv, IndInv', HaltRoot \/ HaltChild
    PROVE  J!Next
  <1> USE DEF terminalVars, pcbVars
  <1>1. UserMode
    BY DEF HaltRoot, HaltChild
  <1>2. PICK c \in Pids : c = cpu /\ active_pids[c] = 1 /\ current_pid = c /\ esp0 = c
    BY <1>1, RunningFacts
  <1>3. PICK t \in Terminals : t = terminal_id[c]
    BY DEF IndInv, TypeOK
  <1> DEFINE job == JobStacks[t]
             n == Len(job)
             rest == SubSeq(job, 1, n - 1)
  <1>4. /\ job \in Seq(Pids) /\ JobsOf(t, job)
        /\ IsStack(LiveOn(t), parent_pcb, job)
        /\ n \in Nat \ {0} /\ job # <<>> /\ job[n] = c
    BY <1>2, <1>3, StackOfJobs, CpuOnTop, Zenon
  <1>5. parent_pcb[c] = IF n = 1 THEN None ELSE job[n - 1]
    <2> HIDE DEF job
    <2>1. n \in 1 .. n
      BY <1>4
    <2> QED
      BY <1>4, <2>1 DEF JobsOf
  <1>6. n # 1 => n - 1 \in 1 .. n /\ n - 1 < n /\ job[n - 1] \in Pids
    <2> HIDE DEF job
    <2>1. n # 1 => n - 1 \in 1 .. n /\ n - 1 < n
      <3>1. \A k \in Nat \ {0} : k # 1 => k - 1 \in 1 .. k /\ k - 1 < k
        OBVIOUS
      <3> QED
        BY <1>4, <3>1, Zenon
    <2> QED
      BY <1>4, <2>1, ElementOfSeq
  <1>7. /\ active_pids' = [active_pids EXCEPT ![c] = -1]
        /\ UNCHANGED <<terminal_id, parent_pcb>>
    BY <1>2 DEF HaltRoot, HaltChild
  <1>8. /\ LiveOn(t)' = LiveOn(t) \ {c}
        /\ \A u \in Terminals \ {t} : LiveOn(u)' = LiveOn(u)
    <2>1. \A q \in Pids : active_pids'[q] = 1 <=> active_pids[q] = 1 /\ q # c
      BY <1>7 DEF IndInv, TypeOK
    <2> QED
      BY <1>3, <1>7, <2>1 DEF LiveOn, Live
  <1>9. IsStack(LiveOn(t)', parent_pcb', rest)
    <2>1. LiveOn(t) \in SUBSET Pids
      BY DEF LiveOn
    <2>2. IsStack(LiveOn(t) \ {job[n]}, parent_pcb, rest)
      BY <1>4, <2>1, StackPopped, Zenon
    <2> HIDE DEF job, rest
    <2> QED
      BY <1>4, <1>7, <1>8, <2>2
  <1>10. JobStacks' = [JobStacks EXCEPT ![t] = rest]
    <2> HIDE DEF rest
    <2>1. \A u \in Terminals \ {t} : \A q \in LiveOn(u) : parent_pcb'[q] = parent_pcb[q]
      BY <1>7
    <2> QED
      BY <1>8, <1>9, <2>1, StacksChange
  <1>11. ~Orphan /\ Running = c /\ Opening = None
    BY <1>1, <1>2, OrphanRight DEF Running, Opening
  <1> HIDE DEF job
  <1>12. CASE HaltRoot
    <2>1. n = 1
      BY <1>2, <1>5, <1>6, <1>12 DEF HaltRoot, Pids, None
    <2> DEFINE f == CreateFrame("halt", t)
    <2>2. Enter(f) /\ f.by = "halt" /\ f.term = t /\ f \in Frame
      BY <1>2, <1>3, <1>12, NewFrames DEF HaltRoot, CreateFrame
    <2> HIDE DEF f
    <2>3. cpu' = c /\ kstack' = [kstack EXCEPT ![c] = <<f>>]
      BY <1>1, <1>2, <2>2 DEF Enter
    <2>4. Top' = f
      <3>1. kstack'[c] = <<f>>
        BY <2>3 DEF IndInv, TypeOK, Stacks, PidOrNone
      <3> QED
        BY <2>3, <3>1 DEF Top, Depth
    <2>5. Orphan'
      <3>1. active_pids'[cpu'] # 1
        BY <1>7, <2>3 DEF IndInv, TypeOK
      <3> QED
        BY <3>1 DEF IndInv, TableOK, CurrentOK
    <2>6. Running' = None /\ Opening' = t
      BY <2>2, <2>4, <2>5 DEF Running, Opening
    <2>7. J!Halt(t)
      BY <1>4, <1>10, <1>11, <2>1, <2>6 DEF J!Halt, J!Top, job
    <2> QED
      BY <1>2, <1>11, <2>6, <2>7 DEF J!Next, Pids, None
  <1>13. CASE HaltChild
    <2>1. n # 1 /\ parent_pcb[c] = job[n - 1]
      BY <1>2, <1>5, <1>13 DEF HaltChild
    <2>2. PICK p \in Pids : p = job[n - 1] /\ p # c /\ active_pids[p] = 1
      BY <1>2, <1>4, <1>6, <2>1 DEF JobsOf
    <2>3. kernel_esp[p][1] = p
      BY <1>2, <2>2 DEF IndInv, TableOK, StacksOK, Stacks, PidOrNone
    <2>4. cpu' = p
      <3>1. ~wild'
        BY DEF IndInv
      <3> QED
        BY <1>2, <1>13, <2>1, <2>2, <2>3, <3>1 DEF HaltChild, Resume
    <2>5. ~Orphan'
      <3>1. cpu' \in Pids /\ active_pids'[cpu'] = 1
        BY <1>7, <2>2, <2>4 DEF IndInv, TypeOK
      <3> QED
        BY <3>1 DEF IndInv, TableOK, CurrentOK
    <2>6. Running' = p /\ Opening' = Opening
      BY <1>11, <2>4, <2>5 DEF Running, Opening
    <2>7. J!Halt(t)
      <3>1. /\ JobStacks[t] # <<>> /\ Running = JobStacks[t][Len(JobStacks[t])]
            /\ JobStacks' = [JobStacks EXCEPT ![t] = SubSeq(JobStacks[t], 1, Len(JobStacks[t]) - 1)]
        BY <1>4, <1>10, <1>11 DEF job
      <3>2. /\ Len(JobStacks[t]) > 1 /\ Running' = JobStacks[t][Len(JobStacks[t]) - 1]
            /\ UNCHANGED Opening
        <4>1. n > 1
          <5>1. \A k \in Nat \ {0} : k # 1 => k > 1
            OBVIOUS
          <5> QED
            BY <1>4, <2>1, <5>1, Zenon
        <4> QED
          BY <2>2, <2>6, <4>1 DEF job
      <3> QED
        BY <3>1, <3>2, Zenon DEF J!Halt, J!Top
    <2> QED
      BY <1>11, <2>2, <2>6, <2>7 DEF J!Next
  <1> QED
    BY <1>12, <1>13

\* A new process goes on top of the one that executed it, or starts the stack of a
\* terminal without jobs.
LEMMA StartOfJobs ==
    ASSUME NarrowWindows, IndInv, IndInv', LoadAndStart
    PROVE  J!Next
  <1>1. PICK c \in Stacks, p \in Pids, t \in Terminals, n \in Nat \ {0},
              by \in {"execute", "keyboard", "halt", "boot"} :
           /\ c = cpu /\ n = Len(kstack[c])
           /\ Top = kstack[c][n] /\ IsLoad(Top) /\ Top.pid = p /\ Top.term = t
           /\ Top.by = by
           /\ active_pids[p] = 0
           /\ IF by \in {"halt", "boot"}
              THEN current_pid = None
              ELSE c \in Pids /\ active_pids[c] = 1 /\ current_pid = c
           /\ StartProcess(p) /\ "start" \notin Windows
           /\ terminal_id' = [terminal_id EXCEPT ![p] = t]
           /\ parent_pcb' = [parent_pcb EXCEPT
                  ![p] = IF by = "execute" THEN current_pid ELSE None]
    BY StartFacts
  <1>2. /\ active_pids' = [active_pids EXCEPT ![p] = 1]
        /\ cpu' = p
        /\ parent_pcb' = [parent_pcb EXCEPT ![p] = IF by = "execute" THEN c ELSE None]
    BY <1>1 DEF StartProcess
  <1>3. ~Orphan' /\ Running' = p /\ Opening' = None
    <2>1. cpu' \in Pids /\ active_pids'[cpu'] = 1
      BY <1>2 DEF IndInv, TypeOK
    <2>2. ~Orphan'
      BY <2>1 DEF IndInv, TableOK, CurrentOK
    <2> QED
      BY <1>2, <2>2 DEF Running, Opening
  <1>4. /\ LiveOn(t)' = LiveOn(t) \cup {p} /\ p \notin LiveOn(t)
        /\ \A u \in Terminals \ {t} : LiveOn(u)' = LiveOn(u)
        /\ \A u \in Terminals : LiveOn(u) \in SUBSET Pids
        /\ \A q \in Pids : q # p => parent_pcb'[q] = parent_pcb[q]
        /\ parent_pcb'[p] = IF by = "execute" THEN c ELSE None
        /\ \A u \in Terminals : p \notin LiveOn(u)
    <2>1. /\ active_pids \in [Pids -> {-1, 0, 1}] /\ terminal_id \in [Pids -> Terminals]
          /\ parent_pcb \in [Pids -> PidOrNone]
      BY DEF IndInv, TypeOK
    <2>2. \A q \in Pids : /\ active_pids'[q] = 1 <=> active_pids[q] = 1 \/ q = p
                          /\ terminal_id'[q] = IF q = p THEN t ELSE terminal_id[q]
      BY <1>1, <1>2, <2>1
    <2>3. /\ \A q \in Pids : q # p => parent_pcb'[q] = parent_pcb[q]
          /\ parent_pcb'[p] = IF by = "execute" THEN c ELSE None
      BY <1>2, <2>1
    <2>4. active_pids[p] # 1
      BY <1>1
    <2> QED
      BY <2>2, <2>3, <2>4 DEF LiveOn, Live
  <1>5. p \in J!Idle
    <2> SUFFICES ASSUME NEW u \in Terminals, NEW i \in 1 .. Len(JobStacks[u])
                 PROVE  JobStacks[u][i] # p
      BY DEF J!Idle
    <2>1. JobsOf(u, JobStacks[u])
      BY StackOfJobs
    <2>2. active_pids[JobStacks[u][i]] = 1
      BY <2>1 DEF JobsOf
    <2> QED
      BY <1>1, <2>2
  <1> DEFINE job == JobStacks[t]
  <1>6. job \in Seq(Pids) /\ JobsOf(t, job) /\ IsStack(LiveOn(t), parent_pcb, job)
    BY StackOfJobs, Zenon
  <1>7. ASSUME IF by = "execute" THEN job # <<>> /\ job[Len(job)] = c ELSE job = <<>>
        PROVE  JobStacks' = [JobStacks EXCEPT ![t] = Append(job, p)]
    <2> HIDE DEF job
    <2>1. parent_pcb'[p] = IF job = <<>> THEN None ELSE job[Len(job)]
      BY <1>4, <1>7
    <2>2. \A q \in LiveOn(t) : parent_pcb'[q] = parent_pcb[q]
      BY <1>4
    <2>3. IsStack(LiveOn(t) \cup {p}, parent_pcb', Append(job, p))
      BY <1>4, <1>6, <2>1, <2>2, StackPushed
    <2>4. IsStack(LiveOn(t)', parent_pcb', Append(job, p))
      BY <1>4, <2>3
    <2>5. \A u \in Terminals \ {t} : \A q \in LiveOn(u) : parent_pcb'[q] = parent_pcb[q]
      BY <1>4
    <2> QED
      BY <1>4, <2>4, <2>5, StacksChange
  <1>8. CASE by = "execute"
    <2>1. t = terminal_id[c] /\ c \in Pids /\ active_pids[c] = 1
      <3>1. StartsChild(Top) /\ n \in Positions(c)
        BY <1>1, <1>8 DEF StartsChild, IsLoad, CreatePcs, Positions
      <3> QED
        BY <1>1, <1>8, <3>1 DEF IndInv, TableOK, TermsOK, ChildFrames
    <2>2. ~Orphan /\ Running = c /\ Opening = None
      BY <1>1, <2>1, OrphanRight DEF Running, Opening
    <2>3. job # <<>> /\ job[Len(job)] = c
      BY <1>1, <2>1, CpuOnTop, Zenon
    <2>4. JobStacks' = [JobStacks EXCEPT ![t] = Append(JobStacks[t], p)]
      BY <1>7, <1>8, <2>3, Zenon
    <2>5. J!Execute(t)
      BY <1>3, <1>5, <2>2, <2>3, <2>4, Zenon DEF J!Execute, J!Top
    <2>6. p # c
      BY <1>1, <2>1
    <2> QED
      BY <1>3, <2>2, <2>5, <2>6 DEF J!Next
  <1>9. CASE by # "execute"
    <2>1. \A q \in Pids : active_pids[q] = 1 => terminal_id[q] # t
      <3>1. StartsTerminal(Top) /\ n \in Positions(c)
        BY <1>1, <1>9 DEF StartsTerminal, IsLoad, CreatePcs, Positions
      <3> QED
        BY <1>1, <3>1 DEF IndInv, TableOK, TermsOK, RootFrames
    <2>2. job = <<>>
      <3> HIDE DEF job
      <3>1. \A i \in 1 .. Len(job) :
               job[i] \in Pids /\ active_pids[job[i]] = 1 /\ terminal_id[job[i]] = t
        BY <1>6 DEF JobsOf
      <3>2. 1 \notin 1 .. Len(job)
        BY <2>1, <3>1
      <3> QED
        BY <1>6, <3>2
    <2>3. Append(job, p) = <<p>>
      BY <2>2
    <2>4. JobStacks' = [JobStacks EXCEPT ![t] = <<p>>]
      BY <1>7, <1>9, <2>2, <2>3, Zenon
    <2>5. Opening \in {None, t}
      BY <1>1 DEF Opening
    <2>6. J!Open(t)
      BY <1>3, <1>5, <2>2, <2>4, <2>5, Zenon DEF J!Open
    <2>7. Running # p
      BY <1>1, OrphanRight DEF Running, Pids, None
    <2> QED
      BY <1>3, <2>6, <2>7 DEF J!Next
  <1> QED
    BY <1>8, <1>9

\* The process table, the PCBs and the kernel stacks implement stacks of jobs.
THEOREM JobsAreStacked ==
    ASSUME NarrowWindows
    PROVE  Spec => JobsAsStacks
  <1>1. Init => J!Init
    <2> SUFFICES ASSUME Init PROVE J!Init
      OBVIOUS
    <2>1. IndInv
      BY IndInvInit
    <2>2. cpu = None /\ cpu \notin Pids /\ \A p \in Pids : active_pids[p] = -1
      BY DEF Init, Pids, None
    <2>3. kstack[cpu] = <<CreateFrame("boot", 0)>>
      BY <2>2 DEF Init, Stacks, PidOrNone
    <2>4. Top.term = 0
      BY <2>3 DEF Top, Depth, CreateFrame
    <2>5. Orphan
      BY <2>1, <2>2, OrphanRight
    <2>6. ASSUME NEW t \in Terminals PROVE JobStacks[t] = <<>>
      <3> DEFINE job == JobStacks[t]
      <3>1. job \in Seq(Pids) /\ JobsOf(t, job)
        BY <2>1, StackOfJobs, Zenon
      <3> HIDE DEF job
      <3>2. 1 \notin 1 .. Len(job)
        BY <2>2, <3>1 DEF JobsOf
      <3>3. job = <<>>
        BY <3>1, <3>2
      <3> QED
        BY <3>3 DEF job
    <2>7. JobStacks = [t \in Terminals |-> <<>>]
      BY <2>6 DEF JobStacks
    <2> QED
      BY <2>4, <2>5, <2>7 DEF J!Init, Running, Opening
  <1>2. IndInv /\ IndInv' /\ [Next]_vars => [J!Next]_(J!vars)
    <2> SUFFICES ASSUME IndInv, IndInv', [Next]_vars
                 PROVE  J!Next \/ UNCHANGED J!vars
      OBVIOUS
    <2>1. CASE UNCHANGED vars
      <3>1. UNCHANGED <<active_pids, terminal_id, parent_pcb, cpu, kstack>>
        BY <2>1 DEF vars, pcbVars
      <3> QED
        BY <3>1, NoJobStep DEF Top, Depth
    <2>2. ~Iret
      BY TopKind DEF Iret, At, FrameKind, CreatePcs, SwitchPcs
    <2>3. CASE Next
      BY <2>2, <2>3, QuietSteps, SwitchOfJobs, HaltOfJobs, StartOfJobs, Zenon DEF Next, KernelStep
    <2> QED
      BY <2>1, <2>3
  <1>3. IndInv /\ [Next]_vars => IndInv'
    BY IndInvStep
  <1> QED
    BY IndInvInit, <1>1, <1>2, <1>3, PTL DEF Spec, JobsAsStacks, J!Spec
==============================================================================
