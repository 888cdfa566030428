---------------------------- MODULE MachineProofs ----------------------------
(***************************************************************************)
(* Proofs about Machine, for every load, any number of frames, keys and    *)
(* kernel stacks: interrupts come in only when everything is ready for     *)
(* them, and none is lost.                                                 *)
(***************************************************************************)
EXTENDS Machine, TLAPS

Kinds == {"entry", "program", "rtc", "keyboard"}
Pcs   == {"run", "off", "ack", "inb", "eoi", "sti", "create", "end", "cli", "iret"}
FrameType == [what : Kinds, pc : Pcs, if : BOOLEAN]

\* The steps of entry(), numbered in the order of the code.
Stage == [check |-> 1, descriptors |-> 2, idt |-> 3, pic |-> 4, paging |-> 5, fs |-> 6,
          rtc_B |-> 7, rtc_C |-> 8, keyboard |-> 9, processes |-> 10, create |-> 11,
          window |-> 12, up |-> 13]
Stages  == {"check", "descriptors", "idt", "pic", "paging", "fs", "rtc_B", "rtc_C",
            "keyboard", "processes", "create", "window", "up"}
Stopped == {"exception", "halted"}

\* Type correctness.
TypeInv ==
    /\ load \in [magic : BOOLEAN, both : BOOLEAN, modules : Seq({"fs", "other"})]
    /\ boot \in Stages \cup Stopped
    /\ fs_img \in {0, 1}
    /\ gates \subseteq Lines
    /\ ready \subseteq {"tss", "idt", "paging", "processes"}
    /\ pic \in [on : BOOLEAN, masked : SUBSET IRQs, irr : SUBSET IRQs, isr : SUBSET IRQs]
    /\ rtc \in [B : BOOLEAN, C : BOOLEAN]
    /\ key \in [full : BOOLEAN, pressed : Nat]
    /\ iflag \in BOOLEAN
    /\ frames \in Seq(FrameType) /\ Len(frames) > 0
    /\ away \in Seq(Seq(FrameType))
    /\ active \in Nat

\* The frames of handlers lie on the one of entry() or of a program; a handler of the
\* keyboard that has not reported the end is the innermost, with interrupts off.
StackInv ==
    /\ frames[1].what \in {"entry", "program"}
    /\ \A i \in 2 .. Len(frames) : frames[i].what \in {"rtc", "keyboard"}
    /\ \A i \in 1 .. Len(frames) :
          frames[i].what = "keyboard" /\ Waiting(frames[i]) => i = Len(frames) /\ ~iflag

\* A stack that a handler has left lies on the frame of entry() or of a program too, and has
\* no handler of the keyboard that has not reported the end.
LeftBehind(s) ==
    /\ Len(s) > 0
    /\ s[1].what \in {"entry", "program"}
    /\ \A i \in 2 .. Len(s) : s[i].what \in {"rtc", "keyboard"}
    /\ \A i \in 1 .. Len(s) : ~(s[i].what = "keyboard" /\ Waiting(s[i]))

AwayInv == \A k \in 1 .. Len(away) : LeftBehind(away[k])

\* What has been done when entry() is at a step.
BootInv ==
    /\ boot \in Stages =>
         LET n == Stage[boot]
         IN  /\ n > 1 => load.magic /\ ~load.both
             /\ n > 2 => "tss" \in ready
             /\ n > 3 => "idt" \in ready /\ gates = Lines
             /\ n <= 4 => ~pic.on /\ ~key.full
             /\ n > 4 => pic.on /\ CASCADE_IRQ \notin pic.masked
             /\ n > 5 => "paging" \in ready
             /\ n > 6 => fs_img = blk_start
             /\ n > 7 => rtc.B
             /\ n > 8 => RTC_IRQ \notin pic.masked
             /\ n > 9 => KEYBOARD_IRQ \notin pic.masked
             /\ n > 10 => "processes" \in ready
             /\ n > 11 => Bootable /\ fs_img = 1
             /\ n <= 11 => ~iflag /\ Len(frames) = 1 /\ away = <<>>
             /\ n > 4 /\ n <= 11 => pic.isr = {} /\ (key.full => KEYBOARD_IRQ \in pic.irr)
             /\ n > 8 /\ n <= 11 => (rtc.C => RTC_IRQ \in pic.irr)
    /\ boot \in Stopped => ~iflag /\ Len(frames) = 1
    /\ boot = "halted" => ~Bootable

IInv == TypeInv /\ StackInv /\ BootInv /\ NothingLost

-----------------------------------------------------------------------------
(* Lemmas                                                                  *)

\* The innermost frame goes on, on the same stack.
Moved(pc) == frames' = AtPc(pc) /\ away' = away

\* The pc of the innermost frame changes and nothing else.
LEMMA GotoChanges ==
    ASSUME TypeInv, NEW pc \in Pcs, frames' = AtPc(pc)
    PROVE  /\ frames' \in Seq(FrameType)
           /\ Len(frames') = Len(frames)
           /\ \A i \in 1 .. Len(frames) - 1 : frames'[i] = frames[i]
           /\ \A i \in 1 .. Len(frames) : frames'[i].what = frames[i].what
           /\ frames'[Len(frames)].pc = pc
<1>1. Top \in FrameType
  BY DEF TypeInv, Top
<1>2. frames' = [frames EXCEPT ![Len(frames)] = [Top EXCEPT !.pc = pc]]
  BY DEF AtPc, Top
<1>3. [Top EXCEPT !.pc = pc] \in FrameType
  BY <1>1 DEF FrameType
<1> QED
  BY <1>1, <1>2, <1>3 DEF TypeInv, Top, FrameType

\* Accept adds a frame.
LEMMA AppendChanges ==
    ASSUME TypeInv, NEW f \in FrameType, frames' = Append(frames, f)
    PROVE  /\ frames' \in Seq(FrameType)
           /\ Len(frames') = Len(frames) + 1
           /\ \A i \in 1 .. Len(frames) : frames'[i] = frames[i]
           /\ frames'[Len(frames) + 1] = f
BY DEF TypeInv

\* iret removes one.
LEMMA FrontChanges ==
    ASSUME TypeInv, Len(frames) > 1, frames' = SubSeq(frames, 1, Len(frames) - 1)
    PROVE  /\ frames' \in Seq(FrameType)
           /\ Len(frames') = Len(frames) - 1
           /\ \A i \in 1 .. Len(frames) - 1 : frames'[i] = frames[i]
BY DEF TypeInv

LEMMA InitRight == Init => IInv
<1> SUFFICES ASSUME Init PROVE IInv
  OBVIOUS
<1>1. TypeInv
  <2>1. load \in [magic : BOOLEAN, both : BOOLEAN, modules : Seq({"fs", "other"})]
    BY LoadsAssumption DEF Init
  <2>2. boot \in Stages /\ fs_img \in {0, 1} /\ gates \subseteq Lines /\ ready = {} /\ iflag \in BOOLEAN
    BY DEF Init, Stages
  <2>3. pic \in [on : BOOLEAN, masked : SUBSET IRQs, irr : SUBSET IRQs, isr : SUBSET IRQs]
    BY DEF Init, IRQs
  <2>4. rtc \in [B : BOOLEAN, C : BOOLEAN]
    BY DEF Init
  <2>5. key \in [full : BOOLEAN, pressed : Nat]
    BY DEF Init
  <2>6. frames \in Seq(FrameType) /\ Len(frames) = 1
    <3>1. frames = <<Frame("entry", "run", FALSE)>>
      BY DEF Init
    <3>2. Frame("entry", "run", FALSE) \in FrameType
      BY DEF Frame, FrameType, Kinds, Pcs
    <3>3. \A f \in FrameType : <<f>> \in Seq(FrameType) /\ Len(<<f>>) = 1
      OBVIOUS
    <3> QED
      BY <3>1, <3>2, <3>3, Zenon
  <2>7. away \in Seq(Seq(FrameType)) /\ active \in Nat
    BY DEF Init
  <2> QED
    BY <2>1, <2>2, <2>3, <2>4, <2>5, <2>6, <2>7 DEF TypeInv
<1>2. StackInv
  BY DEF Init, StackInv, Frame, Waiting
<1>3. BootInv
  BY DEF Init, BootInv, Stage, Stages, Stopped
<1>4. NothingLost
  BY DEF Init, NothingLost
<1> QED
  BY <1>1, <1>2, <1>3, <1>4 DEF IInv

\* What holds when interrupts may come in.
LEMMA Running ==
    ASSUME IInv, boot \in {"window", "up"}
    PROVE  /\ ready = {"tss", "idt", "paging", "processes"} /\ gates = Lines
           /\ pic.on /\ pic.masked = {} /\ rtc.B
           /\ Bootable /\ fs_img = 1
<1>1. boot \in Stages /\ Stage[boot] > 11
  BY DEF Stages, Stage
<1>2. /\ "tss" \in ready /\ "idt" \in ready /\ "paging" \in ready /\ "processes" \in ready
      /\ gates = Lines /\ pic.on /\ rtc.B /\ Bootable /\ fs_img = 1
      /\ CASCADE_IRQ \notin pic.masked /\ RTC_IRQ \notin pic.masked /\ KEYBOARD_IRQ \notin pic.masked
  BY <1>1 DEF IInv, BootInv, Stage, Stages
<1>3. ready \subseteq {"tss", "idt", "paging", "processes"} /\ pic.masked \subseteq IRQs
  BY DEF IInv, TypeInv
<1> QED
  BY <1>2, <1>3 DEF IRQs

\* Handlers and programs change nothing that booting has set up.
LEMMA BootStays ==
    ASSUME IInv, boot \in {"window", "up"}, boot' \in {"window", "up"},
           UNCHANGED <<load, fs_img, gates, ready>>,
           pic'.on = pic.on, pic'.masked = pic.masked, rtc'.B = rtc.B
    PROVE  BootInv'
<1>1. boot \in Stages /\ Stage[boot] > 11 /\ boot' \in Stages /\ Stage[boot'] > 11 /\ boot' \notin Stopped
  BY DEF Stages, Stage, Stopped
<1>2. load' = load /\ fs_img' = fs_img /\ gates' = gates /\ ready' = ready
  OBVIOUS
<1>3. Bootable' = Bootable /\ blk_start' = blk_start
  BY <1>2 DEF Bootable, blk_start
<1> QED
  BY <1>1, <1>2, <1>3 DEF IInv, BootInv, Stages, Stage, Stopped

\* Nothing on the stacks changes.
LEMMA PlacesStay ==
    ASSUME frames' = frames, away' = away, NEW what
    PROVE  Active(what)' = Active(what) /\ Unread(what)' = Unread(what)
<1>1. \A k : Stack(k)' = Stack(k)
  BY DEF Stack
<1>2. Places' = Places /\ \A p : FrameAt(p)' = FrameAt(p)
  BY <1>1 DEF Places, FrameAt
<1>3. Active(what)' = Active(what)
  BY <1>2, Zenon DEF Active, Waiting
<1> QED
  BY <1>2, <1>3, Zenon DEF Unread

-----------------------------------------------------------------------------
(* The steps of the devices                                                *)

LEMMA RtcPeriodRight == IInv /\ RtcPeriod => IInv'
<1> SUFFICES ASSUME IInv, RtcPeriod PROVE IInv'
  OBVIOUS
<1>1. /\ rtc' = [rtc EXCEPT !.C = TRUE] /\ pic' = [pic EXCEPT !.irr = @ \cup {RTC_IRQ}]
      /\ UNCHANGED <<load, boot, fs_img, gates, ready, key, iflag, frames, away, active>>
  BY DEF RtcPeriod, Raised, bootVars, stackVars
<1>2. TypeInv'
  BY <1>1 DEF IInv, TypeInv, IRQs
<1>3. StackInv'
  BY <1>1 DEF IInv, StackInv, Waiting
<1>4. /\ pic'.on = pic.on /\ pic'.masked = pic.masked /\ pic'.isr = pic.isr
      /\ RTC_IRQ \in pic'.irr /\ (KEYBOARD_IRQ \in pic.irr => KEYBOARD_IRQ \in pic'.irr)
      /\ rtc'.B = rtc.B
  BY <1>1 DEF IInv, TypeInv
<1>5. BootInv'
  BY <1>1, <1>4 DEF IInv, BootInv, Bootable, blk_start
<1>6. NothingLost'
  BY <1>1, <1>4, PlacesStay DEF IInv, NothingLost
<1> QED
  BY <1>2, <1>3, <1>5, <1>6 DEF IInv

LEMMA KeyPressRight == IInv /\ KeyPress => IInv'
<1> SUFFICES ASSUME IInv, KeyPress PROVE IInv'
  OBVIOUS
<1>1. /\ key' = [full |-> TRUE, pressed |-> key.pressed + 1]
      /\ pic' = [pic EXCEPT !.irr = @ \cup {KEYBOARD_IRQ}] /\ pic.on
      /\ UNCHANGED <<load, boot, fs_img, gates, ready, rtc, iflag, frames, away, active>>
  BY DEF KeyPress, Raised, bootVars, stackVars
<1>2. TypeInv'
  <2>1. key.pressed \in Nat
    BY DEF IInv, TypeInv
  <2>2. key' \in [full : BOOLEAN, pressed : Nat]
    BY <1>1, <2>1
  <2>3. pic' \in [on : BOOLEAN, masked : SUBSET IRQs, irr : SUBSET IRQs, isr : SUBSET IRQs]
    BY <1>1 DEF IInv, TypeInv, IRQs
  <2> QED
    BY <1>1, <2>2, <2>3 DEF IInv, TypeInv
<1>3. StackInv'
  BY <1>1 DEF IInv, StackInv, Waiting
<1>4. /\ pic'.on = pic.on /\ pic'.masked = pic.masked /\ pic'.isr = pic.isr
      /\ KEYBOARD_IRQ \in pic'.irr /\ (RTC_IRQ \in pic.irr => RTC_IRQ \in pic'.irr)
  BY <1>1 DEF IInv, TypeInv
<1>5. BootInv'
  <2>1. boot \in Stages => Stage[boot] > 4
    BY <1>1 DEF IInv, BootInv, Stage, Stages
  <2> QED
    BY <1>1, <1>4, <2>1 DEF IInv, BootInv, Bootable, blk_start, Stage, Stages
<1>6. NothingLost'
  BY <1>1, <1>4, PlacesStay DEF IInv, NothingLost
<1> QED
  BY <1>2, <1>3, <1>5, <1>6 DEF IInv

-----------------------------------------------------------------------------
(* The interrupts in progress, when the frames change                      *)

\* The handlers in progress on the stack in use, and on the others.
Here(what)       == {i \in DOMAIN frames : frames[i].what = what /\ Waiting(frames[i])}
HereUnread(what) == {i \in Here(what) : frames[i].pc # "eoi"}
AwayPlaces       == UNION {{k} \X DOMAIN away[k] : k \in 1 .. Len(away)}
Left(what)       == {p \in AwayPlaces : /\ away[p[1]][p[2]].what = what
                                        /\ Waiting(away[p[1]][p[2]])}
LeftUnread(what) == {p \in Left(what) : away[p[1]][p[2]].pc # "eoi"}
OnTop(S)         == {<<0, i>> : i \in S}

LEMMA ActiveParts ==
    ASSUME TypeInv, NEW what
    PROVE  /\ Active(what) = OnTop(Here(what)) \cup Left(what)
           /\ Unread(what) = OnTop(HereUnread(what)) \cup LeftUnread(what)
<1>1. Len(away) \in Nat
  BY DEF TypeInv
<1>2. 0 .. Len(away) = {0} \cup 1 .. Len(away)
  BY <1>1
<1>3. Stack(0) = frames /\ \A k \in 1 .. Len(away) : Stack(k) = away[k]
  BY <1>1 DEF Stack
<1>4. Places = OnTop(DOMAIN frames) \cup AwayPlaces
  <2>1. Places = ({0} \X DOMAIN Stack(0)) \cup UNION {{k} \X DOMAIN Stack(k) : k \in 1 .. Len(away)}
    BY <1>2 DEF Places
  <2>2. UNION {{k} \X DOMAIN Stack(k) : k \in 1 .. Len(away)} = AwayPlaces
    BY <1>3 DEF AwayPlaces
  <2>3. {0} \X DOMAIN Stack(0) = OnTop(DOMAIN frames)
    BY <1>3 DEF OnTop
  <2> QED
    BY <2>1, <2>2, <2>3
<1>5. \A i : FrameAt(<<0, i>>) = frames[i]
  BY <1>3 DEF FrameAt
<1>6. \A p \in AwayPlaces : FrameAt(p) = away[p[1]][p[2]]
  <2>1. \A p \in AwayPlaces : p[1] \in 1 .. Len(away)
    BY DEF AwayPlaces
  <2> QED
    BY <1>3, <2>1 DEF FrameAt
<1>7. Active(what) = OnTop(Here(what)) \cup Left(what)
  BY <1>4, <1>5, <1>6 DEF Active, Here, Left, OnTop
<1>8. Unread(what) = OnTop(HereUnread(what)) \cup LeftUnread(what)
  BY <1>4, <1>5, <1>6, <1>7 DEF Unread, HereUnread, LeftUnread, OnTop, Left, Here
<1> QED
  BY <1>7, <1>8

LEMMA ActivePartsNext ==
    ASSUME Len(away') \in Nat, NEW what
    PROVE  /\ Active(what)' = OnTop(Here(what)') \cup Left(what)'
           /\ Unread(what)' = OnTop(HereUnread(what)') \cup LeftUnread(what)'
<1>1. Len(away') \in Nat
  OBVIOUS
<1>2. 0 .. Len(away') = {0} \cup 1 .. Len(away')
  BY <1>1
<1>3. Stack(0)' = frames' /\ \A k \in 1 .. Len(away') : Stack(k)' = away'[k]
  BY <1>1 DEF Stack
<1>4. Places' = OnTop(DOMAIN frames') \cup AwayPlaces'
  <2>1. Places' = ({0} \X DOMAIN Stack(0)') \cup UNION {{k} \X DOMAIN Stack(k)' : k \in 1 .. Len(away')}
    BY <1>2 DEF Places
  <2>2. UNION {{k} \X DOMAIN Stack(k)' : k \in 1 .. Len(away')} = AwayPlaces'
    BY <1>3 DEF AwayPlaces
  <2>3. {0} \X DOMAIN Stack(0)' = OnTop(DOMAIN frames')
    BY <1>3 DEF OnTop
  <2> QED
    BY <2>1, <2>2, <2>3
<1>5. \A i : FrameAt(<<0, i>>)' = frames'[i]
  BY <1>3 DEF FrameAt
<1>6. \A p \in AwayPlaces' : FrameAt(p)' = away'[p[1]][p[2]]
  <2>1. \A p \in AwayPlaces' : p[1] \in 1 .. Len(away')
    BY DEF AwayPlaces
  <2> QED
    BY <1>3, <2>1 DEF FrameAt
<1>7. Active(what)' = OnTop(Here(what)') \cup Left(what)'
  BY <1>4, <1>5, <1>6 DEF Active, Here, Left, OnTop, Waiting
<1>8. Unread(what)' = OnTop(HereUnread(what)') \cup LeftUnread(what)'
  BY <1>4, <1>5, <1>6, <1>7 DEF Unread, HereUnread, LeftUnread, OnTop, Left, Here, Waiting
<1> QED
  BY <1>7, <1>8

LEMMA ActivePartsStay ==
    ASSUME TypeInv, away' = away, NEW what
    PROVE  /\ Active(what)' = OnTop(Here(what)') \cup Left(what)
           /\ Unread(what)' = OnTop(HereUnread(what)') \cup LeftUnread(what)
<1>1. Len(away') \in Nat
  BY DEF TypeInv
<1>2. Left(what)' = Left(what) /\ LeftUnread(what)' = LeftUnread(what)
  BY DEF Left, LeftUnread, AwayPlaces, Waiting
<1> QED
  BY <1>1, <1>2, ActivePartsNext

LEMMA AppendHere ==
    ASSUME TypeInv, NEW f \in FrameType, frames' = Append(frames, f), NEW what
    PROVE  /\ Here(what)' = Here(what) \cup
                 {i \in {Len(frames) + 1} : f.what = what /\ Waiting(f)}
           /\ HereUnread(what)' = HereUnread(what) \cup
                 {i \in {Len(frames) + 1} : f.what = what /\ Waiting(f) /\ f.pc # "eoi"}
<1>1. /\ frames' \in Seq(FrameType) /\ frames \in Seq(FrameType)
      /\ Len(frames') = Len(frames) + 1
      /\ \A i \in 1 .. Len(frames) : frames'[i] = frames[i]
      /\ frames'[Len(frames) + 1] = f
  BY AppendChanges DEF TypeInv
<1>2. DOMAIN frames' = DOMAIN frames \cup {Len(frames) + 1} /\ Len(frames) \in Nat
  BY <1>1
<1>3. \A i \in DOMAIN frames : frames'[i] = frames[i]
  BY <1>1
<1>4. Here(what)' = Here(what) \cup
                 {i \in {Len(frames) + 1} : f.what = what /\ Waiting(f)}
  BY <1>1, <1>2, <1>3, Zenon DEF Here, Waiting
<1>5. HereUnread(what)' = HereUnread(what) \cup
                 {i \in {Len(frames) + 1} : f.what = what /\ Waiting(f) /\ f.pc # "eoi"}
  BY <1>1, <1>2, <1>3 DEF Here, HereUnread, Waiting
<1> QED
  BY <1>4, <1>5

LEMMA TopType ==
    ASSUME TypeInv
    PROVE  /\ frames \in Seq(FrameType) /\ Len(frames) \in Nat /\ Len(frames) > 0
           /\ Len(frames) \in DOMAIN frames /\ Top \in FrameType
<1>1. frames \in Seq(FrameType) /\ Len(frames) > 0
  BY DEF TypeInv
<1> QED
  BY <1>1 DEF Top

LEMMA GotoHere ==
    ASSUME TypeInv, NEW pc \in Pcs, frames' = AtPc(pc), NEW what
    PROVE  /\ Here(what)' = (Here(what) \ {Len(frames)}) \cup
                 {i \in {Len(frames)} : Top.what = what /\ Waiting([Top EXCEPT !.pc = pc])}
           /\ HereUnread(what)' = (HereUnread(what) \ {Len(frames)}) \cup
                 {i \in {Len(frames)} : /\ Top.what = what /\ Waiting([Top EXCEPT !.pc = pc])
                                        /\ pc # "eoi"}
<1>1. /\ frames' \in Seq(FrameType) /\ frames \in Seq(FrameType)
      /\ Len(frames') = Len(frames)
      /\ \A i \in 1 .. Len(frames) - 1 : frames'[i] = frames[i]
      /\ frames'[Len(frames)].what = Top.what /\ frames'[Len(frames)].pc = pc
      /\ Len(frames) \in DOMAIN frames /\ Top \in FrameType
  <2>1. frames \in Seq(FrameType) /\ Len(frames) \in DOMAIN frames /\ Top \in FrameType
    BY TopType
  <2>2. /\ frames' \in Seq(FrameType) /\ Len(frames') = Len(frames)
        /\ \A i \in 1 .. Len(frames) - 1 : frames'[i] = frames[i]
        /\ \A i \in 1 .. Len(frames) : frames'[i].what = frames[i].what
        /\ frames'[Len(frames)].pc = pc
    BY GotoChanges
  <2> QED
    BY <2>1, <2>2 DEF Top
<1>2. DOMAIN frames' = DOMAIN frames
  BY <1>1
<1>3. \A i \in DOMAIN frames \ {Len(frames)} : frames'[i] = frames[i]
  BY <1>1
<1>4. [Top EXCEPT !.pc = pc].what = Top.what /\ [Top EXCEPT !.pc = pc].pc = pc
  BY <1>1 DEF FrameType
<1>5. Waiting([Top EXCEPT !.pc = pc]) <=> Waiting(frames'[Len(frames)])
  BY <1>1, <1>4 DEF Waiting
<1>6. Here(what)' = (Here(what) \ {Len(frames)}) \cup
                 {i \in {Len(frames)} : Top.what = what /\ Waiting([Top EXCEPT !.pc = pc])}
  BY <1>1, <1>2, <1>3, <1>5 DEF Here, Waiting
<1>7. HereUnread(what)' = (HereUnread(what) \ {Len(frames)}) \cup
                 {i \in {Len(frames)} : /\ Top.what = what /\ Waiting([Top EXCEPT !.pc = pc])
                                        /\ pc # "eoi"}
  BY <1>1, <1>2, <1>3, <1>6 DEF HereUnread, Here, Waiting
<1> QED
  BY <1>6, <1>7

LEMMA FrontHere ==
    ASSUME TypeInv, Len(frames) > 1, frames' = SubSeq(frames, 1, Len(frames) - 1), NEW what
    PROVE  /\ Here(what)' = Here(what) \ {Len(frames)}
           /\ HereUnread(what)' = HereUnread(what) \ {Len(frames)}
<1>1. /\ frames' \in Seq(FrameType) /\ frames \in Seq(FrameType)
      /\ Len(frames') = Len(frames) - 1
      /\ \A i \in 1 .. Len(frames) - 1 : frames'[i] = frames[i]
  BY FrontChanges DEF TypeInv
<1>2. DOMAIN frames' = DOMAIN frames \ {Len(frames)}
  BY <1>1
<1>3. \A i \in DOMAIN frames' : frames'[i] = frames[i]
  BY <1>1
<1> QED
  BY <1>1, <1>2, <1>3 DEF HereUnread, Here, Waiting

\* The place of the innermost frame, and of one more.
Inner == <<0, Len(frames)>>
Deeper == <<0, Len(frames) + 1>>

LEMMA InnerTop == FrameAt(Inner) = Top
BY DEF FrameAt, Stack, Inner, Top

LEMMA AppendActive ==
    ASSUME TypeInv, NEW f \in FrameType, frames' = Append(frames, f), away' = away, NEW what
    PROVE  /\ Active(what)' = Active(what) \cup
                 {p \in {Deeper} : f.what = what /\ Waiting(f)}
           /\ Unread(what)' = Unread(what) \cup
                 {p \in {Deeper} : f.what = what /\ Waiting(f) /\ f.pc # "eoi"}
<1>1. /\ Here(what)' = Here(what) \cup {i \in {Len(frames) + 1} : f.what = what /\ Waiting(f)}
      /\ HereUnread(what)' = HereUnread(what) \cup
            {i \in {Len(frames) + 1} : f.what = what /\ Waiting(f) /\ f.pc # "eoi"}
  BY AppendHere
<1>2. /\ OnTop(Here(what)') = OnTop(Here(what)) \cup {p \in {Deeper} : f.what = what /\ Waiting(f)}
      /\ OnTop(HereUnread(what)') = OnTop(HereUnread(what)) \cup
            {p \in {Deeper} : f.what = what /\ Waiting(f) /\ f.pc # "eoi"}
  BY <1>1 DEF OnTop, Deeper
<1> QED
  BY <1>2, ActiveParts, ActivePartsStay

LEMMA GotoActive ==
    ASSUME TypeInv, NEW pc \in Pcs, Moved(pc), NEW what
    PROVE  /\ Active(what)' = (Active(what) \ {Inner}) \cup
                 {p \in {Inner} : Top.what = what /\ Waiting([Top EXCEPT !.pc = pc])}
           /\ Unread(what)' = (Unread(what) \ {Inner}) \cup
                 {p \in {Inner} : /\ Top.what = what /\ Waiting([Top EXCEPT !.pc = pc])
                                  /\ pc # "eoi"}
<1>1. frames' = AtPc(pc) /\ away' = away
  BY DEF Moved
<1>2. /\ Here(what)' = (Here(what) \ {Len(frames)}) \cup
            {i \in {Len(frames)} : Top.what = what /\ Waiting([Top EXCEPT !.pc = pc])}
      /\ HereUnread(what)' = (HereUnread(what) \ {Len(frames)}) \cup
            {i \in {Len(frames)} : /\ Top.what = what /\ Waiting([Top EXCEPT !.pc = pc])
                                   /\ pc # "eoi"}
  BY <1>1, GotoHere
<1>3. /\ OnTop(Here(what)') = (OnTop(Here(what)) \ {Inner}) \cup
            {p \in {Inner} : Top.what = what /\ Waiting([Top EXCEPT !.pc = pc])}
      /\ OnTop(HereUnread(what)') = (OnTop(HereUnread(what)) \ {Inner}) \cup
            {p \in {Inner} : /\ Top.what = what /\ Waiting([Top EXCEPT !.pc = pc])
                             /\ pc # "eoi"}
  BY <1>2 DEF OnTop, Inner
<1>4. Inner \notin Left(what) /\ Inner \notin LeftUnread(what)
  BY DEF Inner, Left, LeftUnread, AwayPlaces, TypeInv
<1> QED
  BY <1>1, <1>3, <1>4, ActiveParts, ActivePartsStay

LEMMA FrontActive ==
    ASSUME TypeInv, Len(frames) > 1, frames' = SubSeq(frames, 1, Len(frames) - 1), away' = away,
           NEW what
    PROVE  /\ Active(what)' = Active(what) \ {Inner}
           /\ Unread(what)' = Unread(what) \ {Inner}
<1>1. /\ Here(what)' = Here(what) \ {Len(frames)}
      /\ HereUnread(what)' = HereUnread(what) \ {Len(frames)}
  BY FrontHere
<1>2. /\ OnTop(Here(what)') = OnTop(Here(what)) \ {Inner}
      /\ OnTop(HereUnread(what)') = OnTop(HereUnread(what)) \ {Inner}
  BY <1>1 DEF OnTop, Inner
<1>3. Inner \notin Left(what) /\ Inner \notin LeftUnread(what)
  BY DEF Inner, Left, LeftUnread, AwayPlaces, TypeInv
<1> QED
  BY <1>2, <1>3, ActiveParts, ActivePartsStay

-----------------------------------------------------------------------------
(* Interrupts come in                                                      *)

\* Only when all is set up for them.
LEMMA InterruptedLate ==
    ASSUME IInv, iflag \/ Len(frames) > 1
    PROVE  boot \in {"window", "up"}
<1>1. ~(~iflag /\ Len(frames) = 1)
  <2>1. Len(frames) = 1 => ~(Len(frames) > 1)
    OBVIOUS
  <2> QED
    BY <2>1, Zenon
<1>2. boot \in Stages
  BY <1>1, Zenon DEF IInv, TypeInv, BootInv
<1>3. \/ Stage[boot] <= 11
      \/ boot \in {"window", "up"}
  BY <1>2 DEF Stage, Stages
<1>4. Stage[boot] <= 11 => ~iflag /\ Len(frames) = 1
  BY <1>2, Zenon DEF IInv, BootInv
<1> QED
  BY <1>1, <1>3, <1>4

LEMMA AcceptRight ==
    ASSUME IInv, NEW n \in Lines, Accept(n)
    PROVE  IInv'
<1>1. iflag /\ boot \in {"window", "up"} /\ n \in pic.irr
  BY InterruptedLate DEF Accept, Pending, Deliverable
<1>2. /\ ready = {"tss", "idt", "paging", "processes"} /\ gates = Lines /\ pic.on
  BY <1>1, Running
<1> DEFINE f == IF n = RTC_IRQ THEN Frame("rtc", "ack", iflag)
                ELSE Frame("keyboard", "inb", iflag)
           taken == IF n < 8 THEN {n} ELSE {n, CASCADE_IRQ}
<1>3. /\ frames' = Append(frames, f) /\ iflag' = (n = RTC_IRQ)
      /\ pic' = [pic EXCEPT !.irr = @ \ {n}, !.isr = @ \cup taken]
      /\ UNCHANGED <<load, boot, fs_img, gates, ready, rtc, key, away, active>>
  BY <1>2 DEF Accept
<1>4. /\ f \in FrameType
      /\ n = RTC_IRQ => f.what = "rtc" /\ f.pc = "ack"
      /\ n = KEYBOARD_IRQ => f.what = "keyboard" /\ f.pc = "inb"
  BY DEF FrameType, Frame, Kinds, Pcs, IInv, TypeInv, RTC_IRQ, KEYBOARD_IRQ
<1>5. /\ taken \subseteq IRQs
      /\ n = RTC_IRQ => taken = {RTC_IRQ, CASCADE_IRQ}
      /\ n = KEYBOARD_IRQ => taken = {KEYBOARD_IRQ}
  BY DEF Lines, IRQs, RTC_IRQ, KEYBOARD_IRQ, CASCADE_IRQ
<1> HIDE DEF f, taken
<1>6. /\ frames' \in Seq(FrameType)
      /\ Len(frames') = Len(frames) + 1
      /\ \A i \in 1 .. Len(frames) : frames'[i] = frames[i]
      /\ frames'[Len(frames) + 1] = f
  BY <1>3, <1>4, AppendChanges DEF IInv
<1>7. /\ pic' \in [on : BOOLEAN, masked : SUBSET IRQs, irr : SUBSET IRQs, isr : SUBSET IRQs]
      /\ pic'.on = pic.on /\ pic'.masked = pic.masked
      /\ pic'.irr = pic.irr \ {n} /\ pic'.isr = pic.isr \cup taken
  BY <1>3, <1>5 DEF IInv, TypeInv
<1>8. TypeInv'
  <2>1. frames' \in Seq(FrameType) /\ Len(frames') > 0 /\ iflag' \in BOOLEAN
    BY <1>3, <1>6 DEF IInv, TypeInv
  <2> QED
    BY <1>3, <1>7, <2>1 DEF IInv, TypeInv
<1>9. StackInv'
  <2>1. Len(frames) \in Nat /\ Len(frames) > 0
    BY DEF IInv, TypeInv
  <2>2. \A i \in 1 .. Len(frames) : ~(frames[i].what = "keyboard" /\ Waiting(frames[i]))
    BY <1>1 DEF IInv, StackInv
  <2>3. f.what \in {"rtc", "keyboard"} /\ (f.what = "keyboard" => iflag' = FALSE)
    BY <1>3, <1>4 DEF Lines, RTC_IRQ, KEYBOARD_IRQ
  <2> QED
    BY <1>6, <2>1, <2>2, <2>3 DEF IInv, StackInv, Waiting
<1>10. BootInv'
  BY <1>1, <1>3, <1>7, BootStays DEF bootVars
<1>11. NothingLost'
  <2>1. /\ \A what \in {"rtc", "keyboard"} : \A i, j \in Active(what) : i = j
        /\ pic.isr = (IF Active("rtc") # {} THEN {RTC_IRQ, CASCADE_IRQ} ELSE {})
                     \cup (IF Active("keyboard") # {} THEN {KEYBOARD_IRQ} ELSE {})
        /\ rtc.C => RTC_IRQ \in pic.irr \/ Unread("rtc") # {}
        /\ key.full => KEYBOARD_IRQ \in pic.irr \/ Unread("keyboard") # {}
    BY <1>1 DEF IInv, NothingLost
  <2>2. \A what \in {"rtc", "keyboard"} :
           /\ Active(what)' = Active(what) \cup
                 {p \in {Deeper} : f.what = what /\ Waiting(f)}
           /\ Unread(what)' = Unread(what) \cup
                 {p \in {Deeper} : f.what = what /\ Waiting(f) /\ f.pc # "eoi"}
    BY <1>3, <1>4, AppendActive DEF IInv
  <2>3. CASE n = RTC_IRQ
    <3>1. Active("rtc") = {} /\ Active("keyboard") = {}
      <4>1. pic.isr = {}
        BY <2>3, <1>3 DEF Accept, Pending, Deliverable
      <4> QED
        BY <4>1, <2>1
    <3>2. /\ Active("rtc")' = {Deeper} /\ Unread("rtc")' = {Deeper}
          /\ Active("keyboard")' = {} /\ Unread("keyboard")' = Unread("keyboard")
      BY <1>4, <2>2, <2>3, <3>1 DEF Waiting, Unread
    <3>3. pic'.isr = {RTC_IRQ, CASCADE_IRQ} /\ (KEYBOARD_IRQ \in pic.irr => KEYBOARD_IRQ \in pic'.irr)
      BY <1>5, <1>7, <2>1, <2>3, <3>1 DEF RTC_IRQ, KEYBOARD_IRQ
    <3> QED
      BY <1>3, <2>1, <3>2, <3>3 DEF NothingLost
  <2>4. CASE n = KEYBOARD_IRQ
    <3>1. Active("keyboard") = {}
      <4>1. KEYBOARD_IRQ \notin pic.isr
        BY <2>4 DEF Accept, Pending, Deliverable
      <4> QED
        BY <4>1, <2>1
    <3>2. /\ Active("keyboard")' = {Deeper} /\ Unread("keyboard")' = {Deeper}
          /\ Active("rtc")' = Active("rtc") /\ Unread("rtc")' = Unread("rtc")
      BY <1>4, <2>2, <2>4, <3>1 DEF Waiting, Unread
    <3>3. /\ pic'.isr = (IF Active("rtc") # {} THEN {RTC_IRQ, CASCADE_IRQ} ELSE {}) \cup {KEYBOARD_IRQ}
          /\ (RTC_IRQ \in pic.irr => RTC_IRQ \in pic'.irr)
      BY <1>5, <1>7, <2>1, <2>4, <3>1 DEF RTC_IRQ, KEYBOARD_IRQ
    <3> QED
      BY <1>3, <2>1, <3>2, <3>3 DEF NothingLost
  <2> QED
    BY <2>3, <2>4 DEF Lines
<1> QED
  BY <1>8, <1>9, <1>10, <1>11 DEF IInv

-----------------------------------------------------------------------------
(* Programs and handlers                                                   *)

\* What a step that moves the innermost frame on has to show.
LEMMA StepKeeps ==
    ASSUME IInv, boot \in {"window", "up"}, NEW pc \in Pcs, Moved(pc), UNCHANGED bootVars,
           pic' \in [on : BOOLEAN, masked : SUBSET IRQs, irr : SUBSET IRQs, isr : SUBSET IRQs],
           rtc' \in [B : BOOLEAN, C : BOOLEAN],
           key' \in [full : BOOLEAN, pressed : Nat],
           iflag' \in BOOLEAN,
           active' \in Nat,
           pic'.on = pic.on, pic'.masked = pic.masked, rtc'.B = rtc.B,
           Top.what = "keyboard" /\ pc \in {"inb", "eoi"} => ~iflag'
    PROVE  TypeInv' /\ StackInv' /\ BootInv'
<1>1. /\ frames' \in Seq(FrameType)
      /\ Len(frames') = Len(frames)
      /\ \A i \in 1 .. Len(frames) - 1 : frames'[i] = frames[i]
      /\ \A i \in 1 .. Len(frames) : frames'[i].what = frames[i].what
      /\ frames'[Len(frames)].pc = pc
  BY GotoChanges DEF IInv, Moved
<1>2. frames \in Seq(FrameType) /\ Len(frames) > 0
  BY DEF IInv, TypeInv
<1>3. load' = load /\ boot' = boot /\ fs_img' = fs_img /\ gates' = gates /\ ready' = ready
  BY DEF bootVars
<1>8. away' = away
  BY DEF Moved
<1>4. frames' \in Seq(FrameType) /\ Len(frames') > 0
  BY <1>1, <1>2
<1>5. TypeInv'
  BY <1>3, <1>4, <1>8, Zenon DEF IInv, TypeInv
<1>6. StackInv'
  <2>1. frames'[1].what \in {"entry", "program"}
    BY <1>1, <1>2 DEF IInv, StackInv
  <2>2. \A i \in 2 .. Len(frames') : frames'[i].what \in {"rtc", "keyboard"}
    BY <1>1, <1>2 DEF IInv, StackInv
  <2>3. ASSUME NEW i \in 1 .. Len(frames'), frames'[i].what = "keyboard" /\ Waiting(frames'[i])
        PROVE  i = Len(frames') /\ ~iflag'
    <3>1. i = Len(frames)
      <4>1. SUFFICES ASSUME i # Len(frames) PROVE FALSE
        OBVIOUS
      <4>2. i \in 1 .. Len(frames) - 1 /\ frames'[i] = frames[i]
        BY <1>1, <1>2, <4>1
      <4>3. frames[i].what = "keyboard" /\ Waiting(frames[i])
        BY <2>3, <4>2 DEF Waiting
      <4> QED
        BY <1>2, <4>2, <4>3 DEF IInv, StackInv
    <3>2. Top.what = "keyboard" /\ pc \in {"inb", "eoi"}
      BY <1>1, <1>2, <2>3, <3>1 DEF Top, Waiting
    <3> QED
      BY <1>1, <3>1, <3>2
  <2> QED
    BY <2>1, <2>2, <2>3 DEF StackInv
<1>7. BootInv'
  BY <1>3, BootStays
<1> QED
  BY <1>5, <1>6, <1>7

\* A frame that moves on but not to or from the part that serves a device.
LEMMA NothingLostStays ==
    ASSUME IInv, boot \in {"window", "up"}, NEW pc \in Pcs, Moved(pc),
           UNCHANGED <<boot, pic, key>>, rtc'.C = rtc.C,
           ~Waiting(Top), pc \notin {"ack", "inb", "eoi"}
    PROVE  NothingLost'
<1>1. frames \in Seq(FrameType) /\ Len(frames) \in DOMAIN frames /\ Top \in FrameType
  BY TopType DEF IInv
<1>2. ~Waiting([Top EXCEPT !.pc = pc])
  BY <1>1 DEF Waiting, FrameType
<1>3. ASSUME NEW what PROVE Inner \notin Active(what)
  BY InnerTop, Zenon DEF Active
<1>4. ASSUME NEW what PROVE Active(what)' = Active(what) /\ Unread(what)' = Unread(what)
  <2>1. Inner \notin Active(what) /\ Inner \notin Unread(what)
    BY <1>3 DEF Unread
  <2>2. /\ Active(what)' = Active(what) \ {Inner}
        /\ Unread(what)' = Unread(what) \ {Inner}
    BY <1>2, GotoActive DEF IInv
  <2> QED
    BY <2>1, <2>2
<1> QED
  BY <1>4 DEF IInv, NothingLost

LEMMA CliStiRight == IInv /\ (Cli \/ Sti) => IInv'
<1> SUFFICES ASSUME IInv, Cli \/ Sti PROVE IInv'
  OBVIOUS
<1>1. PICK pc \in {"off", "run"} :
         /\ boot \in {"window", "up"} /\ Top.what = "program" /\ Moved(pc) /\ iflag' \in BOOLEAN
         /\ UNCHANGED <<bootVars, pic, rtc, key, active>>
  BY DEF Cli, Sti, Step, Goto, Moved, deviceVars
<1>2. pc \in Pcs /\ ~Waiting(Top) /\ UNCHANGED boot
  BY <1>1 DEF Pcs, Waiting, bootVars
<1>3. TypeInv' /\ StackInv' /\ BootInv'
  BY <1>1, <1>2, StepKeeps DEF IInv, TypeInv
<1>4. NothingLost'
  BY <1>1, <1>2, NothingLostStays
<1> QED
  BY <1>3, <1>4 DEF IInv

\* The frame of a program is alone.
LEMMA FaultRight == IInv /\ Fault => IInv'
<1> SUFFICES ASSUME IInv, Fault PROVE IInv'
  OBVIOUS
<1>1. /\ Top.what = "program" /\ boot' = "exception" /\ iflag' = FALSE
      /\ UNCHANGED <<load, fs_img, gates, ready, pic, rtc, key, frames, away, active>>
  BY DEF Fault, Step, deviceVars, stackVars
<1>2. Len(frames) = 1
  <2>1. Len(frames) \in Nat /\ Len(frames) > 0
    BY TopType DEF IInv
  <2>2. Len(frames) \in 2 .. Len(frames) => Top.what # "program"
    <3>1. \A i \in 2 .. Len(frames) : frames[i].what # "program"
      BY DEF IInv, StackInv
    <3> QED
      BY <3>1 DEF Top
  <2>3. Len(frames) \notin 2 .. Len(frames)
    BY <1>1, <2>2, Zenon
  <2>4. \A n \in Nat : n > 0 /\ n \notin 2 .. n => n = 1
    OBVIOUS
  <2> QED
    BY <2>1, <2>3, <2>4
<1>3. TypeInv'
  BY <1>1 DEF IInv, TypeInv, Stopped
<1>4. StackInv'
  BY <1>1 DEF IInv, StackInv, Waiting
<1>5. BootInv'
  BY <1>1, <1>2 DEF BootInv, Stopped, Stages
<1>6. NothingLost'
  BY <1>1 DEF NothingLost
<1> QED
  BY <1>3, <1>4, <1>5, <1>6 DEF IInv

\* A frame that moves on while it serves a device, or when it is done with that: it is
\* in progress, and the only one of its kind.
LEMMA ServingTop ==
    ASSUME IInv, boot \in {"window", "up"}, NEW pc \in Pcs, Moved(pc), Waiting(Top),
           NEW what \in {"rtc", "keyboard"}, Top.what = what,
           NEW other \in {"rtc", "keyboard"} \ {what}
    PROVE  /\ Active(what) = {Inner}
           /\ Active(what)' = IF Waiting([Top EXCEPT !.pc = pc]) THEN {Inner} ELSE {}
           /\ Unread(what)' = IF Waiting([Top EXCEPT !.pc = pc]) /\ pc # "eoi"
                              THEN {Inner} ELSE {}
           /\ Active(other)' = Active(other) /\ Unread(other)' = Unread(other)
<1>1. Len(frames) \in DOMAIN frames
  BY TopType DEF IInv
<1>2. Inner \in Active(what)
  <2>1. Len(frames) \in Here(what)
    BY <1>1 DEF Here, Top
  <2>2. Inner \in OnTop(Here(what))
    BY <2>1 DEF OnTop, Inner
  <2> QED
    BY <2>2, ActiveParts DEF IInv
<1>3. Active(what) = {Inner}
  BY <1>2 DEF IInv, NothingLost
<1>4. Unread(what) \subseteq {Inner}
  BY <1>3 DEF Unread
<1>5. Inner \notin Active(other) /\ Inner \notin Unread(other)
  <2>1. Top.what # other
    OBVIOUS
  <2> QED
    BY <2>1, InnerTop, Zenon DEF Active, Unread
<1>6. /\ Active(what)' = {p \in {Inner} : Waiting([Top EXCEPT !.pc = pc])}
      /\ Unread(what)' = {p \in {Inner} : Waiting([Top EXCEPT !.pc = pc]) /\ pc # "eoi"}
  BY <1>3, <1>4, GotoActive DEF IInv
<1>7. Active(other)' = Active(other) \ {Inner} /\ Unread(other)' = Unread(other) \ {Inner}
  <2>1. /\ Active(other)' = (Active(other) \ {Inner}) \cup
              {p \in {Inner} : Top.what = other /\ Waiting([Top EXCEPT !.pc = pc])}
        /\ Unread(other)' = (Unread(other) \ {Inner}) \cup
              {p \in {Inner} : /\ Top.what = other /\ Waiting([Top EXCEPT !.pc = pc])
                                     /\ pc # "eoi"}
    BY GotoActive DEF IInv
  <2>2. Top.what # other
    OBVIOUS
  <2> QED
    BY <2>1, <2>2
<1> QED
  BY <1>3, <1>5, <1>6, <1>7

\* In service and requested, as NothingLost has it, before a step of a handler.
LEMMA ServedBefore ==
    ASSUME IInv, boot \in {"window", "up"}
    PROVE  /\ \A what \in {"rtc", "keyboard"} : \A i, j \in Active(what) : i = j
           /\ pic.isr = (IF Active("rtc") # {} THEN {RTC_IRQ, CASCADE_IRQ} ELSE {})
                        \cup (IF Active("keyboard") # {} THEN {KEYBOARD_IRQ} ELSE {})
           /\ rtc.C => RTC_IRQ \in pic.irr \/ Unread("rtc") # {}
           /\ key.full => KEYBOARD_IRQ \in pic.irr \/ Unread("keyboard") # {}
BY DEF IInv, NothingLost

-----------------------------------------------------------------------------
(* Changes of stacks                                                       *)

\* The handlers in progress on a stack.
On(s, what)       == {i \in DOMAIN s : s[i].what = what /\ Waiting(s[i])}
OnUnread(s, what) == {i \in On(s, what) : s[i].pc # "eoi"}

LEMMA HereLeft ==
    ASSUME NEW what
    PROVE  /\ Here(what) = On(frames, what) /\ HereUnread(what) = OnUnread(frames, what)
           /\ Here(what)' = On(frames', what) /\ HereUnread(what)' = OnUnread(frames', what)
           /\ \A p : p \in Left(what) <=>
                 \E k \in 1 .. Len(away) : \E i \in On(away[k], what) : p = <<k, i>>
           /\ \A p : p \in LeftUnread(what) <=>
                 \E k \in 1 .. Len(away) : \E i \in OnUnread(away[k], what) : p = <<k, i>>
           /\ \A p : p \in Left(what)' <=>
                 \E k \in 1 .. Len(away') : \E i \in On(away'[k], what) : p = <<k, i>>
           /\ \A p : p \in LeftUnread(what)' <=>
                 \E k \in 1 .. Len(away') : \E i \in OnUnread(away'[k], what) : p = <<k, i>>
<1>1. /\ Here(what) = On(frames, what) /\ HereUnread(what) = OnUnread(frames, what)
      /\ Here(what)' = On(frames', what) /\ HereUnread(what)' = OnUnread(frames', what)
  BY DEF Here, HereUnread, On, OnUnread, Waiting
<1>2. \A p : p \in AwayPlaces <=> \E k \in 1 .. Len(away) : \E i \in DOMAIN away[k] : p = <<k, i>>
  BY DEF AwayPlaces
<1>3. \A p : p \in AwayPlaces' <=> \E k \in 1 .. Len(away') : \E i \in DOMAIN away'[k] : p = <<k, i>>
  BY DEF AwayPlaces
<1>4. \A p : p \in Left(what) <=>
                 \E k \in 1 .. Len(away) : \E i \in On(away[k], what) : p = <<k, i>>
  BY <1>2 DEF Left, On
<1>5. \A p : p \in LeftUnread(what) <=>
                 \E k \in 1 .. Len(away) : \E i \in OnUnread(away[k], what) : p = <<k, i>>
  BY <1>4 DEF LeftUnread, OnUnread, On
<1>6. \A p : p \in Left(what)' <=>
                 \E k \in 1 .. Len(away') : \E i \in On(away'[k], what) : p = <<k, i>>
  BY <1>3 DEF Left, On, Waiting
<1>7. \A p : p \in LeftUnread(what)' <=>
                 \E k \in 1 .. Len(away') : \E i \in OnUnread(away'[k], what) : p = <<k, i>>
  BY <1>6 DEF LeftUnread, OnUnread, On, Waiting
<1> QED
  BY <1>1, <1>4, <1>5, <1>6, <1>7

\* The innermost frame goes on, but not to or from the part that serves a device.
LEMMA QuietTop ==
    ASSUME TypeInv, NEW pc \in Pcs, ~Waiting(Top), pc \notin {"ack", "inb", "eoi"}, NEW what
    PROVE  /\ AtPc(pc) \in Seq(FrameType) /\ Len(AtPc(pc)) = Len(frames)
           /\ On(AtPc(pc), what) = On(frames, what)
           /\ OnUnread(AtPc(pc), what) = OnUnread(frames, what)
           /\ \A i \in 1 .. Len(frames) : AtPc(pc)[i].what = frames[i].what
           /\ \A i \in 1 .. Len(frames) - 1 : AtPc(pc)[i] = frames[i]
           /\ ~Waiting(AtPc(pc)[Len(frames)])
<1>1. /\ frames \in Seq(FrameType) /\ Len(frames) \in Nat /\ Len(frames) > 0
      /\ Len(frames) \in DOMAIN frames /\ Top \in FrameType
  BY TopType
<1>2. AtPc(pc) = [frames EXCEPT ![Len(frames)] = [Top EXCEPT !.pc = pc]]
  BY DEF AtPc, Top
<1>3. [Top EXCEPT !.pc = pc] \in FrameType /\ [Top EXCEPT !.pc = pc].pc = pc
      /\ [Top EXCEPT !.pc = pc].what = Top.what
  BY <1>1 DEF FrameType
<1>4. /\ AtPc(pc) \in Seq(FrameType) /\ Len(AtPc(pc)) = Len(frames)
      /\ DOMAIN AtPc(pc) = DOMAIN frames
      /\ \A i \in DOMAIN frames : i # Len(frames) => AtPc(pc)[i] = frames[i]
      /\ AtPc(pc)[Len(frames)] = [Top EXCEPT !.pc = pc]
  BY <1>1, <1>2, <1>3
<1>5. ~Waiting(AtPc(pc)[Len(frames)])
  BY <1>3, <1>4 DEF Waiting
<1>6. ~Waiting(frames[Len(frames)])
  BY DEF Top
<1>7. On(AtPc(pc), what) = On(frames, what)
  BY <1>4, <1>5, <1>6, Zenon DEF On
<1>8. \A i \in On(frames, what) : AtPc(pc)[i] = frames[i]
  BY <1>4, <1>6, Zenon DEF On
<1>9. OnUnread(AtPc(pc), what) = OnUnread(frames, what)
  BY <1>7, <1>8 DEF OnUnread
<1>10. \A i \in 1 .. Len(frames) : AtPc(pc)[i].what = frames[i].what
  <2>1. AtPc(pc)[Len(frames)].what = frames[Len(frames)].what
    BY <1>3, <1>4 DEF Top
  <2>2. \A i \in DOMAIN frames : AtPc(pc)[i].what = frames[i].what
    BY <1>4, <2>1, Zenon
  <2>3. DOMAIN frames = 1 .. Len(frames)
    BY <1>1
  <2> QED
    BY <2>2, <2>3, Zenon
<1>11. \A i \in 1 .. Len(frames) - 1 : AtPc(pc)[i] = frames[i]
  BY <1>1, <1>4
<1> QED
  BY <1>4, <1>5, <1>7, <1>9, <1>10, <1>11

\* H and L are the handlers on the stack in use and on the others, H2 and L2 those when
\* the stack in use becomes the k-th of the others and the k-th, if any, is used.
Exchanged(k, H, L, H2, L2) ==
    /\ k # 0
    /\ \A p \in L : p[1] # 0
    /\ \A i : i \in H2 <=> <<k, i>> \in L
    /\ \A p \in L : p[1] = k => \E i : p = <<k, i>>
    /\ \A p : p \in L2 <=> (p \in L /\ p[1] # k) \/ (\E i \in H : p = <<k, i>>)

\* Two stacks change places: as many handlers are in progress as before.
LEMMA Exchange ==
    ASSUME NEW k, NEW H, NEW L, NEW H2, NEW L2, Exchanged(k, H, L, H2, L2)
    PROVE  /\ OnTop(H2) \cup L2 = {} <=> OnTop(H) \cup L = {}
           /\ (\A p, q \in OnTop(H) \cup L : p = q) => (\A p, q \in OnTop(H2) \cup L2 : p = q)
<1> USE DEF Exchanged
<1>1. OnTop(H2) \cup L2 = {} <=> OnTop(H) \cup L = {}
  <2>1. OnTop(H2) = {} <=> H2 = {}
    BY DEF OnTop
  <2>2. OnTop(H) = {} <=> H = {}
    BY DEF OnTop
  <2>3. \A i \in H : <<k, i>> \in L2
    OBVIOUS
  <2>4. \A p \in L : p \in L2 \/ H2 # {}
    <3>1. SUFFICES ASSUME NEW p \in L, p[1] = k PROVE H2 # {}
      OBVIOUS
    <3>2. PICK i : p = <<k, i>>
      BY <3>1
    <3> QED
      BY <3>1, <3>2
  <2>5. \A p \in L2 : p \in L \/ H # {}
    OBVIOUS
  <2>6. OnTop(H2) \cup L2 = {} <=> H2 = {} /\ L2 = {}
    BY <2>1
  <2>7. OnTop(H) \cup L = {} <=> H = {} /\ L = {}
    BY <2>2
  <2>8. H2 = {} /\ L2 = {} => H = {} /\ L = {}
    BY <2>3, <2>4
  <2>9. H = {} /\ L = {} => H2 = {} /\ L2 = {}
    BY <2>5
  <2> QED
    BY <2>6, <2>7, <2>8, <2>9
<1>2. ASSUME \A p, q \in OnTop(H) \cup L : p = q,
             NEW p \in OnTop(H2) \cup L2, NEW q \in OnTop(H2) \cup L2
      PROVE  p = q
  <2>1. \A i \in H : <<0, i>> \in OnTop(H) \cup L
    BY DEF OnTop
  <2>2. ASSUME NEW i \in H, NEW r \in L PROVE FALSE
    <3>1. r = <<0, i>>
      BY <1>2, <2>1
    <3> QED
      BY <3>1
  <2>3. ASSUME NEW i \in H, NEW j \in H PROVE i = j
    <3>1. <<0, i>> = <<0, j>>
      BY <1>2, <2>1
    <3> QED
      BY <3>1
  <2>4. \A r, t \in L : r = t
    BY <1>2
  <2>5. ASSUME NEW r \in OnTop(H2) \cup L2
        PROVE  \/ \E i \in H : r = <<k, i>>
               \/ r \in L /\ r[1] # k
               \/ \E i : r = <<0, i>> /\ <<k, i>> \in L
    BY DEF OnTop
  <2>6. CASE L = {}
    <3>1. (\E i \in H : p = <<k, i>>) /\ (\E i \in H : q = <<k, i>>)
      BY <2>5, <2>6
    <3> QED
      BY <2>3, <3>1
  <2>7. CASE L # {}
    <3>1. PICK t \in L : TRUE
      BY <2>7
    <3>2. H = {}
      BY <2>2, <3>1
    <3>3. ASSUME NEW r \in OnTop(H2) \cup L2
          PROVE  \/ r = t /\ t[1] # k
                 \/ \E i : r = <<0, i>> /\ t = <<k, i>>
      BY <2>4, <2>5, <3>1, <3>2
    <3>4. (p = t /\ t[1] # k) \/ \E i : p = <<0, i>> /\ t = <<k, i>>
      BY <3>3
    <3>5. (q = t /\ t[1] # k) \/ \E i : q = <<0, i>> /\ t = <<k, i>>
      BY <3>3
    <3> QED
      BY <3>4, <3>5
  <2> QED
    BY <2>6, <2>7
<1> QED
  BY <1>1, <1>2

\* What NothingLost says holds on, when what is in progress moves to other places.
LEMMA NothingLostMoves ==
    ASSUME IInv, boot \in {"window", "up"}, UNCHANGED <<pic, rtc, key>>,
           \A what \in {"rtc", "keyboard"} :
              /\ Active(what)' = {} <=> Active(what) = {}
              /\ Unread(what)' = {} <=> Unread(what) = {}
              /\ (\A p, q \in Active(what) : p = q) => (\A p, q \in Active(what)' : p = q)
    PROVE  NothingLost'
BY DEF IInv, NothingLost

\* A stack left with an innermost frame that serves no device.
LEMMA LeftRight ==
    ASSUME IInv, NEW pc \in Pcs, ~Waiting(Top), pc \notin {"ack", "inb", "eoi"}
    PROVE  LeftBehind(AtPc(pc))
<1>1. /\ Len(AtPc(pc)) = Len(frames)
      /\ \A i \in 1 .. Len(frames) : AtPc(pc)[i].what = frames[i].what
      /\ \A i \in 1 .. Len(frames) - 1 : AtPc(pc)[i] = frames[i]
      /\ ~Waiting(AtPc(pc)[Len(frames)])
  BY QuietTop DEF IInv
<1>2. Len(frames) \in Nat /\ Len(frames) > 0
  BY TopType DEF IInv
<1>3. AtPc(pc)[1].what \in {"entry", "program"}
  BY <1>1, <1>2 DEF IInv, StackInv
<1>4. \A i \in 2 .. Len(frames) : AtPc(pc)[i].what \in {"rtc", "keyboard"}
  BY <1>1, <1>2 DEF IInv, StackInv
<1>5. ASSUME NEW i \in 1 .. Len(frames), AtPc(pc)[i].what = "keyboard", Waiting(AtPc(pc)[i])
      PROVE  FALSE
  <2>1. i # Len(frames)
    BY <1>1, <1>5
  <2>2. i \in 1 .. Len(frames) - 1
    BY <1>2, <2>1
  <2>3. frames[i].what = "keyboard" /\ Waiting(frames[i])
    <3>1. AtPc(pc)[i] = frames[i]
      BY <1>1, <2>2
    <3> QED
      BY <1>5, <3>1 DEF Waiting
  <2> QED
    BY <2>1, <2>3 DEF IInv, StackInv
<1> QED
  BY <1>1, <1>2, <1>3, <1>4, <1>5 DEF LeftBehind

LEMMA SwitchRight ==
    ASSUME IInv, AwayInv, boot \in {"window", "up"}, Top.what = "rtc", Top.pc = "end",
           UNCHANGED <<bootVars, pic, rtc, key>>, NEW k \in Others, process_switch(k)
    PROVE  IInv'
<1>1. /\ away \in Seq(Seq(FrameType)) /\ Len(away) \in Nat
      /\ k \in 1 .. Len(away) /\ k # 0 /\ away[k] \in Seq(FrameType) /\ LeftBehind(away[k])
      /\ frames' = away[k] /\ away' = [away EXCEPT ![k] = AtPc("cli")]
      /\ iflag' = iflag /\ active' = active
  BY DEF IInv, TypeInv, AwayInv, Others, process_switch
<1>2. "cli" \in Pcs /\ ~Waiting(Top) /\ "cli" \notin {"ack", "inb", "eoi"}
  BY DEF Pcs, Waiting
<1>3. /\ AtPc("cli") \in Seq(FrameType)
      /\ \A what : /\ On(AtPc("cli"), what) = On(frames, what)
                   /\ OnUnread(AtPc("cli"), what) = OnUnread(frames, what)
  BY <1>2, QuietTop DEF IInv
<1>4. /\ Len(away') = Len(away) /\ away'[k] = AtPc("cli")
      /\ \A j \in 1 .. Len(away) : j # k => away'[j] = away[j]
      /\ away' \in Seq(Seq(FrameType))
  BY <1>1, <1>3
<1>5. load' = load /\ boot' = boot /\ fs_img' = fs_img /\ gates' = gates /\ ready' = ready
      /\ pic' = pic /\ rtc' = rtc /\ key' = key
  BY DEF bootVars
<1>6. TypeInv'
  <2>1. Len(away[k]) > 0
    BY <1>1 DEF LeftBehind
  <2> QED
    BY <1>1, <1>4, <1>5, <2>1 DEF IInv, TypeInv
<1>7. StackInv'
  BY <1>1 DEF LeftBehind, StackInv, Waiting
<1>8. BootInv'
  BY <1>5, BootStays
<1>9. ASSUME NEW what \in {"rtc", "keyboard"}
      PROVE  /\ Active(what)' = {} <=> Active(what) = {}
             /\ (\A p, q \in Active(what) : p = q) => (\A p, q \in Active(what)' : p = q)
  <2>1. Active(what) = OnTop(Here(what)) \cup Left(what)
    BY ActiveParts DEF IInv
  <2>2. Active(what)' = OnTop(Here(what)') \cup Left(what)'
    BY <1>1, <1>4, ActivePartsNext
  <2>3. \A p \in Left(what) : p[1] # 0
    BY <1>1, HereLeft
  <2>4. \A i : i \in Here(what)' <=> <<k, i>> \in Left(what)
    BY <1>1, HereLeft
  <2>5. \A p \in Left(what) : p[1] = k => \E i : p = <<k, i>>
    BY HereLeft
  <2>6. \A p : p \in Left(what)' <=> (p \in Left(what) /\ p[1] # k) \/ (\E i \in Here(what) : p = <<k, i>>)
    BY <1>1, <1>3, <1>4, HereLeft
  <2>7. Exchanged(k, Here(what), Left(what), Here(what)', Left(what)')
    BY <1>1, <2>3, <2>4, <2>5, <2>6 DEF Exchanged
  <2>8. /\ OnTop(Here(what)') \cup Left(what)' = {} <=> OnTop(Here(what)) \cup Left(what) = {}
        /\ (\A p, q \in OnTop(Here(what)) \cup Left(what) : p = q)
              => (\A p, q \in OnTop(Here(what)') \cup Left(what)' : p = q)
    BY <2>7, Exchange, Zenon
  <2> QED
    BY <2>1, <2>2, <2>8
<1>10. ASSUME NEW what \in {"rtc", "keyboard"}
       PROVE  Unread(what)' = {} <=> Unread(what) = {}
  <2>1. Unread(what) = OnTop(HereUnread(what)) \cup LeftUnread(what)
    BY ActiveParts DEF IInv
  <2>2. Unread(what)' = OnTop(HereUnread(what)') \cup LeftUnread(what)'
    BY <1>1, <1>4, ActivePartsNext
  <2>3. \A p \in LeftUnread(what) : p[1] # 0
    BY <1>1, HereLeft
  <2>4. \A i : i \in HereUnread(what)' <=> <<k, i>> \in LeftUnread(what)
    BY <1>1, HereLeft
  <2>5. \A p \in LeftUnread(what) : p[1] = k => \E i : p = <<k, i>>
    BY HereLeft
  <2>6. \A p : p \in LeftUnread(what)' <=>
           (p \in LeftUnread(what) /\ p[1] # k) \/ (\E i \in HereUnread(what) : p = <<k, i>>)
    BY <1>1, <1>3, <1>4, HereLeft
  <2>7. Exchanged(k, HereUnread(what), LeftUnread(what), HereUnread(what)', LeftUnread(what)')
    BY <1>1, <2>3, <2>4, <2>5, <2>6 DEF Exchanged
  <2>8. /\ OnTop(HereUnread(what)') \cup LeftUnread(what)' = {} <=> OnTop(HereUnread(what)) \cup LeftUnread(what) = {}
        /\ (\A p, q \in OnTop(HereUnread(what)) \cup LeftUnread(what) : p = q)
              => (\A p, q \in OnTop(HereUnread(what)') \cup LeftUnread(what)' : p = q)
    BY <2>7, Exchange, Zenon
  <2> QED
    BY <2>1, <2>2, <2>8
<1>11. NothingLost'
  BY <1>5, <1>9, <1>10, NothingLostMoves
<1> QED
  BY <1>6, <1>7, <1>8, <1>11 DEF IInv

\* The stack of a program that has just been started.
LEMMA ShellStack ==
    /\ Shell \in Seq(FrameType) /\ Len(Shell) = 1 /\ Shell[1].what = "program"
    /\ \A what : what \in {"rtc", "keyboard"} => On(Shell, what) = {} /\ OnUnread(Shell, what) = {}
<1>1. Frame("program", "run", TRUE) \in FrameType /\ Frame("program", "run", TRUE).what = "program"
  BY DEF Frame, FrameType, Kinds, Pcs
<1>2. \A f \in FrameType : <<f>> \in Seq(FrameType) /\ Len(<<f>>) = 1 /\ <<f>>[1] = f
  OBVIOUS
<1>3. Shell \in Seq(FrameType) /\ Len(Shell) = 1 /\ Shell[1].what = "program"
  BY <1>1, <1>2, Zenon DEF Shell
<1>4. \A i \in DOMAIN Shell : i = 1
  BY <1>3
<1>5. \A what : what \in {"rtc", "keyboard"} => On(Shell, what) = {} /\ OnUnread(Shell, what) = {}
  BY <1>3, <1>4 DEF On, OnUnread
<1> QED
  BY <1>3, <1>5

LEMMA StartShellRight == IInv /\ StartShell => IInv'
<1> SUFFICES ASSUME IInv, StartShell PROVE IInv'
  OBVIOUS
<1> DEFINE k == Len(away) + 1
<1>1. /\ boot \in {"window", "up"} /\ Top.what = "keyboard" /\ Top.pc = "create"
      /\ boot' = "up" /\ frames' = Shell /\ away' = Append(away, AtPc("sti"))
      /\ UNCHANGED <<load, fs_img, gates, ready, pic, rtc, key, iflag, active>>
  BY DEF StartShell, Step, deviceVars
<1>2. "sti" \in Pcs /\ ~Waiting(Top) /\ "sti" \notin {"ack", "inb", "eoi"}
  BY <1>1 DEF Pcs, Waiting
<1>3. /\ AtPc("sti") \in Seq(FrameType)
      /\ \A what : /\ On(AtPc("sti"), what) = On(frames, what)
                   /\ OnUnread(AtPc("sti"), what) = OnUnread(frames, what)
  BY <1>2, QuietTop DEF IInv
<1>4. away \in Seq(Seq(FrameType)) /\ Len(away) \in Nat
  BY DEF IInv, TypeInv
<1>5. /\ away' \in Seq(Seq(FrameType)) /\ Len(away') = k /\ k # 0 /\ k \notin 1 .. Len(away)
      /\ 1 .. Len(away') = 1 .. Len(away) \cup {k} /\ Len(away') \in Nat
      /\ away'[k] = AtPc("sti") /\ \A j \in 1 .. Len(away) : away'[j] = away[j]
  BY <1>1, <1>3, <1>4
<1> HIDE DEF k
<1>6. TypeInv'
  <2>1. boot' \in Stages /\ frames' \in Seq(FrameType) /\ Len(frames') > 0
    BY <1>1, ShellStack DEF Stages
  <2> QED
    BY <1>1, <1>5, <2>1, Zenon DEF IInv, TypeInv
<1>7. StackInv'
  BY <1>1, ShellStack DEF StackInv
<1>8. BootInv'
  BY <1>1, BootStays
<1>9. ASSUME NEW what \in {"rtc", "keyboard"}
      PROVE  /\ Active(what)' = {} <=> Active(what) = {}
             /\ (\A p, q \in Active(what) : p = q) => (\A p, q \in Active(what)' : p = q)
  <2>1. Active(what) = OnTop(Here(what)) \cup Left(what)
    BY ActiveParts DEF IInv
  <2>2. Active(what)' = OnTop(Here(what)') \cup Left(what)'
    BY <1>5, ActivePartsNext
  <2>3. \A p \in Left(what) : p[1] # 0 /\ p[1] # k
    BY <1>4, <1>5, HereLeft
  <2>4. Here(what)' = {}
    BY <1>1, HereLeft, ShellStack
  <2>5. \A i : i \in Here(what)' <=> <<k, i>> \in Left(what)
    BY <2>3, <2>4
  <2>6. \A p : p \in Left(what)' <=> (p \in Left(what) /\ p[1] # k) \/ (\E i \in Here(what) : p = <<k, i>>)
    <3>1. \A p : p \in Left(what)' <=> \E j \in 1 .. Len(away') : \E i \in On(away'[j], what) : p = <<j, i>>
      BY HereLeft
    <3>2. \A p : p \in Left(what) <=> \E j \in 1 .. Len(away) : \E i \in On(away[j], what) : p = <<j, i>>
      BY HereLeft
    <3>3. On(away'[k], what) = Here(what) /\ \A j \in 1 .. Len(away) : On(away'[j], what) = On(away[j], what)
      BY <1>3, <1>5, HereLeft
    <3>4. \A p : p \in Left(what)' <=> p \in Left(what) \/ (\E i \in Here(what) : p = <<k, i>>)
      <4>1. \A p : p \in Left(what)' <=> \E j \in 1 .. Len(away) \cup {k} : \E i \in On(away'[j], what) : p = <<j, i>>
        BY <1>5, <3>1
      <4>2. \A p : p \in Left(what)' <=>
               \/ \E j \in 1 .. Len(away) : \E i \in On(away'[j], what) : p = <<j, i>>
               \/ \E i \in On(away'[k], what) : p = <<k, i>>
        BY <4>1, Zenon
      <4>3. \A p : (\E j \in 1 .. Len(away) : \E i \in On(away'[j], what) : p = <<j, i>>) <=> p \in Left(what)
        BY <3>2, <3>3, Zenon
      <4>4. On(away'[k], what) = Here(what)
        BY <3>3
      <4> QED
        BY <4>2, <4>3, <4>4, Zenon
    <3> QED
      BY <2>3, <3>4
  <2>7. Exchanged(k, Here(what), Left(what), Here(what)', Left(what)')
    BY <1>5, <2>3, <2>5, <2>6 DEF Exchanged
  <2>8. /\ OnTop(Here(what)') \cup Left(what)' = {} <=> OnTop(Here(what)) \cup Left(what) = {}
        /\ (\A p, q \in OnTop(Here(what)) \cup Left(what) : p = q)
              => (\A p, q \in OnTop(Here(what)') \cup Left(what)' : p = q)
    BY <2>7, Exchange, Zenon
  <2> QED
    BY <2>1, <2>2, <2>8
<1>10. ASSUME NEW what \in {"rtc", "keyboard"}
       PROVE  Unread(what)' = {} <=> Unread(what) = {}
  <2>1. Unread(what) = OnTop(HereUnread(what)) \cup LeftUnread(what)
    BY ActiveParts DEF IInv
  <2>2. Unread(what)' = OnTop(HereUnread(what)') \cup LeftUnread(what)'
    BY <1>5, ActivePartsNext
  <2>3. \A p \in LeftUnread(what) : p[1] # 0 /\ p[1] # k
    BY <1>4, <1>5, HereLeft
  <2>4. HereUnread(what)' = {}
    BY <1>1, HereLeft, ShellStack
  <2>5. \A i : i \in HereUnread(what)' <=> <<k, i>> \in LeftUnread(what)
    BY <2>3, <2>4
  <2>6. \A p : p \in LeftUnread(what)' <=>
           (p \in LeftUnread(what) /\ p[1] # k) \/ (\E i \in HereUnread(what) : p = <<k, i>>)
    <3>1. \A p : p \in LeftUnread(what)' <=> \E j \in 1 .. Len(away') : \E i \in OnUnread(away'[j], what) : p = <<j, i>>
      BY HereLeft
    <3>2. \A p : p \in LeftUnread(what) <=> \E j \in 1 .. Len(away) : \E i \in OnUnread(away[j], what) : p = <<j, i>>
      BY HereLeft
    <3>3. OnUnread(away'[k], what) = HereUnread(what) /\ \A j \in 1 .. Len(away) : OnUnread(away'[j], what) = OnUnread(away[j], what)
      BY <1>3, <1>5, HereLeft
    <3>4. \A p : p \in LeftUnread(what)' <=> p \in LeftUnread(what) \/ (\E i \in HereUnread(what) : p = <<k, i>>)
      <4>1. \A p : p \in LeftUnread(what)' <=> \E j \in 1 .. Len(away) \cup {k} : \E i \in OnUnread(away'[j], what) : p = <<j, i>>
        BY <1>5, <3>1
      <4>2. \A p : p \in LeftUnread(what)' <=>
               \/ \E j \in 1 .. Len(away) : \E i \in OnUnread(away'[j], what) : p = <<j, i>>
               \/ \E i \in OnUnread(away'[k], what) : p = <<k, i>>
        BY <4>1, Zenon
      <4>3. \A p : (\E j \in 1 .. Len(away) : \E i \in OnUnread(away'[j], what) : p = <<j, i>>) <=> p \in LeftUnread(what)
        BY <3>2, <3>3, Zenon
      <4>4. OnUnread(away'[k], what) = HereUnread(what)
        BY <3>3
      <4> QED
        BY <4>2, <4>3, <4>4, Zenon
    <3> QED
      BY <2>3, <3>4
  <2>7. Exchanged(k, HereUnread(what), LeftUnread(what), HereUnread(what)', LeftUnread(what)')
    BY <1>5, <2>3, <2>5, <2>6 DEF Exchanged
  <2>8. /\ OnTop(HereUnread(what)') \cup LeftUnread(what)' = {} <=> OnTop(HereUnread(what)) \cup LeftUnread(what) = {}
        /\ (\A p, q \in OnTop(HereUnread(what)) \cup LeftUnread(what) : p = q)
              => (\A p, q \in OnTop(HereUnread(what)') \cup LeftUnread(what)' : p = q)
    BY <2>7, Exchange, Zenon
  <2> QED
    BY <2>1, <2>2, <2>8
<1>11. NothingLost'
  BY <1>1, <1>9, <1>10, NothingLostMoves
<1> QED
  BY <1>6, <1>7, <1>8, <1>11 DEF IInv

LEMMA RtcHandlerRight == IInv /\ AwayInv /\ rtc_handler => IInv'
<1> SUFFICES ASSUME IInv, AwayInv, rtc_handler PROVE IInv'
  OBVIOUS
<1>1. /\ boot \in {"window", "up"} /\ Top.what = "rtc"
      /\ UNCHANGED <<bootVars, key, active>>
  BY DEF rtc_handler, Step, Goto, process_switch
<1>2. /\ boot' = boot /\ key' = key /\ active' = active /\ Top \in FrameType
      /\ rtc \in [B : BOOLEAN, C : BOOLEAN]
      /\ pic \in [on : BOOLEAN, masked : SUBSET IRQs, irr : SUBSET IRQs, isr : SUBSET IRQs]
      /\ key' \in [full : BOOLEAN, pressed : Nat] /\ iflag \in BOOLEAN
      /\ active' \in Nat
  <2>1. Top \in FrameType
    BY TopType DEF IInv
  <2>2. boot' = boot /\ key' = key /\ active' = active
    BY <1>1 DEF bootVars
  <2>3. /\ rtc \in [B : BOOLEAN, C : BOOLEAN]
        /\ pic \in [on : BOOLEAN, masked : SUBSET IRQs, irr : SUBSET IRQs, isr : SUBSET IRQs]
        /\ key \in [full : BOOLEAN, pressed : Nat] /\ iflag \in BOOLEAN
        /\ active \in Nat
    BY DEF IInv, TypeInv
  <2> QED
    BY <2>1, <2>2, <2>3
<1>3. \A pc : Waiting([Top EXCEPT !.pc = pc]) <=> pc \in {"ack", "eoi"}
  BY <1>1, <1>2 DEF Waiting, FrameType
<1>5. CASE Top.pc = "ack" /\ rtc' = ReadC(rtc) /\ Moved("eoi") /\ pic' = Lowered(pic, RTC_IRQ) /\ UNCHANGED iflag
  <2>1. "eoi" \in Pcs /\ Waiting(Top)
    BY <1>1, <1>5 DEF Pcs, Waiting
  <2>2. /\ rtc' \in [B : BOOLEAN, C : BOOLEAN]
        /\ rtc'.B = rtc.B /\ rtc'.C = FALSE
        /\ pic' \in [on : BOOLEAN, masked : SUBSET IRQs, irr : SUBSET IRQs, isr : SUBSET IRQs]
        /\ pic'.on = pic.on /\ pic'.masked = pic.masked /\ pic'.isr = pic.isr
        /\ pic'.irr = pic.irr \ {RTC_IRQ}
    <3>1. rtc' = [rtc EXCEPT !.C = FALSE] /\ pic' = [pic EXCEPT !.irr = @ \ {RTC_IRQ}]
      BY <1>5 DEF ReadC, Lowered
    <3> QED
      BY <1>2, <3>1
  <2>3. TypeInv' /\ StackInv' /\ BootInv'
    BY <1>1, <1>2, <1>5, <2>1, <2>2, StepKeeps
  <2>4. /\ Active("rtc")' = {Inner} /\ Active("rtc") = {Inner}
        /\ Active("keyboard")' = Active("keyboard") /\ Unread("keyboard")' = Unread("keyboard")
    BY <1>1, <1>3, <1>5, <2>1, ServingTop
  <2>5. KEYBOARD_IRQ \in pic.irr => KEYBOARD_IRQ \in pic'.irr
    BY <2>2 DEF KEYBOARD_IRQ, RTC_IRQ
  <2>6. NothingLost'
    BY <1>1, <1>2, <2>2, <2>4, <2>5, ServedBefore DEF NothingLost
  <2> QED
    BY <2>3, <2>6 DEF IInv
<1>6. CASE Top.pc = "eoi" /\ pic' = send_eoi(pic, RTC_IRQ) /\ Moved("sti") /\ UNCHANGED <<rtc, iflag>>
  <2>1. "sti" \in Pcs /\ Waiting(Top)
    BY <1>1, <1>6 DEF Pcs, Waiting
  <2>2. /\ pic' \in [on : BOOLEAN, masked : SUBSET IRQs, irr : SUBSET IRQs, isr : SUBSET IRQs]
        /\ pic'.on = pic.on /\ pic'.masked = pic.masked /\ pic'.irr = pic.irr
        /\ pic'.isr = pic.isr \ {RTC_IRQ, CASCADE_IRQ}
    BY <1>2, <1>6 DEF send_eoi, RTC_IRQ
  <2>3. TypeInv' /\ StackInv' /\ BootInv'
    BY <1>1, <1>2, <1>6, <2>1, <2>2, StepKeeps
  <2>4. /\ Active("rtc")' = {} /\ Active("rtc") = {Inner}
        /\ Active("keyboard")' = Active("keyboard") /\ Unread("keyboard")' = Unread("keyboard")
    BY <1>1, <1>3, <1>6, <2>1, ServingTop
  <2>5. Unread("rtc") = {} /\ Unread("rtc")' = {}
    BY <1>6, <2>4, InnerTop DEF Unread
  <2>6. pic'.isr = IF Active("keyboard") # {} THEN {KEYBOARD_IRQ} ELSE {}
    BY <1>1, <2>2, <2>4, ServedBefore DEF KEYBOARD_IRQ, RTC_IRQ, CASCADE_IRQ
  <2>7. NothingLost'
    BY <1>1, <1>2, <1>6, <2>2, <2>4, <2>5, <2>6, ServedBefore DEF NothingLost
  <2> QED
    BY <2>3, <2>7 DEF IInv
<1>7. CASE \E pc \in {"end", "iret"} :
              /\ Top.pc \in {"sti", "end", "cli"} /\ iflag' \in BOOLEAN /\ Moved(pc) /\ UNCHANGED <<pic, rtc>>
  <2>1. PICK pc \in {"end", "iret"} :
              /\ Top.pc \in {"sti", "end", "cli"} /\ iflag' \in BOOLEAN /\ Moved(pc) /\ UNCHANGED <<pic, rtc>>
    BY <1>7
  <2>2. pc \in Pcs /\ ~Waiting(Top) /\ pc \notin {"ack", "inb", "eoi"}
    BY <1>1, <2>1 DEF Pcs, Waiting
  <2>3. TypeInv' /\ StackInv' /\ BootInv'
    BY <1>1, <1>2, <2>1, <2>2, StepKeeps
  <2>4. NothingLost'
    BY <1>1, <1>2, <2>1, <2>2, NothingLostStays
  <2> QED
    BY <2>3, <2>4 DEF IInv
<1>8. rtc' = ReadC(rtc) => rtc'.C = FALSE
  BY <1>2 DEF ReadC
<1>9. CASE Top.pc = "end" /\ (\E k \in Others : process_switch(k)) /\ UNCHANGED <<pic, rtc>>
  BY <1>1, <1>9, SwitchRight
<1>10. \A pc : Goto(pc) => Moved(pc)
  BY DEF Goto, Moved
<1>11. \/ Top.pc = "ack" /\ rtc' = ReadC(rtc) /\ Moved("eoi") /\ pic' = Lowered(pic, RTC_IRQ) /\ UNCHANGED iflag
       \/ Top.pc = "eoi" /\ pic' = send_eoi(pic, RTC_IRQ) /\ Moved("sti") /\ UNCHANGED <<rtc, iflag>>
       \/ Top.pc = "sti" /\ iflag' = TRUE /\ Moved("end") /\ UNCHANGED <<pic, rtc>>
       \/ Top.pc \in {"end", "cli"} /\ iflag' \in BOOLEAN /\ Moved("iret") /\ UNCHANGED <<pic, rtc>>
       \/ Top.pc = "end" /\ (\E k \in Others : process_switch(k)) /\ UNCHANGED <<pic, rtc>>
  BY <1>2, <1>8, <1>10 DEF rtc_handler, Step
<1> QED
  BY <1>5, <1>6, <1>7, <1>9, <1>11

LEMMA ReadKeyRight == IInv /\ ReadKey => IInv'
<1> SUFFICES ASSUME IInv, ReadKey PROVE IInv'
  OBVIOUS
<1>1. /\ boot \in {"window", "up"} /\ Top.what = "keyboard"
      /\ UNCHANGED <<bootVars, rtc>> /\ active' \in {active, active + 1}
  BY DEF ReadKey, Step, Goto
<1>2. /\ boot' = boot /\ rtc' = rtc /\ Top \in FrameType
      /\ key \in [full : BOOLEAN, pressed : Nat]
      /\ pic \in [on : BOOLEAN, masked : SUBSET IRQs, irr : SUBSET IRQs, isr : SUBSET IRQs]
      /\ rtc' \in [B : BOOLEAN, C : BOOLEAN]
      /\ iflag \in BOOLEAN /\ active' \in Nat
  <2>1. Top \in FrameType
    BY TopType DEF IInv
  <2>2. boot' = boot /\ rtc' = rtc /\ active' \in Nat
    BY <1>1 DEF bootVars, IInv, TypeInv
  <2>3. /\ rtc \in [B : BOOLEAN, C : BOOLEAN]
        /\ pic \in [on : BOOLEAN, masked : SUBSET IRQs, irr : SUBSET IRQs, isr : SUBSET IRQs]
        /\ key \in [full : BOOLEAN, pressed : Nat] /\ iflag \in BOOLEAN
        /\ active \in Nat
    BY DEF IInv, TypeInv
  <2> QED
    BY <2>1, <2>2, <2>3
<1>3. \A pc : Waiting([Top EXCEPT !.pc = pc]) <=> pc \in {"inb", "eoi"}
  BY <1>1, <1>2 DEF Waiting, FrameType
<1>4. CASE /\ Top.pc = "inb" /\ key' = [key EXCEPT !.full = FALSE] /\ Moved("eoi")
           /\ pic' = Lowered(pic, KEYBOARD_IRQ) /\ UNCHANGED iflag
  <2>1. "eoi" \in Pcs /\ Waiting(Top)
    BY <1>1, <1>4 DEF Pcs, Waiting
  <2>2. /\ key' \in [full : BOOLEAN, pressed : Nat] /\ key'.full = FALSE
        /\ pic' \in [on : BOOLEAN, masked : SUBSET IRQs, irr : SUBSET IRQs, isr : SUBSET IRQs]
        /\ pic'.on = pic.on /\ pic'.masked = pic.masked /\ pic'.isr = pic.isr
        /\ pic'.irr = pic.irr \ {KEYBOARD_IRQ}
    <3>1. pic' = [pic EXCEPT !.irr = @ \ {KEYBOARD_IRQ}]
      BY <1>4 DEF Lowered
    <3> QED
      BY <1>2, <1>4, <3>1
  <2>3. ~iflag'
    <3>1. Len(frames) \in 1 .. Len(frames)
      BY TopType DEF IInv
    <3>2. ~iflag
      BY <1>1, <2>1, <3>1 DEF IInv, StackInv, Top
    <3> QED
      BY <1>4, <3>2
  <2>4. TypeInv' /\ StackInv' /\ BootInv'
    BY <1>1, <1>2, <1>4, <2>1, <2>2, <2>3, StepKeeps
  <2>5. /\ Active("keyboard")' = {Inner} /\ Active("keyboard") = {Inner}
        /\ Active("rtc")' = Active("rtc") /\ Unread("rtc")' = Unread("rtc")
    BY <1>1, <1>3, <1>4, <2>1, ServingTop
  <2>6. RTC_IRQ \in pic.irr => RTC_IRQ \in pic'.irr
    BY <2>2 DEF KEYBOARD_IRQ, RTC_IRQ
  <2>7. NothingLost'
    <3>1. /\ \A what \in {"rtc", "keyboard"} : \A i, j \in Active(what) : i = j
          /\ pic.isr = (IF Active("rtc") # {} THEN {RTC_IRQ, CASCADE_IRQ} ELSE {})
                       \cup (IF Active("keyboard") # {} THEN {KEYBOARD_IRQ} ELSE {})
          /\ rtc.C => RTC_IRQ \in pic.irr \/ Unread("rtc") # {}
      BY <1>1, ServedBefore, Zenon
    <3>2. \A what \in {"rtc", "keyboard"} : Active(what)' = Active(what)
      BY <2>5
    <3>3. \A what \in {"rtc", "keyboard"} : \A i, j \in Active(what)' : i = j
      BY <3>1, <3>2, Zenon
    <3>4. pic'.isr = (IF Active("rtc")' # {} THEN {RTC_IRQ, CASCADE_IRQ} ELSE {})
                     \cup (IF Active("keyboard")' # {} THEN {KEYBOARD_IRQ} ELSE {})
      BY <2>2, <3>1, <3>2, Zenon
    <3>5. rtc'.C => RTC_IRQ \in pic'.irr \/ Unread("rtc")' # {}
      BY <1>2, <2>5, <2>6, <3>1, Zenon
    <3> QED
      BY <2>2, <3>3, <3>4, <3>5, Zenon DEF NothingLost
  <2> QED
    BY <2>4, <2>7 DEF IInv
<1>5. CASE \E pc \in {"sti", "iret", "create"} :
             /\ Top.pc = "eoi" /\ pic' = send_eoi(pic, KEYBOARD_IRQ) /\ Moved(pc)
             /\ key' = key /\ iflag' \in BOOLEAN
  <2>0. PICK pc \in {"sti", "iret", "create"} : Moved(pc)
    BY <1>5
  <2>1. pc \in Pcs /\ pc \notin {"inb", "eoi"} /\ Waiting(Top)
    BY <1>1, <1>5 DEF Pcs, Waiting
  <2>2. /\ pic' \in [on : BOOLEAN, masked : SUBSET IRQs, irr : SUBSET IRQs, isr : SUBSET IRQs]
        /\ pic'.on = pic.on /\ pic'.masked = pic.masked /\ pic'.irr = pic.irr
        /\ pic'.isr = pic.isr \ {KEYBOARD_IRQ}
    BY <1>2, <1>5 DEF send_eoi, KEYBOARD_IRQ
  <2>3. TypeInv' /\ StackInv' /\ BootInv'
    BY <1>1, <1>2, <1>5, <2>0, <2>1, <2>2, StepKeeps
  <2>4. /\ Active("keyboard")' = {} /\ Active("keyboard") = {Inner}
        /\ Active("rtc")' = Active("rtc") /\ Unread("rtc")' = Unread("rtc")
    BY <1>1, <1>3, <2>0, <2>1, ServingTop
  <2>5. Unread("keyboard") = {} /\ Unread("keyboard")' = {}
    BY <1>5, <2>4, InnerTop DEF Unread
  <2>6. pic'.isr = IF Active("rtc") # {} THEN {RTC_IRQ, CASCADE_IRQ} ELSE {}
    BY <1>1, <2>2, <2>4, ServedBefore DEF KEYBOARD_IRQ, RTC_IRQ, CASCADE_IRQ
  <2>7. NothingLost'
    BY <1>1, <1>2, <1>5, <2>2, <2>4, <2>5, <2>6, ServedBefore DEF NothingLost
  <2> QED
    BY <2>3, <2>7 DEF IInv
<1>6. CASE Top.pc = "sti" /\ iflag' = TRUE /\ Moved("iret") /\ UNCHANGED <<key, pic>>
  <2>1. "iret" \in Pcs /\ ~Waiting(Top) /\ "iret" \notin {"ack", "inb", "eoi"}
    BY <1>1, <1>6 DEF Pcs, Waiting
  <2>2. TypeInv' /\ StackInv' /\ BootInv'
    BY <1>1, <1>2, <1>6, <2>1, StepKeeps
  <2>3. NothingLost'
    BY <1>1, <1>2, <1>6, <2>1, NothingLostStays
  <2> QED
    BY <2>2, <2>3 DEF IInv
<1>7. \A pc : Goto(pc) => Moved(pc)
  BY DEF Goto, Moved
<1>8. \/ /\ Top.pc = "inb" /\ key' = [key EXCEPT !.full = FALSE] /\ Moved("eoi")
         /\ pic' = Lowered(pic, KEYBOARD_IRQ) /\ UNCHANGED iflag
      \/ /\ Top.pc = "eoi" /\ pic' = send_eoi(pic, KEYBOARD_IRQ)
         /\ Moved("sti") \/ Moved("iret") \/ Moved("create")
         /\ key' = key /\ iflag' \in BOOLEAN
      \/ Top.pc = "sti" /\ iflag' = TRUE /\ Moved("iret") /\ UNCHANGED <<key, pic>>
  BY <1>2, <1>7 DEF ReadKey, Step, Moved
<1> QED
  BY <1>4, <1>5, <1>6, <1>8

LEMMA RefuseShellRight == IInv /\ RefuseShell => IInv'
<1> SUFFICES ASSUME IInv, RefuseShell PROVE IInv'
  OBVIOUS
<1>1. /\ boot \in {"window", "up"} /\ Top.what = "keyboard" /\ Top.pc = "create"
      /\ UNCHANGED <<bootVars, pic, rtc, key, active>> /\ iflag' \in BOOLEAN /\ Moved("sti")
  BY DEF RefuseShell, Step, Goto, Moved, deviceVars
<1>2. "sti" \in Pcs /\ ~Waiting(Top) /\ UNCHANGED boot
  BY <1>1 DEF Pcs, Waiting, bootVars
<1>3. TypeInv' /\ StackInv' /\ BootInv'
  BY <1>1, <1>2, StepKeeps DEF IInv, TypeInv
<1>4. NothingLost'
  BY <1>1, <1>2, NothingLostStays
<1> QED
  BY <1>3, <1>4 DEF IInv

LEMMA IretRight == IInv /\ Iret => IInv'
<1> SUFFICES ASSUME IInv, Iret PROVE IInv'
  OBVIOUS
<1>1. /\ boot \in {"window", "up"} /\ Top.what \in {"rtc", "keyboard"} /\ ~Waiting(Top)
      /\ iflag' = Top.if /\ frames' = SubSeq(frames, 1, Len(frames) - 1)
      /\ UNCHANGED <<load, boot, fs_img, gates, ready, pic, rtc, key, away, active>>
  BY DEF Iret, Step, Waiting, bootVars, deviceVars
<1>2. Top \in FrameType /\ Len(frames) \in Nat /\ Len(frames) > 0
  BY TopType DEF IInv
<1>3. Len(frames) > 1
  <2>1. Len(frames) # 1
    <3>1. frames[1].what \notin {"rtc", "keyboard"}
      BY DEF IInv, StackInv
    <3>2. frames[Len(frames)].what \in {"rtc", "keyboard"}
      BY <1>1 DEF Top
    <3> QED
      BY <3>1, <3>2, Zenon
  <2>2. \A n \in Nat : n > 0 /\ n # 1 => n > 1
    OBVIOUS
  <2> QED
    BY <1>2, <2>1, <2>2
<1>4. /\ frames' \in Seq(FrameType)
      /\ Len(frames') = Len(frames) - 1
      /\ \A i \in 1 .. Len(frames) - 1 : frames'[i] = frames[i]
  BY <1>1, <1>3, FrontChanges DEF IInv
<1>5. TypeInv'
  <2>1. iflag' \in BOOLEAN
    BY <1>1, <1>2 DEF FrameType
  <2>2. frames' \in Seq(FrameType) /\ Len(frames') > 0
    BY <1>2, <1>3, <1>4
  <2> QED
    BY <1>1, <2>1, <2>2 DEF IInv, TypeInv
<1>6. StackInv'
  <2>1. \A i \in 1 .. Len(frames) : ~(frames[i].what = "keyboard" /\ Waiting(frames[i]))
    <3>1. \A i \in 1 .. Len(frames) :
             frames[i].what = "keyboard" /\ Waiting(frames[i]) => i = Len(frames)
      BY DEF IInv, StackInv
    <3>2. ~Waiting(frames[Len(frames)])
      BY <1>1 DEF Top
    <3> QED
      BY <3>1, <3>2 DEF Waiting
  <2>2. \A i \in 1 .. Len(frames') : frames'[i] = frames[i] /\ i \in 1 .. Len(frames)
    BY <1>2, <1>4
  <2> QED
    BY <1>2, <1>3, <1>4, <2>1, <2>2 DEF IInv, StackInv, Waiting
<1>7. BootInv'
  BY <1>1, BootStays DEF bootVars
<1>8. ASSUME NEW what PROVE Active(what)' = Active(what) /\ Unread(what)' = Unread(what)
  <2>1. Inner \notin Active(what) /\ Inner \notin Unread(what)
    BY <1>1, InnerTop, Zenon DEF Active, Unread
  <2> QED
    BY <1>1, <1>3, <2>1, FrontActive, ZenonT(40) DEF IInv
<1>9. NothingLost'
  BY <1>1, <1>8 DEF IInv, NothingLost
<1> QED
  BY <1>5, <1>6, <1>7, <1>9 DEF IInv

LEMMA StutterRight == IInv /\ UNCHANGED vars => IInv'
<1> SUFFICES ASSUME IInv, UNCHANGED vars PROVE IInv'
  OBVIOUS
<1>1. UNCHANGED <<load, boot, fs_img, gates, ready, pic, rtc, key, iflag, frames, away, active>>
  BY DEF vars, bootVars, deviceVars, stackVars
<1>2. TypeInv'
  BY <1>1 DEF IInv, TypeInv
<1>3. StackInv'
  BY <1>1 DEF IInv, StackInv, Waiting
<1>4. BootInv'
  BY <1>1 DEF IInv, BootInv, Bootable, blk_start
<1>5. NothingLost'
  BY <1>1, PlacesStay DEF IInv, NothingLost
<1> QED
  BY <1>2, <1>3, <1>4, <1>5 DEF IInv

-----------------------------------------------------------------------------
(* The steps of entry()                                                    *)

\* Before interrupts are on, nothing of NothingLost can be wrong; the frames stay.
LEMMA QuietStep ==
    ASSUME IInv, boot \in Stages \ {"window", "up"}, UNCHANGED frames,
           boot' \in (Stages \ {"window", "up"}) \cup Stopped
    PROVE  StackInv' /\ NothingLost'
<1>1. Len(frames) = 1 /\ ~iflag
  <2>1. ~(Len(frames) > 1) /\ ~iflag
    BY InterruptedLate
  <2>2. Len(frames) \in Nat /\ Len(frames) > 0
    BY TopType DEF IInv
  <2>3. \A n \in Nat : n > 0 /\ ~(n > 1) => n = 1
    OBVIOUS
  <2> QED
    BY <2>1, <2>2, <2>3
<1>2. StackInv'
  <2>1. \A i \in 1 .. Len(frames) : frames[i].what \in {"entry", "program"}
    BY <1>1 DEF IInv, StackInv
  <2> QED
    BY <1>1, <2>1 DEF IInv, StackInv
<1>3. NothingLost'
  BY DEF NothingLost, Stages, Stopped
<1> QED
  BY <1>2, <1>3

LEMMA CheckRight == IInv /\ check => IInv'
<1> SUFFICES ASSUME IInv, check PROVE IInv'
  OBVIOUS
<1>1. /\ boot = "check" /\ Len(frames) = 1
      /\ boot' = IF load.magic /\ ~load.both THEN "descriptors" ELSE "halted"
      /\ UNCHANGED <<load, fs_img, gates, ready, pic, rtc, key, iflag, frames, away, active>>
  BY DEF check, Entry, deviceVars, stackVars, NextStep, After
<1>2. TypeInv'
  BY <1>1 DEF IInv, TypeInv, Stages, Stopped
<1>3. StackInv' /\ NothingLost'
  BY <1>1, QuietStep DEF Stages, Stopped
<1>4. BootInv'
  BY <1>1 DEF IInv, BootInv, Stage, Stages, Stopped, Bootable, blk_start
<1> QED
  BY <1>2, <1>3, <1>4 DEF IInv

LEMMA TablesRight == IInv /\ (descriptors \/ initialize_idt \/ paging_init \/ processes_init) => IInv'
<1> SUFFICES ASSUME IInv, descriptors \/ initialize_idt \/ paging_init \/ processes_init PROVE IInv'
  OBVIOUS
<1>1. /\ boot \in {"descriptors", "idt", "paging", "processes"} /\ Len(frames) = 1
      /\ boot' = NextStep /\ gates' = (IF boot = "idt" THEN {RTC_IRQ, KEYBOARD_IRQ} ELSE gates)
      /\ ready' = ready \cup {IF boot = "descriptors" THEN "tss" ELSE boot}
      /\ UNCHANGED <<load, fs_img, pic, rtc, key, iflag, frames, away, active>>
  BY DEF descriptors, initialize_idt, paging_init, processes_init, Entry, deviceVars, stackVars
<1>2. boot' \in {"idt", "pic", "fs", "create"}
  BY <1>1 DEF NextStep, After
<1>3. TypeInv'
  <2>1. boot' \in Stages /\ gates' \subseteq Lines /\ ready' \subseteq {"tss", "idt", "paging", "processes"}
    BY <1>1, <1>2 DEF IInv, TypeInv, Stages, Lines
  <2> QED
    BY <1>1, <2>1, Zenon DEF IInv, TypeInv
<1>4. StackInv' /\ NothingLost'
  BY <1>1, <1>2, QuietStep DEF Stages, Stopped
<1>5. BootInv'
  BY <1>1 DEF IInv, BootInv, Stage, Stages, Stopped, Bootable, blk_start, NextStep, After, Lines
<1> QED
  BY <1>3, <1>4, <1>5 DEF IInv

LEMMA InitPicRight == IInv /\ initPic => IInv'
<1> SUFFICES ASSUME IInv, initPic PROVE IInv'
  OBVIOUS
<1>1. /\ boot = "pic" /\ Len(frames) = 1 /\ boot' = "paging"
      /\ pic' = [on |-> TRUE, masked |-> IRQs \ {CASCADE_IRQ}, irr |-> {}, isr |-> {}]
      /\ UNCHANGED <<load, fs_img, gates, ready, rtc, key, iflag, frames, away, active>>
  BY DEF initPic, i8259_init, stackVars, Entry, NextStep, After
<1>2. TypeInv'
  BY <1>1 DEF IInv, TypeInv, Stages, Stopped, IRQs
<1>3. StackInv' /\ NothingLost'
  BY <1>1, QuietStep DEF Stages, Stopped
<1>4. BootInv'
  BY <1>1 DEF IInv, BootInv, Stage, Stages, Stopped, Bootable, blk_start
<1> QED
  BY <1>2, <1>3, <1>4 DEF IInv

LEMMA FsInitRight == IInv /\ fs_init => IInv'
<1> SUFFICES ASSUME IInv, fs_init PROVE IInv'
  OBVIOUS
<1>1. /\ boot = "fs" /\ Len(frames) = 1 /\ boot' = "rtc_B" /\ fs_img' = blk_start
      /\ UNCHANGED <<load, gates, ready, pic, rtc, key, iflag, frames, away, active>>
  BY DEF fs_init, Entry, deviceVars, stackVars, NextStep, After
<1>2. TypeInv'
  BY <1>1 DEF IInv, TypeInv, Stages, Stopped, blk_start
<1>3. StackInv' /\ NothingLost'
  BY <1>1, QuietStep DEF Stages, Stopped
<1>4. BootInv'
  BY <1>1 DEF IInv, BootInv, Stage, Stages, Stopped, Bootable, blk_start
<1> QED
  BY <1>2, <1>3, <1>4 DEF IInv

LEMMA RtcInitRight == IInv /\ rtc_init => IInv'
<1> SUFFICES ASSUME IInv, rtc_init PROVE IInv'
  OBVIOUS
<1>1. /\ boot \in {"rtc_B", "rtc_C"} /\ Len(frames) = 1 /\ boot' = NextStep
      /\ UNCHANGED <<load, fs_img, gates, ready, key, iflag, frames, away, active>>
  BY DEF rtc_init, stackVars, Entry
<1>2. boot' \in {"rtc_C", "keyboard"}
  BY <1>1 DEF NextStep, After
<1>3. /\ rtc \in [B : BOOLEAN, C : BOOLEAN]
      /\ pic \in [on : BOOLEAN, masked : SUBSET IRQs, irr : SUBSET IRQs, isr : SUBSET IRQs]
  BY DEF IInv, TypeInv
<1>4. /\ rtc' \in [B : BOOLEAN, C : BOOLEAN]
      /\ pic' \in [on : BOOLEAN, masked : SUBSET IRQs, irr : SUBSET IRQs, isr : SUBSET IRQs]
      /\ pic'.on = pic.on /\ pic'.isr = pic.isr /\ pic'.masked \subseteq pic.masked
      /\ KEYBOARD_IRQ \in pic.irr => KEYBOARD_IRQ \in pic'.irr
      /\ boot = "rtc_B" => rtc'.B
      /\ boot # "rtc_B" => rtc'.B = rtc.B
      /\ boot = "rtc_C" => rtc'.C = FALSE /\ RTC_IRQ \notin pic'.masked
  <2>1. CASE boot = "rtc_B"
    <3>1. /\ rtc' = [rtc EXCEPT !.B = TRUE]
          /\ pic' = [pic EXCEPT !.irr = @ \cup {RTC_IRQ}] \/ pic' = pic
      BY <2>1 DEF rtc_init, Entry, Raised
    <3>2. /\ rtc' \in [B : BOOLEAN, C : BOOLEAN]
          /\ rtc'.B
      BY <1>3, <3>1
    <3>3. /\ pic' \in [on : BOOLEAN, masked : SUBSET IRQs, irr : SUBSET IRQs, isr : SUBSET IRQs]
          /\ pic'.on = pic.on /\ pic'.isr = pic.isr /\ pic'.masked = pic.masked
          /\ pic.irr \subseteq pic'.irr
      BY <1>3, <3>1 DEF IRQs
    <3> QED
      BY <2>1, <3>2, <3>3
  <2>2. CASE boot = "rtc_C"
    <3>1. rtc' = [rtc EXCEPT !.C = FALSE]
      BY <2>2 DEF rtc_init, Entry, ReadC
    <3>2. /\ rtc' \in [B : BOOLEAN, C : BOOLEAN]
          /\ rtc'.C = FALSE /\ rtc'.B = rtc.B
      BY <1>3, <3>1
    <3>3. pic' = [pic EXCEPT !.irr = @ \ {RTC_IRQ}, !.masked = @ \ {RTC_IRQ}]
      BY <1>3, <2>2, <3>2 DEF rtc_init, Entry, enable_irq, Lowered
    <3>4. /\ pic' \in [on : BOOLEAN, masked : SUBSET IRQs, irr : SUBSET IRQs, isr : SUBSET IRQs]
          /\ pic'.on = pic.on /\ pic'.isr = pic.isr /\ pic'.masked = pic.masked \ {RTC_IRQ}
          /\ pic'.irr = pic.irr \ {RTC_IRQ}
      BY <1>3, <3>3
    <3> QED
      BY <2>2, <3>2, <3>4 DEF RTC_IRQ, KEYBOARD_IRQ
  <2> QED
    BY <1>1, <2>1, <2>2
<1>5. TypeInv'
  <2>1. boot' \in Stages
    BY <1>2 DEF Stages
  <2> QED
    BY <1>1, <1>4, <2>1, Zenon DEF IInv, TypeInv
<1>6. StackInv' /\ NothingLost'
  BY <1>1, <1>2, QuietStep DEF Stages, Stopped
<1>7. BootInv'
  BY <1>1, <1>4 DEF IInv, BootInv, Stage, Stages, Stopped, Bootable, blk_start, NextStep, After
<1> QED
  BY <1>5, <1>6, <1>7 DEF IInv

LEMMA KeyboardInitRight == IInv /\ keyboard_init => IInv'
<1> SUFFICES ASSUME IInv, keyboard_init PROVE IInv'
  OBVIOUS
<1>1. /\ boot = "keyboard" /\ Len(frames) = 1 /\ boot' = "processes"
      /\ pic' = [pic EXCEPT !.masked = @ \ {KEYBOARD_IRQ}]
      /\ UNCHANGED <<load, fs_img, gates, ready, rtc, key, iflag, frames, away, active>>
  BY DEF keyboard_init, stackVars, Entry, enable_irq, NextStep, After
<1>2. /\ pic' \in [on : BOOLEAN, masked : SUBSET IRQs, irr : SUBSET IRQs, isr : SUBSET IRQs]
      /\ pic'.on = pic.on /\ pic'.isr = pic.isr /\ pic'.irr = pic.irr
      /\ pic'.masked = pic.masked \ {KEYBOARD_IRQ}
  BY <1>1 DEF IInv, TypeInv
<1>3. TypeInv'
  <2>1. boot' \in Stages
    BY <1>1 DEF Stages
  <2> QED
    BY <1>1, <1>2, <2>1, Zenon DEF IInv, TypeInv
<1>4. StackInv' /\ NothingLost'
  BY <1>1, QuietStep DEF Stages, Stopped
<1>5. BootInv'
  BY <1>1, <1>2 DEF IInv, BootInv, Stage, Stages, Stopped, Bootable, blk_start
<1> QED
  BY <1>3, <1>4, <1>5 DEF IInv

LEMMA CreateRight == IInv /\ create => IInv'
<1> SUFFICES ASSUME IInv, create PROVE IInv'
  OBVIOUS
<1>1. /\ boot = "create" /\ Len(frames) = 1
      /\ UNCHANGED <<load, fs_img, gates, ready, pic, rtc, key, frames, away, active>>
  BY DEF create, Entry, deviceVars, stackVars
<1>2. boot \in Stages /\ Stage[boot] = 11
  BY <1>1 DEF Stages, Stage
<1>3. /\ load.magic /\ ~load.both /\ fs_img = blk_start /\ pic.isr = {} /\ ~iflag
      /\ key.full => KEYBOARD_IRQ \in pic.irr
      /\ rtc.C => RTC_IRQ \in pic.irr
  BY <1>2 DEF IInv, BootInv
<1>4. frames[1].what \in {"entry", "program"}
  BY DEF IInv, StackInv
<1>5. CASE boot' \in Stopped /\ iflag' = iflag /\ (boot' = "halted" => ~Bootable)
  <2>1. TypeInv'
    BY <1>1, <1>5, Zenon DEF IInv, TypeInv
  <2>2. StackInv' /\ NothingLost'
    BY <1>1, <1>5, QuietStep DEF Stages
  <2>3. BootInv'
    BY <1>1, <1>3, <1>5 DEF BootInv, Stages, Stopped, Bootable
  <2> QED
    BY <2>1, <2>2, <2>3 DEF IInv
<1>6. CASE boot' = "window" /\ iflag' = TRUE /\ Bootable /\ fs_img = 1
  <2>1. TypeInv'
    BY <1>1, <1>6 DEF IInv, TypeInv, Stages
  <2>2. StackInv'
    <3>1. \A j \in 1 .. Len(frames) : frames[j].what # "keyboard"
      <4>1. \A j \in 1 .. Len(frames) : j = 1
        BY <1>1
      <4> QED
        BY <1>4, <4>1
    <3>2. Len(frames') = 1 /\ frames' = frames
      BY <1>1
    <3> QED
      BY <1>4, <3>1, <3>2 DEF StackInv
  <2>3. BootInv'
    BY <1>1, <1>2, <1>6 DEF IInv, BootInv, Stage, Stages, Stopped, Bootable, blk_start
  <2>4. Active("rtc")' = {} /\ Active("keyboard")' = {}
    <3>1. \A i \in DOMAIN frames : i = 1
      BY <1>1 DEF IInv, TypeInv
    <3>2. frames[1].what # "rtc" /\ frames[1].what # "keyboard"
      BY <1>4
    <3>3. away = <<>>
      BY <1>2 DEF IInv, BootInv
    <3>4. \A what : Left(what) = {}
      BY <3>3 DEF Left, AwayPlaces
    <3>5. Here("rtc")' = {} /\ Here("keyboard")' = {}
      BY <1>1, <3>1, <3>2 DEF Here
    <3> QED
      BY <1>1, <3>4, <3>5, ActivePartsStay DEF IInv, OnTop
  <2>5. NothingLost'
    BY <1>1, <1>3, <2>4 DEF NothingLost
  <2> QED
    BY <2>1, <2>2, <2>3, <2>5 DEF IInv
<1>7. \/ boot' = "exception" /\ iflag' = iflag
      \/ boot' = "halted" /\ iflag' = iflag /\ load.modules[fs_img] # "fs"
      \/ boot' = "window" /\ iflag' = TRUE /\ fs_img # 0 /\ load.modules[fs_img] = "fs"
  BY DEF create
<1>8. fs_img # 0 => load.modules # <<>> /\ fs_img = 1
  BY <1>3 DEF blk_start
<1>9. boot' = "halted" => fs_img # 0
  BY DEF create
<1> QED
  BY <1>3, <1>5, <1>6, <1>7, <1>8, <1>9 DEF Stopped, Bootable

LEMMA StartRight == IInv /\ start => IInv'
<1> SUFFICES ASSUME IInv, start PROVE IInv'
  OBVIOUS
<1>1. /\ boot = "window" /\ Len(frames) = 1 /\ boot' = "up"
      /\ frames' = Shell
      /\ UNCHANGED <<load, fs_img, gates, ready, pic, rtc, key, iflag, away, active>>
  BY DEF start, Entry, deviceVars
<1>2. frames[1].what \in {"entry", "program"}
  BY DEF IInv, StackInv
<1>3. /\ frames' \in Seq(FrameType) /\ Len(frames') = 1
      /\ frames'[1].what = "program"
  BY <1>1, ShellStack
<1>4. TypeInv'
  <2>1. boot' \in Stages /\ Len(frames') > 0
    BY <1>1, <1>3 DEF Stages
  <2> QED
    BY <1>1, <1>3, <2>1, Zenon DEF IInv, TypeInv
<1>5. StackInv'
  BY <1>3 DEF StackInv, Waiting
<1>6. BootInv'
  BY <1>1 DEF IInv, BootInv, Stage, Stages, Stopped, Bootable, blk_start
<1>7. ASSUME NEW what \in {"rtc", "keyboard"}
      PROVE  Active(what)' = Active(what) /\ Unread(what)' = Unread(what)
  <2>1. \A i \in DOMAIN frames : i = 1
    BY <1>1 DEF IInv, TypeInv
  <2>2. Here(what) = {}
    BY <1>2, <2>1 DEF Here
  <2>3. Here(what)' = {}
    BY <1>1, ShellStack, HereLeft
  <2>4. HereUnread(what) = {} /\ HereUnread(what)' = {}
    BY <2>2, <2>3 DEF HereUnread
  <2> QED
    BY <1>1, <2>2, <2>3, <2>4, ActiveParts, ActivePartsStay DEF IInv
<1>8. boot' \in {"window", "up"} /\ boot \in {"window", "up"}
  BY <1>1
<1>9. NothingLost'
  BY <1>1, <1>7, <1>8 DEF IInv, NothingLost
<1> QED
  BY <1>4, <1>5, <1>6, <1>9 DEF IInv

-----------------------------------------------------------------------------
(* The theorems                                                            *)

LEMMA StepRight == IInv /\ AwayInv /\ [Next]_vars => IInv'
<1> SUFFICES ASSUME IInv, AwayInv, [Next]_vars PROVE IInv'
  OBVIOUS
<1>1. CASE RtcPeriod
  BY <1>1, RtcPeriodRight
<1>2. CASE KeyPress
  BY <1>2, KeyPressRight
<1>3. CASE \E n \in Lines : Accept(n)
  BY <1>3, AcceptRight
<1>4. CASE Boot
  BY <1>4, CheckRight, TablesRight, InitPicRight, FsInitRight, RtcInitRight,
     KeyboardInitRight, CreateRight, StartRight DEF Boot
<1>5. CASE Cli \/ Sti
  BY <1>5, CliStiRight
<1>6. CASE Fault
  BY <1>6, FaultRight
<1>7. CASE Handler
  BY <1>7, RtcHandlerRight, ReadKeyRight, StartShellRight, RefuseShellRight, IretRight
  DEF Handler, keyboard_handler
<1>8. CASE UNCHANGED vars
  BY <1>8, StutterRight
<1> QED
  BY <1>1, <1>2, <1>3, <1>4, <1>5, <1>6, <1>7, <1>8 DEF Next

\* The stacks that handlers leave are ready to be resumed.
LEMMA AwayRight == IInv /\ AwayInv /\ [Next]_vars => AwayInv'
<1> SUFFICES ASSUME IInv, AwayInv, [Next]_vars PROVE AwayInv'
  OBVIOUS
<1>1. CASE away' = away
  BY <1>1 DEF AwayInv, LeftBehind, Waiting
<1>2. CASE StartShell
  <2>1. ~Waiting(Top) /\ "sti" \in Pcs /\ "sti" \notin {"ack", "inb", "eoi"}
    BY <1>2 DEF StartShell, Step, Waiting, Pcs
  <2>2. LeftBehind(AtPc("sti"))
    BY <2>1, LeftRight
  <2>3. away' = Append(away, AtPc("sti")) /\ away \in Seq(Seq(FrameType))
    BY <1>2 DEF StartShell, IInv, TypeInv
  <2>4. \A k \in 1 .. Len(away') : away'[k] = AtPc("sti") \/ (k \in 1 .. Len(away) /\ away'[k] = away[k])
    <3>1. AtPc("sti") \in Seq(FrameType)
      BY <2>1, QuietTop DEF IInv
    <3> QED
      BY <2>3, <3>1
  <2>5. \A k \in 1 .. Len(away') : LeftBehind(away'[k])
    BY <2>2, <2>4, Zenon DEF AwayInv
  <2> QED
    BY <2>5 DEF AwayInv, LeftBehind, Waiting
<1>3. CASE Step("rtc", "end") /\ \E k \in Others : process_switch(k)
  <2>1. ~Waiting(Top) /\ "cli" \in Pcs /\ "cli" \notin {"ack", "inb", "eoi"}
    BY <1>3 DEF Step, Waiting, Pcs
  <2>2. LeftBehind(AtPc("cli"))
    BY <2>1, LeftRight
  <2>3. PICK j \in Others : away' = [away EXCEPT ![j] = AtPc("cli")]
    BY <1>3 DEF process_switch
  <2>4. away \in Seq(Seq(FrameType)) /\ j \in 1 .. Len(away)
    <3>1. away \in Seq(Seq(FrameType)) /\ j \in DOMAIN away
      BY <2>3 DEF IInv, TypeInv, Others
    <3> QED
      BY <3>1
  <2>5. \A k \in 1 .. Len(away') : away'[k] = AtPc("cli") \/ (k \in 1 .. Len(away) /\ away'[k] = away[k])
    BY <2>3, <2>4
  <2>6. \A k \in 1 .. Len(away') : LeftBehind(away'[k])
    BY <2>2, <2>5, Zenon DEF AwayInv
  <2> QED
    BY <2>6 DEF AwayInv, LeftBehind, Waiting
<1>4. \/ away' = away \/ StartShell
      \/ Step("rtc", "end") /\ \E k \in Others : process_switch(k)
  <2>1. CASE RtcPeriod \/ KeyPress \/ (\E n \in Lines : Accept(n)) \/ Cli \/ Sti \/ Fault \/ UNCHANGED vars
    BY <2>1 DEF RtcPeriod, KeyPress, Accept, Cli, Sti, Fault, Goto, vars, stackVars
  <2>2. CASE Boot
    BY <2>2 DEF Boot, check, descriptors, initialize_idt, initPic, paging_init, fs_init, rtc_init,
                keyboard_init, processes_init, create, start, stackVars
  <2>3. CASE Handler
    BY <2>3 DEF Handler, rtc_handler, keyboard_handler, ReadKey, RefuseShell, Iret, Goto
  <2> QED
    BY <2>1, <2>2, <2>3 DEF Next
<1> QED
  BY <1>1, <1>2, <1>3, <1>4

\* The inductive invariant: types, the stacks of frames, what entry() has done so far, and
\* the agreement of frames, controllers and devices.
THEOREM Invariance == Spec => [](IInv /\ AwayInv)
<1>1. IInv /\ AwayInv /\ [Next]_vars => IInv' /\ AwayInv'
  BY StepRight, AwayRight
<1>2. Init => IInv /\ AwayInv
  <2>1. Init => away = <<>>
    BY DEF Init
  <2>2. away = <<>> => AwayInv
    BY DEF AwayInv
  <2> QED
    BY <2>1, <2>2, InitRight
<1> QED
  BY <1>1, <1>2, PTL DEF Spec

\* For every load, any number of nested handlers, keys and kernel stacks: what is in service
\* is what a handler has yet to report, and no device waits on a line that nobody serves.
THEOREM InterruptsKept == Spec => []NothingLost
<1>1. IInv => NothingLost
  BY DEF IInv
<1> QED
  BY <1>1, Invariance, PTL

\* For every load: interrupts come in only after everything is set up for them, and
\* entry() gives up only when there is nothing to boot.
THEOREM BootsRight == Spec => []BootedRight
<1>1. IInv => BootedRight
  <2> SUFFICES ASSUME IInv PROVE BootedRight
    OBVIOUS
  <2>1. boot = "halted" => ~Bootable
    BY DEF IInv, BootInv
  <2> QED
    BY <2>1, InterruptedLate, Running DEF BootedRight
<1> QED
  BY <1>1, Invariance, PTL
=============================================================================
