---------------------------- MODULE TerminalInput ----------------------------
(***************************************************************************)
(* The line discipline of the terminals: keyboard_handler edits the line   *)
(* of the terminal on the screen, Alt+Fn moves the screen to another       *)
(* terminal, and terminal_read (interrupts/keyboard.c) waits for Enter and *)
(* copies the line to the program.                                         *)
(*                                                                         *)
(* The three line buffers are one array.  terminal_buffer points into it   *)
(* and buffer_index counts the characters of the line, both for the        *)
(* terminal on the screen only; the other indices are parked in            *)
(* buffer_indices.  The keyboard handler runs with interrupts off, so it   *)
(* is atomic; terminal_read is not, except between its cli and sti.        *)
(*                                                                         *)
(* Which character a key stands for (key maps, shift, caps lock) and the   *)
(* echo on the screen are left out.                                        *)
(***************************************************************************)
EXTENDS Integers, Sequences, FiniteSetsExt

CONSTANTS
    NumTerminals,  \* 3 in the code
    BufferSize,    \* TERMINAL_BUFFER_SIZE, 128 in the code
    IndexRange,    \* buffer_index is a uint8_t: 256 in the code
    Chars,         \* what printable keys produce
    ReadSizes,     \* the nbytes programs pass to read
    Situations,    \* see AllSituations
    MaxTyped       \* bound: keys the user types before a line is read

Terminals == 0 .. NumTerminals - 1

\* What the user may do while a line is finished but not yet read:
\*   type_ahead   go on typing on that terminal
\*   switch_away  bring another terminal to the screen
AllSituations == {"type_ahead", "switch_away"}

ASSUME ConstantsAssumption ==
    /\ NumTerminals \in Nat \ {0}
    /\ BufferSize \in Nat \ {0}
    /\ IndexRange \in Nat /\ BufferSize < IndexRange
    /\ ReadSizes \subseteq Nat
    /\ Situations \subseteq AllSituations
    /\ MaxTyped \in Nat

CONSTANTS NewLine, Nul
Bytes == Chars \cup {NewLine, Nul}

\* The array terminal_buffers.
Memory == 0 .. NumTerminals * BufferSize - 1

VARIABLES
    terminal_buffers, buffer_indices, buffer_index,
    current_terminal,
    enter_state,
    reader,    \* terminal_read of the program that holds each terminal
    overrun,   \* a byte was stored past the end of terminal_buffers
    typed      \* history: the line the user sees on each terminal

keyboardVars == <<buffer_indices, current_terminal>>
vars == <<terminal_buffers, buffer_index, keyboardVars, enter_state, reader,
          overrun, typed>>

Idle == [pc |-> "idle", nbytes |-> 0, n |-> 0, i |-> 0, buf |-> <<>>]

Init ==
    /\ terminal_buffers = [a \in Memory |-> Nul]
    /\ buffer_indices = [t \in Terminals |-> 0]
    /\ buffer_index = 0
    /\ current_terminal = 0
    /\ enter_state = [t \in Terminals |-> FALSE]
    /\ reader = [t \in Terminals |-> Idle]
    /\ overrun = FALSE
    /\ typed = [t \in Terminals |-> <<>>]

\* &terminal_buffer[i]: terminal_buffer points to the line on the screen.
Address(i) == current_terminal * BufferSize + i

Store(a, c) ==
    /\ terminal_buffers' = [b \in Memory |-> IF b = a THEN c ELSE terminal_buffers[b]]
    /\ overrun' = (overrun \/ a \notin Memory)

Load(a) == IF a \in Memory THEN terminal_buffers[a] ELSE Nul

\* No finished line of terminal t waits to be read.
Settled(t) == ~enter_state[t] /\ reader[t].pc \in {"idle", "wait"}

-----------------------------------------------------------------------------
(* The keyboard.                                                           *)

MayType == /\ Settled(current_terminal) \/ "type_ahead" \in Situations
           /\ Len(typed[current_terminal]) < MaxTyped

\* Mutant: the 128th character need not be an enter.
PrintableKey_Full(c) ==
    /\ MayType
    /\ buffer_index < BufferSize
    /\ Store(Address(buffer_index), c)
    /\ buffer_index' = (buffer_index + 1) % IndexRange
    /\ typed' = [typed EXCEPT ![current_terminal] = Append(@, c)]
    /\ UNCHANGED <<keyboardVars, enter_state, reader>>

\* A printable key, unless the line has only room for Enter.
PrintableKey(c) ==
    /\ MayType
    /\ buffer_index < BufferSize - 1
    /\ Store(Address(buffer_index), c)
    /\ buffer_index' = (buffer_index + 1) % IndexRange
    /\ typed' = [typed EXCEPT ![current_terminal] = Append(@, c)]
    /\ UNCHANGED <<keyboardVars, enter_state, reader>>

EnterKey ==
    /\ MayType
    /\ Store(Address(buffer_index), NewLine)
    /\ buffer_index' = (buffer_index + 1) % IndexRange
    /\ enter_state' = [enter_state EXCEPT ![current_terminal] = TRUE]
    /\ typed' = [typed EXCEPT ![current_terminal] = Append(@, NewLine)]
    /\ UNCHANGED <<keyboardVars, reader>>

\* Mutant: backspace on an empty line.
BackspaceKey_Unguarded ==
    /\ Settled(current_terminal) \/ "type_ahead" \in Situations
    /\ buffer_index' = buffer_index - 1
    /\ Store(Address(buffer_index - 1), Nul)
    /\ typed' = [typed EXCEPT ![current_terminal] =
                    SubSeq(@, 1, Len(@) - 1)]
    /\ UNCHANGED <<keyboardVars, enter_state, reader>>

\* keyboard_backspace
BackspaceKey ==
    /\ Settled(current_terminal) \/ "type_ahead" \in Situations
    /\ buffer_index # 0
    /\ buffer_index' = buffer_index - 1
    /\ Store(Address(buffer_index - 1), Nul)
    /\ typed' = [typed EXCEPT ![current_terminal] =
                    SubSeq(@, 1, Len(@) - 1)]
    /\ UNCHANGED <<keyboardVars, enter_state, reader>>

\* Mutant: the index of the terminal that leaves the screen is not parked.
SwitchTerminal_Unparked(t) ==
    /\ t # current_terminal
    /\ Settled(current_terminal) \/ "switch_away" \in Situations
    /\ buffer_index' = buffer_indices[t]
    /\ current_terminal' = t
    /\ UNCHANGED <<terminal_buffers, buffer_indices, enter_state, reader, overrun, typed>>

\* Mutant: the terminal that leaves the screen forgets its Enter.
SwitchTerminal_DropsEnter(t) ==
    /\ t # current_terminal
    /\ Settled(current_terminal) \/ "switch_away" \in Situations
    /\ buffer_indices' = [buffer_indices EXCEPT ![current_terminal] = buffer_index]
    /\ buffer_index' = buffer_indices[t]
    /\ current_terminal' = t
    /\ enter_state' = [enter_state EXCEPT ![current_terminal] = FALSE]
    /\ UNCHANGED <<terminal_buffers, reader, overrun, typed>>

\* Alt+F(t+1): park the index, and point to the buffer of terminal t.
SwitchTerminal(t) ==
    /\ t # current_terminal
    /\ Settled(current_terminal) \/ "switch_away" \in Situations
    /\ buffer_indices' = [buffer_indices EXCEPT ![current_terminal] = buffer_index]
    /\ buffer_index' = buffer_indices[t]
    /\ current_terminal' = t
    /\ UNCHANGED <<terminal_buffers, enter_state, reader, overrun, typed>>

-----------------------------------------------------------------------------
(* terminal_read(0, buf, nbytes), called by the program on terminal t.     *)

ReadCall(t, nbytes) ==
    /\ reader[t].pc = "idle"
    /\ reader' = [reader EXCEPT ![t] = [Idle EXCEPT !.pc = "wait", !.nbytes = nbytes]]
    /\ UNCHANGED <<terminal_buffers, buffer_index, keyboardVars, enter_state,
                   overrun, typed>>

\* The loop on enter_state ends and nbytes is limited to buffer_index.
ReadWake(t) ==
    /\ reader[t].pc = "wait"
    /\ enter_state[t]
    /\ reader' = [reader EXCEPT ![t].pc = "copy",
                                ![t].n = Min({reader[t].nbytes, buffer_index})]
    /\ UNCHANGED <<terminal_buffers, buffer_index, keyboardVars, enter_state,
                   overrun, typed>>

\* Mutant: one byte too few.
ReadCopy_Short(t) ==
    /\ reader[t].pc = "copy"
    /\ reader' = [reader EXCEPT ![t].pc = "clear", ![t].i = 0,
                     ![t].buf = [k \in 1 .. reader[t].n - 1 |-> Load(Address(k - 1))]]
    /\ enter_state' = [enter_state EXCEPT ![t] = FALSE]
    /\ UNCHANGED <<terminal_buffers, buffer_index, keyboardVars, overrun, typed>>

\* cli; memcpy; enter_state[terminal_id] = 0; sti
ReadCopy(t) ==
    /\ reader[t].pc = "copy"
    /\ reader' = [reader EXCEPT ![t].pc = "clear", ![t].i = 0,
                     ![t].buf = [k \in 1 .. reader[t].n |-> Load(Address(k - 1))]]
    /\ enter_state' = [enter_state EXCEPT ![t] = FALSE]
    /\ UNCHANGED <<terminal_buffers, buffer_index, keyboardVars, overrun, typed>>

\* One round of the loop in clear_terminal_buffer, ...
ReadClear(t) ==
    /\ reader[t].pc = "clear"
    /\ reader[t].i < BufferSize
    /\ Store(Address(reader[t].i), Nul)
    /\ reader' = [reader EXCEPT ![t].i = @ + 1]
    /\ UNCHANGED <<buffer_index, keyboardVars, enter_state, typed>>

\* ... its last assignment, and the return to the program.
ReadReturn(t) ==
    /\ reader[t].pc = "clear"
    /\ reader[t].i = BufferSize
    /\ buffer_index' = 0
    /\ reader' = [reader EXCEPT ![t] = Idle]
    /\ typed' = [typed EXCEPT ![t] = <<>>]
    /\ UNCHANGED <<terminal_buffers, keyboardVars, enter_state, overrun>>

ReadStep(t) == ReadWake(t) \/ ReadCopy(t) \/ ReadClear(t) \/ ReadReturn(t)

-----------------------------------------------------------------------------
Next == \/ \E c \in Chars : PrintableKey(c)
        \/ EnterKey
        \/ BackspaceKey
        \/ \E t \in Terminals : SwitchTerminal(t)
        \/ \E t \in Terminals, n \in ReadSizes : ReadCall(t, n)
        \/ \E t \in Terminals : ReadStep(t)

Spec == Init /\ [][Next]_vars

\* The scheduler gives every terminal's program the CPU again and again.
FairSpec == Spec /\ \A t \in Terminals : WF_vars(ReadStep(t))

-----------------------------------------------------------------------------
(* Properties.                                                             *)

\* Type correctness of the line buffers and of the reads in progress.
TypeOK ==
    /\ terminal_buffers \in [Memory -> Bytes]
    /\ buffer_indices \in [Terminals -> 0 .. IndexRange - 1]
    /\ buffer_index \in 0 .. IndexRange - 1
    /\ current_terminal \in Terminals
    /\ enter_state \in [Terminals -> BOOLEAN]
    /\ \A t \in Terminals :
          /\ reader[t].pc \in {"idle", "wait", "copy", "clear"}
          /\ reader[t].nbytes \in Nat
          /\ reader[t].n \in 0 .. reader[t].nbytes
          /\ reader[t].i \in 0 .. BufferSize
          /\ reader[t].buf \in Seq(Bytes)
    /\ overrun \in BOOLEAN
    /\ typed \in [Terminals -> Seq(Bytes)]

\* The length of the line of terminal t, on the screen or not.
Index(t) == IF t = current_terminal THEN buffer_index ELSE buffer_indices[t]

\* A line never outgrows its buffer, so it never runs into the buffer of the
\* next terminal or past the array: the 128th character is an Enter.
LineFits == ~overrun /\ \A t \in Terminals : Index(t) <= BufferSize

\* Whatever the order of keys, terminal switches and reads, the buffer of each
\* terminal holds exactly the line typed on that terminal (while
\* clear_terminal_buffer empties it, its length still tells how long it was).
BufferHoldsLine ==
    \A t \in Terminals :
        /\ Index(t) = Len(typed[t])
        /\ reader[t].pc # "clear" =>
              \A k \in 1 .. Len(typed[t]) :
                  terminal_buffers[t * BufferSize + k - 1] = typed[t][k]

\* A read returns the line that was typed on the caller's own terminal, as far
\* as it fits into nbytes.
ReadReturnsLine ==
    [][\A t \in Terminals : ReadReturn(t) =>
          reader[t].buf = SubSeq(typed[t], 1, Min({reader[t].nbytes, Len(typed[t])}))]_vars

\* Once Enter was pressed on a terminal, the read that waits there returns.
EnterEndsRead ==
    \A t \in Terminals :
        (reader[t].pc = "wait" /\ enter_state[t]) ~> (reader[t].pc = "idle")
==============================================================================
