--------------------------- MODULE TerminalScreens ---------------------------
(***************************************************************************)
(* What the terminals promise: each has a screen of its own, on which text *)
(* appears at a position that moves on and scrolls at the end.  Which of   *)
(* the terminals is displayed does not matter.  Screen implements this     *)
(* with one displayed page, one page per terminal and a page table.        *)
(***************************************************************************)
EXTENDS Integers

CONSTANTS NumTerminals, NumCols, NumRows, Chars, Blank

Terminals == 0 .. NumTerminals - 1
NumCells == NumRows * NumCols
Cells == 0 .. NumCells - 1

VARIABLES
    text,   \* the characters on the screen of each terminal
    pos     \* where its next character goes; NumCells: after scrolling

vars == <<text, pos>>

BlankScreen == [i \in Cells |-> Blank]

\* The first terminal is blank; the others have not been used.
Init == /\ text \in [Terminals -> [Cells -> Chars]]
        /\ text[0] = BlankScreen
        /\ pos = [t \in Terminals |-> 0]

Show(t, screen, p) == /\ text' = [text EXCEPT ![t] = screen]
                      /\ pos' = [pos EXCEPT ![t] = p]

\* The screen and the position, with room for one more character.
Scrolled(t) == IF pos[t] < NumCells THEN text[t]
               ELSE [i \in Cells |-> IF i + NumCols \in Cells THEN text[t][i + NumCols]
                                     ELSE Blank]
Room(t) == IF pos[t] < NumCells THEN pos[t] ELSE NumCells - NumCols

Put(t, c) == Show(t, [Scrolled(t) EXCEPT ![Room(t)] = c], Room(t) + 1)

\* The rest of the row is blanked.  A program that draws anywhere on its screen
\* may lose the first character of the row below as well.
Newline(t) ==
    LET next == (Room(t) \div NumCols + 1) * NumCols
    IN  \E last \in {next - 1, next} :
            Show(t, [i \in Cells |-> IF i \in Room(t) .. last THEN Blank
                                     ELSE Scrolled(t)[i]], next)

Backspace(t) == /\ pos[t] > 0
                /\ Show(t, [text[t] EXCEPT ![pos[t] - 1] = Blank], pos[t] - 1)

Clear(t) == Show(t, BlankScreen, 0)

Draw(t, i, c) == Show(t, [text[t] EXCEPT ![i] = c], pos[t])

Next == \E t \in Terminals :
            \/ \E c \in Chars : Put(t, c)
            \/ Newline(t)
            \/ Backspace(t)
            \/ Clear(t)
            \/ \E i \in Cells, c \in Chars : Draw(t, i, c)

Spec == Init /\ [][Next]_vars
==============================================================================
