-------------------------------- MODULE Screen --------------------------------
(***************************************************************************)
(* The video memory: the page that is displayed, a page per terminal, the  *)
(* page table entries that decide which of them a write reaches, and the   *)
(* cursor positions (lib.c, switch_terminal in interrupts/keyboard.c).     *)
(*                                                                         *)
(* A program's output goes to the page of its terminal, wherever that page *)
(* is mapped; the kernel's own clear and backspace go to the displayed     *)
(* page.  tputc runs with interrupts off (terminal_write, the keyboard     *)
(* handler), and so do switch_terminal, clear and terminal_backspace; each *)
(* is one action here.  Left out are the cursor ports, which update_cursor *)
(* writes with interrupts on, the attributes, and the three messages that  *)
(* printf writes to the displayed page while programs run.                 *)
(***************************************************************************)
EXTENDS Integers

CONSTANTS
    NumTerminals,  \* 3 in the code
    NumCols,       \* 80 in the code
    NumRows,       \* 25 in the code
    Drawers        \* bound: the terminals on which programs may call vidmap

ASSUME ConstantsAssumption ==
    /\ NumTerminals \in Nat \ {0}
    /\ NumCols \in Nat \ {0}
    /\ NumRows \in Nat \ {0}
    /\ Drawers \subseteq 0 .. NumTerminals - 1

Terminals == 0 .. NumTerminals - 1
NumCells == NumRows * NumCols

\* A page holds more than a screen: tputc writes one cell past it.
Offsets == 0 .. NumCells

\* What terminal t's program and user write is represented by t.
Blank == -1
Unknown == -2
Chars == Terminals \cup {Blank, Unknown}

\* Physical pages: the displayed one (VIDEO_MEM_INDEX), then one per terminal.
Display == 0
PageOf(t) == t + 1
Pages == {Display} \cup {PageOf(t) : t \in Terminals}

\* The entry after those of the terminals: the kernel's second mapping, of the
\* page that belongs to the displayed terminal.
Alias == NumTerminals + 1

VARIABLES
    memory,            \* the contents of the pages
    page_table,        \* which page the entry of each virtual page names
    current_terminal,
    terminal_active,
    screen_x, screen_y,
    term_x, term_y,
    drawing            \* terminals whose program has called vidmap

cursorVars == <<screen_x, screen_y, term_x, term_y>>
terminalVars == <<current_terminal, terminal_active, drawing>>
vars == <<memory, page_table, cursorVars, terminalVars>>

\* paging_init, and clear in entry(); the other pages are as the machine left
\* them.  (entry's messages on the first screen are left out.)
Init ==
    /\ memory = [p \in Pages |-> [i \in Offsets |->
                    IF p = Display /\ i < NumCells THEN Blank ELSE Unknown]]
    /\ page_table = [v \in 0 .. Alias |->
                        IF v = PageOf(0) THEN Display
                        ELSE IF v = Alias THEN PageOf(0) ELSE v]
    /\ current_terminal = 0
    /\ terminal_active = [t \in Terminals |-> t = 0]
    /\ screen_x = 0 /\ screen_y = 0
    /\ term_x = [t \in Terminals |-> 0]
    /\ term_y = [t \in Terminals |-> 0]
    /\ drawing = {}

-----------------------------------------------------------------------------
(* lib.c                                                                   *)

Offset(x, y) == y * NumCols + x

\* Mutant: the last row is not blanked.
Scrolled_KeepsLast(page) ==
    [i \in Offsets |-> IF i + NumCols < NumCells THEN page[i + NumCols] ELSE page[i]]

\* tscroll
Scrolled(page) ==
    [i \in Offsets |-> IF i >= NumCells THEN page[i]
                       ELSE IF i + NumCols < NumCells THEN page[i + NumCols]
                       ELSE Blank]

\* tputc: the row is at most NumRows; then the page scrolls first.
Row(t) == IF term_y[t] >= NumRows THEN NumRows - 1 ELSE term_y[t]
PageWithRoom(t) == LET page == memory[page_table[PageOf(t)]]
                   IN  IF term_y[t] >= NumRows THEN Scrolled(page) ELSE page

\* The end of tputc: terminal t's page and its cursor, which is also that of
\* the screen when t is displayed.
SetTerminal(t, page, x, y) ==
    /\ memory' = [memory EXCEPT ![page_table[PageOf(t)]] = page]
    /\ term_x' = [term_x EXCEPT ![t] = x]
    /\ term_y' = [term_y EXCEPT ![t] = y]
    /\ screen_x' = IF t = current_terminal THEN x ELSE screen_x
    /\ screen_y' = IF t = current_terminal THEN y ELSE screen_y
    /\ UNCHANGED <<page_table, terminalVars>>

\* Mutant: the row does not end at the last column.
PutChar_NoWrap(t, c) ==
    SetTerminal(t, [PageWithRoom(t) EXCEPT ![Offset(term_x[t], Row(t))] = c],
                term_x[t] + 1, Row(t))

PutChar(t, c) ==
    LET wraps == term_x[t] + 1 >= NumCols
    IN  SetTerminal(t, [PageWithRoom(t) EXCEPT ![Offset(term_x[t], Row(t))] = c],
                    IF wraps THEN 0 ELSE term_x[t] + 1,
                    IF wraps THEN Row(t) + 1 ELSE Row(t))

\* Newline blanks columns term_x .. 80, one more than there are.
PutNewline(t) ==
    SetTerminal(t, [i \in Offsets |->
                       IF i \in Offset(term_x[t], Row(t)) .. Offset(NumCols, Row(t))
                       THEN Blank ELSE PageWithRoom(t)[i]],
                0, Row(t) + 1)

\* The page, the cursor and save_pos, for the displayed terminal.
SetDisplay(page, x, y) ==
    /\ memory' = [memory EXCEPT ![Display] = page]
    /\ screen_x' = x
    /\ screen_y' = y
    /\ term_x' = [term_x EXCEPT ![current_terminal] = x]
    /\ term_y' = [term_y EXCEPT ![current_terminal] = y]
    /\ UNCHANGED <<page_table, terminalVars>>

\* Mutant: a backspace at the start of a row stays in the row.
terminal_backspace_Row ==
    /\ screen_x # 0 \/ screen_y # 0
    /\ SetDisplay([memory[Display] EXCEPT ![Offset(screen_x, screen_y) - 1] = Blank],
                  IF screen_x = 0 THEN NumCols - 1 ELSE screen_x - 1, screen_y)

terminal_backspace ==
    /\ screen_x # 0 \/ screen_y # 0
    /\ SetDisplay([memory[Display] EXCEPT ![Offset(screen_x, screen_y) - 1] = Blank],
                  IF screen_x = 0 THEN NumCols - 1 ELSE screen_x - 1,
                  IF screen_x = 0 THEN screen_y - 1 ELSE screen_y)

Cleared(page) == [i \in Offsets |-> IF i < NumCells THEN Blank ELSE page[i]]

\* Ctrl+L
clear == SetDisplay(Cleared(memory[Display]), 0, 0)

-----------------------------------------------------------------------------
(* Programs, and the keyboard.                                             *)

\* One character of a terminal_write or, if t is displayed, of the echo of keys
\* (a tab is four characters).
Output(t) == /\ terminal_active[t]
             /\ PutChar(t, t) \/ PutNewline(t)

\* A program has called vidmap: it may store to any cell through the page
\* table entry of its terminal.
vidmap(t) == /\ t \in Drawers
             /\ terminal_active[t]
             /\ drawing' = drawing \cup {t}
             /\ UNCHANGED <<memory, page_table, current_terminal,
                            terminal_active, cursorVars>>

Draw(t, i) == /\ t \in drawing
              /\ memory' = [memory EXCEPT ![page_table[PageOf(t)]][i] = t]
              /\ UNCHANGED <<page_table, cursorVars, terminalVars>>

\* The page table after switch_terminal has changed three entries.
Remapped(t) ==
    [[[page_table EXCEPT ![PageOf(current_terminal)] = PageOf(current_terminal)]
                  EXCEPT ![PageOf(t)] = Display]
                  EXCEPT ![Alias] = PageOf(t)]

\* Mutant: the cursor of the terminal that appears is not restored.
SwitchTerminal_KeepsCursor(t) ==
    LET table == Remapped(t)
        saved == [memory EXCEPT ![table[PageOf(current_terminal)]] = memory[Display]]
        shown == saved[table[Alias]]
        starts == ~terminal_active[t]
    IN  /\ t # current_terminal
        /\ page_table' = table
        /\ memory' = [saved EXCEPT ![Display] = IF starts THEN Cleared(shown) ELSE shown]
        /\ current_terminal' = t
        /\ terminal_active' = [terminal_active EXCEPT ![t] = TRUE]
        /\ term_x' = [term_x EXCEPT ![current_terminal] = screen_x]
        /\ term_y' = [term_y EXCEPT ![current_terminal] = screen_y]
        /\ UNCHANGED <<screen_x, screen_y, drawing>>

\* switch_terminal: save_pos, the page table, the copy of the displayed page to
\* its terminal's own page, the copy of the new terminal's page (through the
\* kernel's second mapping), restore_pos; a first shell starts on a cleared
\* screen.  (That it needs a free pid is the subject of Processes.)
SwitchTerminal(t) ==
    LET table == Remapped(t)
        saved == [memory EXCEPT ![table[PageOf(current_terminal)]] = memory[Display]]
        shown == saved[table[Alias]]
        starts == ~terminal_active[t]
        x == IF starts THEN 0 ELSE term_x[t]
        y == IF starts THEN 0 ELSE term_y[t]
    IN  /\ t # current_terminal
        /\ page_table' = table
        /\ memory' = [saved EXCEPT ![Display] = IF starts THEN Cleared(shown) ELSE shown]
        /\ current_terminal' = t
        /\ terminal_active' = [terminal_active EXCEPT ![t] = TRUE]
        /\ screen_x' = x
        /\ screen_y' = y
        /\ term_x' = [term_x EXCEPT ![current_terminal] = screen_x, ![t] = x]
        /\ term_y' = [term_y EXCEPT ![current_terminal] = screen_y, ![t] = y]
        /\ UNCHANGED drawing

Next == \/ \E t \in Terminals : Output(t) \/ vidmap(t) \/ SwitchTerminal(t)
        \/ \E t \in Terminals, i \in 0 .. NumCells - 1 : Draw(t, i)
        \/ terminal_backspace
        \/ clear

Spec == Init /\ [][Next]_vars

-----------------------------------------------------------------------------
(* Properties.                                                             *)

\* The page on which terminal t's screen is: the displayed one or its own.
Holder(t) == IF t = current_terminal THEN Display ELSE PageOf(t)

\* Type correctness of the pages, the page table and the cursors.  The cursors keep to the
\* screen and the start of the row behind it, whatever is printed, erased and switched;
\* tputc writes at them without a check of its own.
TypeOK ==
    /\ memory \in [Pages -> [Offsets -> Chars]]
    /\ page_table \in [0 .. Alias -> Pages]
    /\ current_terminal \in Terminals
    /\ terminal_active \in [Terminals -> BOOLEAN]
    /\ screen_x \in 0 .. NumCols - 1
    /\ screen_y \in 0 .. NumRows
    /\ term_x \in [Terminals -> 0 .. NumCols - 1]
    /\ term_y \in [Terminals -> 0 .. NumRows]
    /\ drawing \subseteq Terminals

\* The position of the displayed terminal is kept twice, for tputc and for the
\* functions that write to the displayed page; they never disagree.
CursorsAgree ==
    <<screen_x, screen_y>> = <<term_x[current_terminal], term_y[current_terminal]>>

\* Behind the cursor the screen is blank (unless the program draws), so the
\* cell too many that a newline blanks never holds any output.
BlankAhead ==
    \A t \in Terminals : terminal_active[t] /\ t \notin drawing =>
        \A i \in Offset(term_x[t], term_y[t]) .. NumCells - 1 :
            memory[Holder(t)][i] = Blank

\* The pages implement one independent screen per terminal: a switch changes
\* none of them, a write only the one of its terminal.
Abstract == INSTANCE TerminalScreens WITH
    text <- [t \in Terminals |-> [i \in 0 .. NumCells - 1 |-> memory[Holder(t)][i]]],
    pos <- [t \in Terminals |-> Offset(term_x[t], term_y[t])]

ScreensIndependent == Abstract!Spec
==============================================================================
