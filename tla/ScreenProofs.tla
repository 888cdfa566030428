---------------------------- MODULE ScreenProofs ----------------------------
(***************************************************************************)
(* Proofs about Screen, for any number of terminals and any size of the    *)
(* screen: the pages implement TerminalScreens.                            *)
(***************************************************************************)
EXTENDS Screen, TLAPS

Cells == 0 .. NumCells - 1

\* The refinement mapping of Abstract.
text == [t \in Terminals |-> [i \in Cells |-> memory[Holder(t)][i]]]
pos  == [t \in Terminals |-> Offset(term_x[t], term_y[t])]

\* The page table sends the displayed terminal to the displayed page, the kernel's second
\* mapping to the page that this terminal does not use, and all others to their own.
Mapped ==
    page_table = [v \in 0 .. Alias |-> IF v = PageOf(current_terminal) THEN Display
                                       ELSE IF v = Alias THEN PageOf(current_terminal) ELSE v]

\* Behind the last row there is only the position to scroll from.
RowsEnd == \A t \in Terminals : term_y[t] = NumRows => term_x[t] = 0

IInv == TypeOK /\ CursorsAgree /\ Mapped /\ RowsEnd /\ BlankAhead

-----------------------------------------------------------------------------
(* Positions                                                               *)

LEMMA Sizes == NumCols \in Nat /\ NumCols > 0 /\ NumRows \in Nat /\ NumRows > 0
BY ConstantsAssumption

LEMMA Monotone ==
    ASSUME NEW a \in Int, NEW b \in Int, a <= b, NEW n \in Nat
    PROVE  a * n <= b * n
OBVIOUS

LEMMA CellsType == NumCells \in Nat /\ NumCells > 0 /\ NumCols <= NumCells
<1>1. 1 * NumCols <= NumRows * NumCols
  BY Sizes, Monotone
<1>2. NumRows * NumCols \in Int
  BY Sizes
<1> QED
  BY <1>1, <1>2, Sizes DEF NumCells

LEMMA OffsetType ==
    ASSUME NEW x \in Int, NEW y \in Int
    PROVE  /\ Offset(x, y) \in Int
           /\ Offset(x + 1, y) = Offset(x, y) + 1
           /\ Offset(0, y + 1) = Offset(NumCols, y)
BY Sizes DEF Offset

\* A position on the screen is a cell, and its row is that of the position.
LEMMA OnScreen ==
    ASSUME NEW x \in 0 .. NumCols - 1, NEW y \in 0 .. NumRows - 1
    PROVE  /\ Offset(x, y) \in Cells
           /\ Offset(NumCols, y) \in Offsets
           /\ Offset(x, y) < Offset(NumCols, y)
           /\ Offset(x, y) \div NumCols = y
<1> DEFINE p == y * NumCols
<1>1. p \in Int /\ 0 <= p
  <2>1. 0 * NumCols <= y * NumCols
    BY Sizes, Monotone
  <2> QED
    BY <2>1, Sizes
<1>2. p + NumCols <= NumCells
  <2>1. (y + 1) * NumCols <= NumRows * NumCols
    BY Sizes, Monotone
  <2>2. (y + 1) * NumCols = p + NumCols
    BY Sizes
  <2> QED
    BY <2>1, <2>2 DEF NumCells
<1>3. Offset(x, y) = p + x /\ Offset(NumCols, y) = p + NumCols
  BY DEF Offset
<1>4. (p + x) \div NumCols = y
  <2> DEFINE q == (p + x) \div NumCols
  <2>1. q \in Int /\ q * NumCols <= p + x /\ p + x < q * NumCols + NumCols
    BY <1>1, Sizes
  <2>2. ~(q <= y - 1)
    <3>1. ASSUME q <= y - 1 PROVE q * NumCols <= (y - 1) * NumCols
      BY <3>1, <2>1, Sizes, Monotone
    <3>2. (y - 1) * NumCols = p - NumCols
      BY Sizes
    <3> QED
      BY <3>1, <3>2, <2>1, <1>1, Sizes
  <2>3. ~(y + 1 <= q)
    <3>1. ASSUME y + 1 <= q PROVE (y + 1) * NumCols <= q * NumCols
      BY <3>1, <2>1, Sizes, Monotone
    <3>2. (y + 1) * NumCols = p + NumCols
      BY Sizes
    <3> QED
      BY <3>1, <3>2, <2>1, <1>1, Sizes
  <2> HIDE DEF q
  <2> QED
    BY <2>1, <2>2, <2>3 DEF q
<1> HIDE DEF p
<1> QED
  BY <1>1, <1>2, <1>3, <1>4, Sizes, CellsType DEF Cells, Offsets

LEMMA LastRow ==
    /\ Offset(0, NumRows) = NumCells
    /\ Offset(0, NumRows - 1) = NumCells - NumCols
BY Sizes DEF Offset, NumCells

-----------------------------------------------------------------------------
(* Pages                                                                   *)

LEMMA Types ==
    ASSUME IInv
    PROVE  /\ memory \in [Pages -> [Offsets -> Chars]]
           /\ page_table \in [0 .. Alias -> Pages]
           /\ current_terminal \in Terminals
           /\ terminal_active \in [Terminals -> BOOLEAN]
           /\ screen_x \in 0 .. NumCols - 1 /\ screen_y \in 0 .. NumRows
           /\ term_x \in [Terminals -> 0 .. NumCols - 1]
           /\ term_y \in [Terminals -> 0 .. NumRows]
           /\ drawing \subseteq Terminals
BY DEF IInv, TypeOK

LEMMA CharsType ==
    /\ Blank \in Chars /\ Unknown \in Chars
    /\ \A t \in Terminals : t \in Chars /\ t # Blank
BY ConstantsAssumption DEF Chars, Blank, Unknown, Terminals

\* No two terminals have their screens on the same page.
LEMMA Holders ==
    ASSUME NEW t \in Terminals
    PROVE  /\ Holder(t) \in Pages /\ PageOf(t) \in Pages /\ PageOf(t) # Display
           /\ \A u \in Terminals : Holder(u) = Holder(t) => u = t
           /\ \A u \in Terminals : PageOf(u) = PageOf(t) => u = t
           /\ Holder(current_terminal) = Display
BY ConstantsAssumption DEF Holder, Pages, PageOf, Display, Terminals

\* A program's output reaches the page that its screen is on.
LEMMA TableHolds ==
    ASSUME IInv, NEW t \in Terminals
    PROVE  page_table[PageOf(t)] = Holder(t)
<1>1. PageOf(t) \in 0 .. Alias /\ PageOf(t) # Alias
  BY ConstantsAssumption DEF PageOf, Alias, Terminals
<1>2. PageOf(t) = PageOf(current_terminal) <=> t = current_terminal
  BY Types, ConstantsAssumption, SMTT(30) DEF PageOf, Terminals
<1> QED
  BY <1>1, <1>2 DEF IInv, Mapped, Holder

\* A write to the page of t's screen changes t's screen only.
LEMMA WriteText ==
    ASSUME IInv, NEW t \in Terminals, NEW page \in [Offsets -> Chars],
           memory' = [memory EXCEPT ![Holder(t)] = page], UNCHANGED current_terminal
    PROVE  /\ memory' \in [Pages -> [Offsets -> Chars]]
           /\ text' = [text EXCEPT ![t] = [i \in Cells |-> page[i]]]
<1>1. memory' \in [Pages -> [Offsets -> Chars]]
  BY Types, Holders
<1>2. \A u \in Terminals : Holder(u)' = Holder(u)
  BY DEF Holder
<1>3. ASSUME NEW u \in Terminals
      PROVE  memory'[Holder(u)] = IF u = t THEN page ELSE memory[Holder(u)]
  BY Types, Holders
<1>4. text' = [u \in Terminals |-> [i \in Cells |-> IF u = t THEN page[i] ELSE memory[Holder(u)][i]]]
  BY <1>2, <1>3 DEF text
<1> QED
  BY <1>1, <1>4, ZenonT(40) DEF text

\* A terminal gets a page and a position: what an operation has to show.
Shows(t, page, x, y) ==
    /\ page \in [Offsets -> Chars] /\ x \in 0 .. NumCols - 1 /\ y \in 0 .. NumRows
    /\ y = NumRows => x = 0
    /\ memory' = [memory EXCEPT ![Holder(t)] = page]
    /\ term_x' = [term_x EXCEPT ![t] = x] /\ term_y' = [term_y EXCEPT ![t] = y]
    /\ screen_x' = IF t = current_terminal THEN x ELSE screen_x
    /\ screen_y' = IF t = current_terminal THEN y ELSE screen_y
    /\ UNCHANGED <<page_table, terminalVars>>
    /\ terminal_active[t] /\ t \notin drawing =>
           \A i \in Offset(x, y) .. NumCells - 1 : page[i] = Blank

LEMMA ShowsRight ==
    ASSUME IInv, NEW t \in Terminals, NEW page, NEW x, NEW y, Shows(t, page, x, y)
    PROVE  /\ IInv'
           /\ text' = [text EXCEPT ![t] = [i \in Cells |-> page[i]]]
           /\ pos' = [pos EXCEPT ![t] = Offset(x, y)]
<1> USE DEF Shows
<1>1. UNCHANGED <<page_table, current_terminal, terminal_active, drawing>>
  BY DEF terminalVars
<1>2. /\ memory' \in [Pages -> [Offsets -> Chars]]
      /\ text' = [text EXCEPT ![t] = [i \in Cells |-> page[i]]]
  BY <1>1, WriteText
<1>3. TypeOK'
  BY <1>1, <1>2, Types DEF TypeOK
<1>4. pos' = [pos EXCEPT ![t] = Offset(x, y)]
  BY Types DEF pos, Offset
<1>5. CursorsAgree'
  BY <1>1, Types DEF IInv, CursorsAgree
<1>6. Mapped'
  BY <1>1 DEF IInv, Mapped
<1>7. RowsEnd'
  BY Types DEF IInv, RowsEnd
<1>8. BlankAhead'
  <2> SUFFICES ASSUME NEW u \in Terminals, terminal_active[u], u \notin drawing,
                      NEW i \in Offset(term_x'[u], term_y'[u]) .. NumCells - 1
               PROVE  memory'[Holder(u)][i] = Blank
    BY <1>1 DEF BlankAhead, Holder, Offset
  <2>1. memory'[Holder(u)] = IF u = t THEN page ELSE memory[Holder(u)]
    BY Types, Holders
  <2>2. CASE u = t
    BY <2>1, <2>2, Types
  <2>3. CASE u # t
    BY <2>1, <2>3, Types DEF IInv, BlankAhead
  <2> QED
    BY <2>2, <2>3
<1> QED
  BY <1>2, <1>3, <1>4, <1>5, <1>6, <1>7, <1>8 DEF IInv

\* Room for a character: the page may have scrolled.
LEMMA RoomRight ==
    ASSUME IInv, NEW t \in Terminals
    PROVE  /\ Row(t) \in 0 .. NumRows - 1
           /\ PageWithRoom(t) \in [Offsets -> Chars]
           /\ Offset(term_x[t], Row(t)) = Abstract!Room(t)
           /\ [i \in Cells |-> PageWithRoom(t)[i]] = Abstract!Scrolled(t)
           /\ terminal_active[t] /\ t \notin drawing =>
                 \A i \in Offset(term_x[t], Row(t)) .. NumCells - 1 : PageWithRoom(t)[i] = Blank
<1> DEFINE page == memory[Holder(t)]
<1>1. page \in [Offsets -> Chars] /\ term_x[t] \in 0 .. NumCols - 1 /\ term_y[t] \in 0 .. NumRows
  BY Types, Holders
<1>2. pos[t] = Offset(term_x[t], term_y[t]) /\ text[t] = [i \in Cells |-> page[i]]
  BY DEF pos, text
<1>3. PageWithRoom(t) = IF term_y[t] >= NumRows THEN Scrolled(page) ELSE page
  BY TableHolds DEF PageWithRoom
<1>4. terminal_active[t] /\ t \notin drawing =>
         \A i \in Offset(term_x[t], term_y[t]) .. NumCells - 1 : page[i] = Blank
  BY DEF IInv, BlankAhead
<1>5. CASE term_y[t] < NumRows
  <2>1. ~(term_y[t] >= NumRows) /\ term_y[t] \in 0 .. NumRows - 1
    BY <1>1, <1>5, Sizes
  <2>2. Row(t) = term_y[t] /\ PageWithRoom(t) = page
    BY <1>3, <2>1 DEF Row
  <2>3. Offset(term_x[t], term_y[t]) \in Cells
    BY <1>1, <2>1, OnScreen
  <2>4. pos[t] < NumCells
    BY <1>2, <2>3, CellsType DEF Cells
  <2>5. Abstract!Room(t) = pos[t] /\ Abstract!Scrolled(t) = text[t]
    BY <2>4 DEF Abstract!Room, Abstract!Scrolled, Abstract!NumCells, NumCells, pos, text, Cells
  <2> HIDE DEF page
  <2> QED
    BY <1>1, <1>2, <1>4, <2>1, <2>2, <2>5
<1>6. CASE ~(term_y[t] < NumRows)
  <2>1. term_y[t] >= NumRows /\ term_y[t] = NumRows /\ term_x[t] = 0
    BY <1>1, <1>6, Sizes DEF IInv, RowsEnd
  <2>2. Row(t) = NumRows - 1 /\ PageWithRoom(t) = Scrolled(page)
    BY <1>3, <2>1 DEF Row
  <2>3. pos[t] = NumCells /\ Offset(term_x[t], Row(t)) = NumCells - NumCols
    BY <1>2, <2>1, <2>2, LastRow
  <2>4. Scrolled(page) \in [Offsets -> Chars]
    BY <1>1, Sizes, CellsType, CharsType DEF Scrolled, Offsets
  <2>5. Abstract!Room(t) = NumCells - NumCols
    BY <2>3, CellsType DEF Abstract!Room, Abstract!NumCells, NumCells, pos
  <2>6. Abstract!Scrolled(t) = [i \in Cells |-> IF i + NumCols \in Cells THEN text[t][i + NumCols]
                                                ELSE Blank]
    BY <2>3, CellsType DEF Abstract!Scrolled, Abstract!NumCells, Abstract!Cells, NumCells, pos, text, Cells
  <2>7. \A i \in Cells : Scrolled(page)[i] = IF i + NumCols \in Cells THEN page[i + NumCols] ELSE Blank
    BY Sizes, CellsType DEF Scrolled, Offsets, Cells
  <2>8. \A i \in (NumCells - NumCols) .. NumCells - 1 : Scrolled(page)[i] = Blank
    BY Sizes, CellsType DEF Scrolled, Offsets
  <2>9. Row(t) \in 0 .. NumRows - 1
    BY <2>2, Sizes
  <2> HIDE DEF page
  <2>10. [i \in Cells |-> PageWithRoom(t)[i]] = Abstract!Scrolled(t)
    BY <1>2, <2>2, <2>6, <2>7
  <2> QED
    BY <2>2, <2>3, <2>4, <2>5, <2>8, <2>9, <2>10
<1> QED
  BY <1>5, <1>6

-----------------------------------------------------------------------------
(* The operations                                                          *)

LEMMA PutCharRight ==
    ASSUME IInv, NEW t \in Terminals, terminal_active[t], PutChar(t, t)
    PROVE  IInv' /\ Abstract!Put(t, t)
<1> DEFINE at == Offset(term_x[t], Row(t))
           page == [PageWithRoom(t) EXCEPT ![at] = t]
           wraps == term_x[t] + 1 >= NumCols
           x == IF wraps THEN 0 ELSE term_x[t] + 1
           y == IF wraps THEN Row(t) + 1 ELSE Row(t)
<1>1. SetTerminal(t, page, x, y)
  BY DEF PutChar
<1>2. /\ Row(t) \in 0 .. NumRows - 1 /\ PageWithRoom(t) \in [Offsets -> Chars]
      /\ at = Abstract!Room(t)
      /\ [i \in Cells |-> PageWithRoom(t)[i]] = Abstract!Scrolled(t)
      /\ t \notin drawing => \A i \in at .. NumCells - 1 : PageWithRoom(t)[i] = Blank
  BY RoomRight
<1>3. term_x[t] \in 0 .. NumCols - 1
  BY Types
<1>4. at \in Cells /\ at \in Int
  BY <1>2, <1>3, OnScreen, CellsType DEF Cells
<1>5. Offset(x, y) = at + 1
  <2>1. term_x[t] \in Int /\ Row(t) \in Int
    BY <1>2, <1>3
  <2>2. /\ Offset(term_x[t] + 1, Row(t)) = at + 1
        /\ Offset(0, Row(t) + 1) = Offset(NumCols, Row(t))
    BY <2>1, OffsetType
  <2>3. CASE wraps
    <3>1. term_x[t] + 1 = NumCols
      BY <1>3, <2>3, Sizes
    <3> QED
      BY <2>2, <2>3, <3>1
  <2>4. CASE ~wraps
    BY <2>2, <2>4
  <2> QED
    BY <2>3, <2>4
<1>6. x \in 0 .. NumCols - 1 /\ y \in 0 .. NumRows /\ (y = NumRows => x = 0)
  BY <1>2, <1>3, Sizes
<1>7. page \in [Offsets -> Chars]
  BY <1>2, <1>4, CharsType
<1>8. terminal_active[t] /\ t \notin drawing =>
         \A i \in Offset(x, y) .. NumCells - 1 : page[i] = Blank
  <2>1. t \notin drawing => \A i \in at + 1 .. NumCells - 1 : page[i] = Blank
    BY <1>2, <1>4, CellsType DEF Offsets
  <2> QED
    BY <1>5, <2>1
<1>9. [i \in Cells |-> page[i]] = [Abstract!Scrolled(t) EXCEPT ![at] = t]
  <2>1. Abstract!Scrolled(t) = [i \in Cells |-> PageWithRoom(t)[i]]
    BY <1>2
  <2>2. \A i \in Cells : i \in Offsets
    BY CellsType DEF Cells, Offsets
  <2>3. \A i \in Cells : page[i] = IF i = at THEN t ELSE PageWithRoom(t)[i]
    BY <1>2, <2>2
  <2> HIDE DEF at, page
  <2> QED
    BY <2>1, <2>3
<1> HIDE DEF at, page, x, y, wraps
<1>10. /\ IInv'
       /\ text' = [text EXCEPT ![t] = [i \in Cells |-> page[i]]]
       /\ pos' = [pos EXCEPT ![t] = Offset(x, y)]
  <2>1. memory' = [memory EXCEPT ![Holder(t)] = page]
    BY <1>1, TableHolds DEF SetTerminal
  <2>2. /\ term_x' = [term_x EXCEPT ![t] = x] /\ term_y' = [term_y EXCEPT ![t] = y]
        /\ screen_x' = IF t = current_terminal THEN x ELSE screen_x
        /\ screen_y' = IF t = current_terminal THEN y ELSE screen_y
        /\ UNCHANGED <<page_table, terminalVars>>
    BY <1>1 DEF SetTerminal
  <2>3. Shows(t, page, x, y)
    BY <1>6, <1>7, <1>8, <2>1, <2>2 DEF Shows
  <2> QED
    BY <2>3, ShowsRight
<1>11. Abstract!Put(t, t)
  BY <1>2, <1>5, <1>9, <1>10 DEF Abstract!Put, Abstract!Show, text, pos, Cells
<1> QED
  BY <1>10, <1>11

LEMMA PutNewlineRight ==
    ASSUME IInv, NEW t \in Terminals, terminal_active[t], PutNewline(t)
    PROVE  IInv' /\ Abstract!Newline(t)
<1> DEFINE at == Offset(term_x[t], Row(t))
           last == Offset(NumCols, Row(t))
           page == [i \in Offsets |-> IF i \in at .. last THEN Blank ELSE PageWithRoom(t)[i]]
<1>1. SetTerminal(t, page, 0, Row(t) + 1)
  BY DEF PutNewline
<1>2. /\ Row(t) \in 0 .. NumRows - 1 /\ PageWithRoom(t) \in [Offsets -> Chars]
      /\ at = Abstract!Room(t)
      /\ [i \in Cells |-> PageWithRoom(t)[i]] = Abstract!Scrolled(t)
      /\ t \notin drawing => \A i \in at .. NumCells - 1 : PageWithRoom(t)[i] = Blank
  BY RoomRight
<1>3. term_x[t] \in 0 .. NumCols - 1
  BY Types
<1>4. at \in Cells /\ last \in Offsets /\ at < last /\ at \div NumCols = Row(t)
  BY <1>2, <1>3, OnScreen
<1>5. Offset(0, Row(t) + 1) = last
  BY <1>2, OffsetType
<1>6. 0 \in 0 .. NumCols - 1 /\ Row(t) + 1 \in 0 .. NumRows
  BY <1>2, Sizes
<1>7. page \in [Offsets -> Chars]
  BY <1>2, CharsType
<1>8. terminal_active[t] /\ t \notin drawing =>
         \A i \in Offset(0, Row(t) + 1) .. NumCells - 1 : page[i] = Blank
  <2>1. t \notin drawing => \A i \in last .. NumCells - 1 : page[i] = Blank
    BY <1>2, <1>4, CellsType DEF Offsets, Cells
  <2> QED
    BY <1>5, <2>1
<1>9. [i \in Cells |-> page[i]] = [i \in Cells |-> IF i \in at .. last THEN Blank ELSE Abstract!Scrolled(t)[i]]
  <2>1. \A i \in Cells : i \in Offsets /\ Abstract!Scrolled(t)[i] = PageWithRoom(t)[i]
    BY <1>2, CellsType DEF Cells, Offsets
  <2> QED
    BY <2>1
<1>10. (Abstract!Room(t) \div NumCols + 1) * NumCols = last
  <2>1. Abstract!Room(t) \div NumCols = Row(t)
    BY <1>2, <1>4
  <2>2. (Row(t) + 1) * NumCols = last
    BY <1>2, Sizes DEF Offset
  <2> QED
    BY <2>1, <2>2
<1> HIDE DEF at, page, last
<1>11. /\ IInv'
       /\ text' = [text EXCEPT ![t] = [i \in Cells |-> page[i]]]
       /\ pos' = [pos EXCEPT ![t] = last]
  <2>1. memory' = [memory EXCEPT ![Holder(t)] = page]
    BY <1>1, TableHolds DEF SetTerminal
  <2>2. /\ term_x' = [term_x EXCEPT ![t] = 0] /\ term_y' = [term_y EXCEPT ![t] = Row(t) + 1]
        /\ screen_x' = IF t = current_terminal THEN 0 ELSE screen_x
        /\ screen_y' = IF t = current_terminal THEN Row(t) + 1 ELSE screen_y
        /\ UNCHANGED <<page_table, terminalVars>>
    BY <1>1 DEF SetTerminal
  <2>3. Shows(t, page, 0, Row(t) + 1)
    BY <1>6, <1>7, <1>8, <2>1, <2>2 DEF Shows
  <2> QED
    BY <1>5, <2>3, ShowsRight
<1>12. Abstract!Newline(t)
  BY <1>2, <1>9, <1>10, <1>11, ZenonT(40) DEF Abstract!Newline, Abstract!Show, Abstract!Cells,
     Abstract!NumCells, NumCells, text, pos, Cells
<1> QED
  BY <1>11, <1>12

\* The kernel's own functions write to the displayed page.
LEMMA SetDisplayShows ==
    ASSUME IInv, NEW page \in [Offsets -> Chars], NEW x \in 0 .. NumCols - 1, NEW y \in 0 .. NumRows,
           y = NumRows => x = 0, SetDisplay(page, x, y),
           terminal_active[current_terminal] /\ current_terminal \notin drawing =>
               \A i \in Offset(x, y) .. NumCells - 1 : page[i] = Blank
    PROVE  Shows(current_terminal, page, x, y)
BY Types, Holders DEF SetDisplay, Shows

LEMMA BackspaceRight == IInv /\ terminal_backspace => IInv' /\ Abstract!Backspace(current_terminal)
<1> SUFFICES ASSUME IInv, terminal_backspace
             PROVE  IInv' /\ Abstract!Backspace(current_terminal)
  OBVIOUS
<1> DEFINE t == current_terminal
           at == Offset(screen_x, screen_y)
           page == [memory[Display] EXCEPT ![at - 1] = Blank]
           x == IF screen_x = 0 THEN NumCols - 1 ELSE screen_x - 1
           y == IF screen_x = 0 THEN screen_y - 1 ELSE screen_y
<1>1. (screen_x # 0 \/ screen_y # 0) /\ SetDisplay(page, x, y)
  BY DEF terminal_backspace
<1>2. /\ t \in Terminals /\ memory[Display] \in [Offsets -> Chars] /\ Holder(t) = Display
      /\ screen_x \in 0 .. NumCols - 1 /\ screen_y \in 0 .. NumRows
      /\ screen_x = term_x[t] /\ screen_y = term_y[t]
      /\ screen_y = NumRows => screen_x = 0
  BY Types, Holders DEF IInv, CursorsAgree, RowsEnd
<1>3. x \in 0 .. NumCols - 1 /\ y \in 0 .. NumRows - 1
  BY <1>1, <1>2, Sizes
<1>4. Offset(x, y) = at - 1
  <2>1. CASE screen_x = 0
    <3>1. x = NumCols - 1 /\ y = screen_y - 1 /\ y \in Int /\ x \in Int
      BY <1>2, <2>1, Sizes
    <3>2. Offset(x + 1, y) = Offset(x, y) + 1 /\ Offset(0, y + 1) = Offset(NumCols, y) /\ Offset(x, y) \in Int
      BY <3>1, OffsetType
    <3>3. x + 1 = NumCols /\ y + 1 = screen_y
      BY <1>2, <3>1, Sizes
    <3> QED
      BY <2>1, <3>2, <3>3
  <2>2. CASE screen_x # 0
    <3>1. x = screen_x - 1 /\ y = screen_y /\ y \in Int /\ x \in Int
      BY <1>2, <2>2
    <3>2. Offset(x + 1, y) = Offset(x, y) + 1 /\ Offset(x, y) \in Int
      BY <3>1, OffsetType
    <3>3. x + 1 = screen_x
      BY <1>2, <3>1
    <3> QED
      BY <3>1, <3>2, <3>3
  <2> QED
    BY <2>1, <2>2
<1>5. Offset(x, y) \in Cells
  BY <1>3, OnScreen
<1>6. page \in [Offsets -> Chars]
  BY <1>2, CharsType
<1>7. at \in Int /\ at - 1 \in Offsets
  <2>1. screen_x \in Int /\ screen_y \in Int
    BY <1>2
  <2>2. at \in Int
    BY <2>1, OffsetType
  <2> QED
    BY <1>4, <1>5, <2>2, CellsType DEF Cells, Offsets
<1>8. terminal_active[t] /\ t \notin drawing => \A i \in Offset(x, y) .. NumCells - 1 : page[i] = Blank
  <2>1. terminal_active[t] /\ t \notin drawing =>
           \A i \in at .. NumCells - 1 : memory[Display][i] = Blank
    BY <1>2 DEF IInv, BlankAhead
  <2> QED
    BY <1>2, <1>4, <1>5, <1>7, <2>1, CellsType DEF Offsets, Cells
<1> HIDE DEF at, page, x, y
<1>9. /\ IInv'
      /\ text' = [text EXCEPT ![t] = [i \in Cells |-> page[i]]]
      /\ pos' = [pos EXCEPT ![t] = Offset(x, y)]
  <2>1. y \in 0 .. NumRows /\ y # NumRows
    BY <1>3, Sizes
  <2>2. Shows(t, page, x, y)
    BY <1>1, <1>3, <1>6, <1>8, <2>1, SetDisplayShows
  <2> QED
    BY <1>2, <2>2, ShowsRight
<1>10. pos[t] = at /\ pos[t] > 0
  <2>1. pos[t] = at
    BY <1>2 DEF pos, at
  <2> QED
    BY <1>4, <1>5, <1>7, <2>1 DEF Cells
<1>11. [i \in Cells |-> page[i]] = [text[t] EXCEPT ![at - 1] = Blank]
  <2>1. text[t] = [i \in Cells |-> memory[Display][i]]
    BY <1>2 DEF text
  <2>2. \A i \in Cells : page[i] = IF i = at - 1 THEN Blank ELSE memory[Display][i]
    BY <1>2, <1>7, CellsType DEF page, Offsets, Cells
  <2> QED
    BY <2>1, <2>2
<1> QED
  BY <1>4, <1>9, <1>10, <1>11 DEF Abstract!Backspace, Abstract!Show, text, pos, Cells

LEMMA ClearedType ==
    ASSUME NEW page \in [Offsets -> Chars]
    PROVE  /\ Cleared(page) \in [Offsets -> Chars]
           /\ \A i \in Cells : Cleared(page)[i] = Blank
           /\ [i \in Cells |-> Cleared(page)[i]] = Abstract!BlankScreen
<1>1. Cleared(page) \in [Offsets -> Chars]
  BY CharsType DEF Cleared
<1>2. \A i \in Cells : Cleared(page)[i] = Blank
  BY CellsType DEF Cleared, Cells, Offsets
<1> QED
  BY <1>1, <1>2 DEF Abstract!BlankScreen, Abstract!Cells, Abstract!NumCells, NumCells, Cells

LEMMA ClearRight == IInv /\ clear => IInv' /\ Abstract!Clear(current_terminal)
<1> SUFFICES ASSUME IInv, clear PROVE IInv' /\ Abstract!Clear(current_terminal)
  OBVIOUS
<1> DEFINE page == Cleared(memory[Display])
<1>1. current_terminal \in Terminals /\ memory[Display] \in [Offsets -> Chars]
  BY Types, Holders
<1>2. page \in [Offsets -> Chars] /\ \A i \in Cells : page[i] = Blank
  BY <1>1, ClearedType
<1>3. Offset(0, 0) = 0
  BY Sizes DEF Offset
<1>4. Shows(current_terminal, page, 0, 0)
  <2>1. 0 \in 0 .. NumCols - 1 /\ 0 \in 0 .. NumRows /\ 0 # NumRows
    BY Sizes
  <2>2. SetDisplay(page, 0, 0)
    BY DEF clear
  <2> HIDE DEF page
  <2>3. \A i \in Offset(0, 0) .. NumCells - 1 : page[i] = Blank
    BY <1>2, <1>3 DEF Cells
  <2> QED
    BY <1>2, <2>1, <2>2, <2>3, SetDisplayShows
<1>5. [i \in Cells |-> page[i]] = Abstract!BlankScreen
  BY <1>1, ClearedType
<1> HIDE DEF page
<1>6. /\ IInv'
      /\ text' = [text EXCEPT ![current_terminal] = [i \in Cells |-> page[i]]]
      /\ pos' = [pos EXCEPT ![current_terminal] = 0]
  BY <1>1, <1>3, <1>4, ShowsRight
<1> QED
  BY <1>5, <1>6 DEF Abstract!Clear, Abstract!Show, text, pos, Cells

LEMMA DrawRight ==
    ASSUME IInv, NEW t \in Terminals, NEW i \in Cells, Draw(t, i)
    PROVE  IInv' /\ Abstract!Draw(t, i, t)
<1> DEFINE page == [memory[Holder(t)] EXCEPT ![i] = t]
<1>1. /\ t \in drawing /\ memory' = [memory EXCEPT ![Holder(t)][i] = t]
      /\ UNCHANGED <<page_table, cursorVars, terminalVars>>
  BY TableHolds DEF Draw
<1>2. memory[Holder(t)] \in [Offsets -> Chars] /\ i \in Offsets /\ t \in Chars
  BY Types, Holders, CharsType, CellsType DEF Cells, Offsets
<1>3. page \in [Offsets -> Chars] /\ memory' = [memory EXCEPT ![Holder(t)] = page]
  BY <1>1, <1>2
<1>4. [j \in Cells |-> page[j]] = [text[t] EXCEPT ![i] = t]
  <2>1. text[t] = [j \in Cells |-> memory[Holder(t)][j]]
    BY DEF text
  <2>2. \A j \in Cells : j \in Offsets
    BY CellsType DEF Cells, Offsets
  <2>3. \A j \in Cells : page[j] = IF j = i THEN t ELSE memory[Holder(t)][j]
    BY <1>2, <2>2
  <2> HIDE DEF page
  <2> QED
    BY <2>1, <2>3
<1> HIDE DEF page
<1>5. /\ UNCHANGED <<screen_x, screen_y, term_x, term_y>>
      /\ term_x[t] \in 0 .. NumCols - 1 /\ term_y[t] \in 0 .. NumRows
      /\ term_x = [term_x EXCEPT ![t] = term_x[t]] /\ term_y = [term_y EXCEPT ![t] = term_y[t]]
  BY <1>1, Types DEF cursorVars
<1>6. /\ screen_x = IF t = current_terminal THEN term_x[t] ELSE screen_x
      /\ screen_y = IF t = current_terminal THEN term_y[t] ELSE screen_y
      /\ term_y[t] = NumRows => term_x[t] = 0
  BY DEF IInv, CursorsAgree, RowsEnd
<1>7. Shows(t, page, term_x[t], term_y[t])
  BY <1>1, <1>3, <1>5, <1>6 DEF Shows
<1>8. /\ IInv'
      /\ text' = [text EXCEPT ![t] = [j \in Cells |-> page[j]]]
      /\ pos' = [pos EXCEPT ![t] = Offset(term_x[t], term_y[t])]
  BY <1>7, ShowsRight
<1> QED
  BY <1>4, <1>8 DEF Abstract!Draw, Abstract!Show, text, pos, Cells

LEMMA VidmapRight ==
    ASSUME IInv, NEW t \in Terminals, vidmap(t)
    PROVE  IInv' /\ UNCHANGED <<text, pos>>
<1>1. /\ drawing' = drawing \cup {t}
      /\ UNCHANGED <<memory, page_table, current_terminal, terminal_active,
                     screen_x, screen_y, term_x, term_y>>
  BY DEF vidmap, cursorVars
<1>2. TypeOK'
  BY <1>1, Types DEF TypeOK
<1>3. CursorsAgree' /\ Mapped' /\ RowsEnd' /\ BlankAhead'
  BY <1>1 DEF IInv, CursorsAgree, Mapped, RowsEnd, BlankAhead, Holder
<1>4. UNCHANGED <<text, pos>>
  BY <1>1 DEF text, pos, Holder
<1> QED
  BY <1>2, <1>3, <1>4 DEF IInv

LEMMA SwitchRight ==
    ASSUME IInv, NEW t \in Terminals, SwitchTerminal(t)
    PROVE  /\ IInv'
           /\ Abstract!Clear(t) \/ UNCHANGED <<text, pos>>
<1> DEFINE old == current_terminal
           starts == ~terminal_active[t]
           x == IF starts THEN 0 ELSE term_x[t]
           y == IF starts THEN 0 ELSE term_y[t]
           page == IF starts THEN Cleared(memory[PageOf(t)]) ELSE memory[PageOf(t)]
<1>1. /\ old \in Terminals /\ t # old /\ PageOf(t) \in 0 .. Alias /\ PageOf(old) \in 0 .. Alias
      /\ Alias \in 0 .. Alias /\ Alias # PageOf(t) /\ Alias # PageOf(old)
      /\ PageOf(t) # PageOf(old) /\ PageOf(t) # Display /\ PageOf(old) # Display
      /\ PageOf(t) \in Pages /\ PageOf(old) \in Pages /\ Display \in Pages
  <2>1. old \in Terminals /\ t # old
    BY Types DEF SwitchTerminal
  <2>2. PageOf(t) \in Pages /\ PageOf(old) \in Pages /\ Display \in Pages
    BY <2>1 DEF Pages
  <2>3. PageOf(t) # PageOf(old) /\ PageOf(t) # Display /\ PageOf(old) # Display
    BY <2>1, Holders
  <2> QED
    BY <2>1, <2>2, <2>3, ConstantsAssumption DEF PageOf, Alias, Terminals
<1>2. /\ Remapped(t) = [v \in 0 .. Alias |-> IF v = PageOf(t) THEN Display
                                             ELSE IF v = Alias THEN PageOf(t) ELSE v]
  <2>1. page_table = [v \in 0 .. Alias |-> IF v = PageOf(old) THEN Display
                                           ELSE IF v = Alias THEN PageOf(old) ELSE v]
    BY DEF IInv, Mapped
  <2> QED
    BY <1>1, <2>1 DEF Remapped
<1>3. Remapped(t)[PageOf(old)] = PageOf(old) /\ Remapped(t)[Alias] = PageOf(t)
  BY <1>1, <1>2
<1>4. /\ memory \in [Pages -> [Offsets -> Chars]]
      /\ memory' = [[memory EXCEPT ![PageOf(old)] = memory[Display]] EXCEPT ![Display] = page]
  BY <1>1, <1>3, Types DEF SwitchTerminal
<1>5. /\ page_table' = Remapped(t) /\ current_terminal' = t
      /\ terminal_active' = [terminal_active EXCEPT ![t] = TRUE]
      /\ screen_x' = x /\ screen_y' = y
      /\ term_x' = [term_x EXCEPT ![old] = screen_x, ![t] = x]
      /\ term_y' = [term_y EXCEPT ![old] = screen_y, ![t] = y]
      /\ drawing' = drawing
  BY DEF SwitchTerminal
<1>6. /\ page \in [Offsets -> Chars]
      /\ starts => [i \in Cells |-> page[i]] = Abstract!BlankScreen /\ \A i \in Cells : page[i] = Blank
  <2>1. memory[PageOf(t)] \in [Offsets -> Chars]
    BY <1>1, <1>4
  <2> QED
    BY <2>1, ClearedType
<1>7. x \in 0 .. NumCols - 1 /\ y \in 0 .. NumRows /\ (y = NumRows => x = 0)
  BY Types, Sizes DEF IInv, RowsEnd
<1>8. /\ term_x \in [Terminals -> 0 .. NumCols - 1] /\ term_y \in [Terminals -> 0 .. NumRows]
      /\ screen_x = term_x[old] /\ screen_y = term_y[old]
  BY Types DEF IInv, CursorsAgree
<1>9. term_x' = [term_x EXCEPT ![t] = x] /\ term_y' = [term_y EXCEPT ![t] = y]
  BY <1>1, <1>5, <1>8
<1>10. \A u \in Terminals : Holder(u)' = IF u = t THEN Display ELSE PageOf(u)
  BY <1>5 DEF Holder
<1>11. \A u \in Terminals :
          memory'[Holder(u)'] = IF u = t THEN page ELSE memory[Holder(u)]
  <2>1. ASSUME NEW u \in Terminals, u # t
        PROVE  memory'[PageOf(u)] = memory[Holder(u)]
    <3>1. PageOf(u) \in Pages /\ PageOf(u) # Display /\ (PageOf(u) = PageOf(old) <=> u = old)
      BY <1>1, Holders
    <3> QED
      BY <1>1, <1>4, <3>1 DEF Holder
  <2>2. memory'[Display] = page
    BY <1>1, <1>4
  <2> QED
    BY <1>10, <2>1, <2>2
<1>12. TypeOK'
  <2>1. memory' \in [Pages -> [Offsets -> Chars]]
    BY <1>1, <1>4, <1>6
  <2>2. Remapped(t) \in [0 .. Alias -> Pages]
    BY <1>1, <1>2, ConstantsAssumption DEF Pages, PageOf, Alias, Display, Terminals
  <2>3. /\ term_x' \in [Terminals -> 0 .. NumCols - 1] /\ term_y' \in [Terminals -> 0 .. NumRows]
        /\ screen_x' \in 0 .. NumCols - 1 /\ screen_y' \in 0 .. NumRows
    BY <1>5, <1>7, <1>8, <1>9
  <2>4. terminal_active' \in [Terminals -> BOOLEAN] /\ drawing' \subseteq Terminals
    BY <1>5, Types
  <2> QED
    BY <1>5, <2>1, <2>2, <2>3, <2>4 DEF TypeOK
<1>13. CursorsAgree'
  BY <1>5, <1>8, <1>9 DEF CursorsAgree
<1>14. Mapped'
  BY <1>2, <1>5 DEF Mapped
<1>15. RowsEnd'
  BY <1>7, <1>8, <1>9 DEF IInv, RowsEnd
<1>16. BlankAhead'
  <2> SUFFICES ASSUME NEW u \in Terminals, terminal_active'[u], u \notin drawing,
                      NEW i \in Offset(term_x'[u], term_y'[u]) .. NumCells - 1
               PROVE  memory'[Holder(u)'][i] = Blank
    BY <1>5 DEF BlankAhead, Offset
  <2>1. CASE u # t
    <3>1. terminal_active[u] /\ term_x'[u] = term_x[u] /\ term_y'[u] = term_y[u]
      BY <1>5, <1>8, <1>9, <2>1, Types
    <3> QED
      BY <1>11, <2>1, <3>1 DEF IInv, BlankAhead
  <2>2. CASE u = t /\ ~starts
    <3>1. term_x'[u] = term_x[u] /\ term_y'[u] = term_y[u] /\ page = memory[Holder(u)]
      BY <1>1, <1>8, <1>9, <2>2 DEF Holder
    <3> QED
      BY <1>11, <2>2, <3>1 DEF IInv, BlankAhead
  <2>3. CASE u = t /\ starts
    <3>1. Offset(term_x'[u], term_y'[u]) = 0
      BY <1>8, <1>9, <2>3, Sizes DEF Offset
    <3> QED
      BY <1>6, <1>11, <2>3, <3>1 DEF Cells
  <2> QED
    BY <2>1, <2>2, <2>3
<1>17. text' = [u \in Terminals |-> IF u = t THEN [i \in Cells |-> page[i]] ELSE text[u]]
  BY <1>11 DEF text
<1>18. pos' = [pos EXCEPT ![t] = Offset(x, y)]
  BY <1>8, <1>9 DEF pos, Offset
<1>19. CASE starts
  <2>1. text' = [text EXCEPT ![t] = Abstract!BlankScreen]
    BY <1>6, <1>17, <1>19 DEF text
  <2>2. pos' = [pos EXCEPT ![t] = 0]
    <3>1. x = 0 /\ y = 0
      BY <1>19
    <3>2. Offset(0, 0) = 0
      BY Sizes DEF Offset
    <3> QED
      BY <1>18, <3>1, <3>2
  <2>3. Abstract!Clear(t)
    BY <2>1, <2>2 DEF Abstract!Clear, Abstract!Show, text, pos, Cells
  <2> QED
    BY <1>12, <1>13, <1>14, <1>15, <1>16, <2>3 DEF IInv
<1>20. CASE ~starts
  <2>1. text[t] = [i \in Cells |-> page[i]]
    BY <1>1, <1>20 DEF text, Holder
  <2>2. text' = text
    BY <1>17, <2>1 DEF text
  <2>3. pos' = pos
    BY <1>18, <1>20 DEF pos
  <2> QED
    BY <1>12, <1>13, <1>14, <1>15, <1>16, <2>2, <2>3 DEF IInv
<1> QED
  BY <1>19, <1>20

LEMMA InitRight == Init => IInv /\ Abstract!Init
<1> SUFFICES ASSUME Init PROVE IInv /\ Abstract!Init
  OBVIOUS
<1>1. 0 \in Terminals /\ 0 \in 0 .. NumCols - 1 /\ 0 \in 0 .. NumRows /\ NumRows # 0
  BY ConstantsAssumption DEF Terminals
<1>2. Offset(0, 0) = 0
  BY Sizes DEF Offset
<1>3. /\ memory = [p \in Pages |-> [i \in Offsets |->
                     IF p = Display /\ i < NumCells THEN Blank ELSE Unknown]]
      /\ current_terminal = 0 /\ screen_x = 0 /\ screen_y = 0
      /\ terminal_active = [t \in Terminals |-> t = 0]
      /\ term_x = [t \in Terminals |-> 0] /\ term_y = [t \in Terminals |-> 0]
      /\ drawing = {}
  BY DEF Init
<1>4. memory \in [Pages -> [Offsets -> Chars]]
  BY <1>3, CharsType
<1>5. TypeOK
  <2>1. page_table \in [0 .. Alias -> Pages]
    BY ConstantsAssumption DEF Init, Pages, PageOf, Alias, Display, Terminals
  <2> QED
    BY <1>1, <1>3, <1>4, <2>1 DEF TypeOK
<1>6. CursorsAgree /\ RowsEnd /\ Mapped
  BY <1>1, <1>3 DEF Init, CursorsAgree, RowsEnd, Mapped
<1>7. \A i \in Cells : memory[Display][i] = Blank
  <2>1. \A i \in Cells : i \in Offsets /\ i < NumCells
    BY CellsType DEF Cells, Offsets
  <2> QED
    BY <1>3, <2>1 DEF Pages
<1>8. BlankAhead
  BY <1>1, <1>2, <1>3, <1>7 DEF BlankAhead, Holder, Cells
<1>9. text \in [Terminals -> [Cells -> Chars]]
  <2>1. \A t \in Terminals, i \in Cells : memory[Holder(t)][i] \in Chars
    BY <1>4, Holders, CellsType DEF Cells, Offsets
  <2> QED
    BY <2>1 DEF text
<1>10. text[0] = Abstract!BlankScreen
  BY <1>1, <1>3, <1>7 DEF text, Holder, Abstract!BlankScreen, Abstract!Cells, Abstract!NumCells,
     NumCells, Cells
<1>11. pos = [t \in Terminals |-> 0]
  BY <1>2, <1>3 DEF pos
<1> QED
  BY <1>5, <1>6, <1>8, <1>9, <1>10, <1>11 DEF IInv, Abstract!Init, Abstract!Terminals, Abstract!Cells,
     Abstract!NumCells, NumCells, Terminals, Cells, text, pos

-----------------------------------------------------------------------------
(* The theorems                                                            *)

LEMMA StepRight == IInv /\ [Next]_vars => IInv' /\ [Abstract!Next]_(Abstract!vars)
<1> SUFFICES ASSUME IInv, [Next]_vars PROVE IInv' /\ [Abstract!Next]_(Abstract!vars)
  OBVIOUS
<1>1. \A t \in Terminals : t \in Abstract!Terminals /\ t \in Chars
  BY CharsType DEF Abstract!Terminals, Terminals
<1>2. current_terminal \in Terminals
  BY Types
<1>3. UNCHANGED <<text, pos>> => UNCHANGED Abstract!vars
  BY DEF Abstract!vars, text, pos, Cells
<1>4. ASSUME NEW t \in Terminals, Output(t) PROVE IInv' /\ Abstract!Next
  BY <1>1, <1>4, PutCharRight, PutNewlineRight DEF Output, Abstract!Next
<1>5. ASSUME NEW t \in Terminals, vidmap(t) PROVE IInv' /\ UNCHANGED Abstract!vars
  BY <1>3, <1>5, VidmapRight
<1>6. ASSUME NEW t \in Terminals, SwitchTerminal(t)
      PROVE  IInv' /\ [Abstract!Next]_(Abstract!vars)
  BY <1>1, <1>3, <1>6, SwitchRight DEF Abstract!Next
<1>7. ASSUME NEW t \in Terminals, NEW i \in Cells, Draw(t, i) PROVE IInv' /\ Abstract!Next
  <2>1. i \in Abstract!Cells
    BY DEF Abstract!Cells, Abstract!NumCells, NumCells, Cells
  <2> QED
    BY <1>1, <1>7, <2>1, DrawRight DEF Abstract!Next
<1>8. CASE terminal_backspace
  <2>1. IInv' /\ Abstract!Backspace(current_terminal)
    BY <1>8, BackspaceRight
  <2>2. \E t \in Terminals : Abstract!Backspace(t)
    BY <1>2, <2>1 DEF Abstract!Backspace, Abstract!Show
  <2> QED
    BY <1>1, <2>1, <2>2 DEF Abstract!Next
<1>9. CASE clear
  <2>1. IInv' /\ Abstract!Clear(current_terminal)
    BY <1>9, ClearRight
  <2>2. \E t \in Terminals : Abstract!Clear(t)
    BY <1>2, <2>1 DEF Abstract!Clear, Abstract!Show
  <2> QED
    BY <1>1, <2>1, <2>2 DEF Abstract!Next
<1>10. CASE UNCHANGED vars
  <2>1. UNCHANGED <<memory, page_table, current_terminal, terminal_active, screen_x, screen_y,
                    term_x, term_y, drawing>>
    BY <1>10 DEF vars, cursorVars, terminalVars
  <2>2. IInv'
    BY <2>1 DEF IInv, TypeOK, CursorsAgree, Mapped, RowsEnd, BlankAhead, Holder
  <2>3. UNCHANGED <<text, pos>>
    BY <2>1 DEF text, pos, Holder
  <2> QED
    BY <1>3, <2>2, <2>3
<1> QED
  BY <1>4, <1>5, <1>6, <1>7, <1>8, <1>9, <1>10 DEF Next, Cells

\* The inductive invariant: types, the two copies of the cursor, the page table, the last row,
\* and the blank rest of every screen.
THEOREM Invariance == Spec => []IInv
<1>1. Init => IInv
  BY InitRight
<1>2. IInv /\ [Next]_vars => IInv'
  BY StepRight
<1> QED
  BY <1>1, <1>2, PTL DEF Spec

\* For any number of terminals and any size of the screen: no cursor leaves the screen, and
\* every position is on the screen or at the start of the row to scroll in.
THEOREM TypeCorrect == Spec => []TypeOK
<1>1. IInv => TypeOK
  BY DEF IInv
<1> QED
  BY <1>1, Invariance, PTL

\* The two copies of the displayed terminal's position agree.
THEOREM CursorsStayTogether == Spec => []CursorsAgree
<1>1. IInv => CursorsAgree
  BY DEF IInv
<1> QED
  BY <1>1, Invariance, PTL

\* No output is ever behind the cursor of a terminal whose program does not draw.
THEOREM BlankBehindCursor == Spec => []BlankAhead
<1>1. IInv => BlankAhead
  BY DEF IInv
<1> QED
  BY <1>1, Invariance, PTL

\* The displayed page, the pages of the terminals and the page table implement one
\* independent screen per terminal.
THEOREM Refinement == Spec => ScreensIndependent
<1>1. Init => Abstract!Init
  BY InitRight
<1>2. IInv /\ [Next]_vars => [Abstract!Next]_(Abstract!vars)
  BY StepRight
<1> QED
  BY <1>1, <1>2, Invariance, PTL DEF Spec, ScreensIndependent, Abstract!Spec
=============================================================================
