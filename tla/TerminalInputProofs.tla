------------------------ MODULE TerminalInputProofs ------------------------
(***************************************************************************)
(* Proofs about TerminalInput, for any number of terminals and any size of *)
(* the buffers.  What is said about lines holds if the user leaves a       *)
(* finished line alone until it is read.                                   *)
(***************************************************************************)
EXTENDS TerminalInput, TLAPS

\* Neither type_ahead nor switch_away.
UserWaits == Situations = {}

Reader == [pc : {"idle", "wait", "copy", "clear"}, nbytes : Nat, n : Nat,
           i : 0 .. BufferSize, buf : Seq(Bytes)]

TypeInv == TypeOK /\ reader \in [Terminals -> Reader]

\* An unfinished line leaves room for Enter, and a finished one is on the screen.
RoomInv ==
    /\ ~overrun
    /\ \A t \in Terminals :
          /\ Index(t) = Len(typed[t])
          /\ Len(typed[t]) <= BufferSize
          /\ Settled(t) => Len(typed[t]) < BufferSize
          /\ ~Settled(t) => t = current_terminal

\* The buffer of terminal t holds its line.
Holds(t) ==
    \A k \in 1 .. Len(typed[t]) : terminal_buffers[t * BufferSize + k - 1] = typed[t][k]

\* What a read of terminal t returns.
Returned(t) == SubSeq(typed[t], 1, Min({reader[t].nbytes, Len(typed[t])}))

\* A read in progress will return the line, or has got it already.
ReadInv ==
    \A t \in Terminals :
        /\ reader[t].pc # "clear" => Holds(t)
        /\ reader[t].pc = "copy" => reader[t].n = Min({reader[t].nbytes, Len(typed[t])})
        /\ reader[t].pc = "clear" => reader[t].buf = Returned(t)

IInv == TypeInv /\ RoomInv /\ ReadInv

-----------------------------------------------------------------------------
(* Addresses                                                               *)

LEMMA Sizes ==
    /\ NumTerminals \in Nat /\ BufferSize \in Nat /\ BufferSize > 0
    /\ IndexRange \in Nat /\ BufferSize < IndexRange
    /\ Terminals \subseteq Nat /\ \A t \in Terminals : t <= NumTerminals - 1
BY ConstantsAssumption DEF Terminals

LEMMA Monotone ==
    ASSUME NEW a \in Int, NEW b \in Int, a <= b
    PROVE  a * BufferSize <= b * BufferSize
BY Sizes

\* A line's bytes are inside the array ...
LEMMA InMemory ==
    ASSUME NEW t \in Terminals, NEW k \in 0 .. BufferSize - 1
    PROVE  t * BufferSize + k \in Memory
<1> DEFINE p == t * BufferSize
           q == (NumTerminals - 1) * BufferSize
<1>1. t \in Nat /\ t <= NumTerminals - 1 /\ NumTerminals - 1 \in Int
  BY Sizes
<1>2. p <= q /\ p \in Nat /\ q \in Int
  BY <1>1, Monotone, Sizes
<1>3. q = NumTerminals * BufferSize - BufferSize /\ NumTerminals * BufferSize \in Int
  BY Sizes
<1> HIDE DEF p, q
<1>4. k \in Nat /\ k < BufferSize
  BY Sizes
<1>5. p + k \in Nat /\ p + k <= NumTerminals * BufferSize - 1
  BY <1>2, <1>3, <1>4, Sizes
<1> QED
  BY <1>3, <1>5 DEF Memory, p

\* ... and those of two terminals, or two places in a line, are different.
LEMMA Apart ==
    ASSUME NEW t \in Terminals, NEW u \in Terminals,
           NEW j \in 0 .. BufferSize - 1, NEW k \in 0 .. BufferSize - 1,
           t * BufferSize + j = u * BufferSize + k
    PROVE  t = u /\ j = k
<1> DEFINE p == t * BufferSize
           q == u * BufferSize
<1>1. t \in Nat /\ u \in Nat /\ p \in Int /\ q \in Int
  BY Sizes
<1>2. ASSUME NEW a \in Nat, NEW b \in Nat, a < b
      PROVE  a * BufferSize + BufferSize <= b * BufferSize
  <2>1. (a + 1) * BufferSize <= b * BufferSize
    BY <1>2, Monotone
  <2>2. (a + 1) * BufferSize = a * BufferSize + BufferSize
    BY Sizes
  <2> QED
    BY <2>1, <2>2
<1>3. t < u => p + BufferSize <= q
  BY <1>1, <1>2
<1>4. u < t => q + BufferSize <= p
  BY <1>1, <1>2
<1>5. j \in Nat /\ k \in Nat /\ j < BufferSize /\ k < BufferSize /\ p + j = q + k
  BY Sizes
<1>6. t = u
  <2> HIDE DEF p, q
  <2> QED
    BY <1>1, <1>3, <1>4, <1>5, Sizes
<1>7. p = q
  BY <1>6
<1> HIDE DEF p, q
<1> QED
  BY <1>1, <1>5, <1>6, <1>7

LEMMA MinRight ==
    ASSUME NEW a \in Nat, NEW b \in Nat
    PROVE  Min({a, b}) \in Nat /\ Min({a, b}) <= a /\ Min({a, b}) <= b
<1>1. Min({a, b}) = IF a <= b THEN a ELSE b
  BY DEF Min
<1> QED
  BY <1>1

-----------------------------------------------------------------------------
(* Types                                                                   *)

LEMMA NextIndex ==
    ASSUME NEW n \in 0 .. IndexRange - 1
    PROVE  /\ (n + 1) % IndexRange \in 0 .. IndexRange - 1
           /\ n < BufferSize => (n + 1) % IndexRange = n + 1
<1>1. \A r \in Nat \ {0} : \A k \in Nat : (k + 1) % r \in 0 .. r - 1
  OBVIOUS
<1>2. \A r \in Nat, b \in Nat, k \in Nat : k < b /\ b < r => (k + 1) % r = k + 1
  OBVIOUS
<1>3. n \in Nat /\ IndexRange \in Nat \ {0}
  BY Sizes
<1> QED
  BY <1>1, <1>2, <1>3, Sizes

LEMMA StoreType ==
    ASSUME TypeOK, NEW a, NEW c \in Bytes, Store(a, c)
    PROVE  terminal_buffers' \in [Memory -> Bytes] /\ overrun' \in BOOLEAN
BY DEF TypeOK, Store

LEMMA SpecialBytes == NewLine \in Bytes /\ Nul \in Bytes /\ Chars \subseteq Bytes
BY DEF Bytes

LEMMA LoadType ==
    ASSUME TypeOK, NEW a
    PROVE  Load(a) \in Bytes
BY SpecialBytes DEF TypeOK, Load

\* reader has the right type as soon as its records have.
LEMMA ReaderTypes ==
    ASSUME reader \in [Terminals -> Reader],
           \A t \in Terminals : reader[t].n \in 0 .. reader[t].nbytes
    PROVE  \A t \in Terminals :
          /\ reader[t].pc \in {"idle", "wait", "copy", "clear"}
          /\ reader[t].nbytes \in Nat
          /\ reader[t].n \in 0 .. reader[t].nbytes
          /\ reader[t].i \in 0 .. BufferSize
          /\ reader[t].buf \in Seq(Bytes)
BY DEF Reader

\* Backspace takes the last character off a line.
LEMMA Shortened ==
    ASSUME NEW s \in Seq(Bytes)
    PROVE  /\ SubSeq(s, 1, Len(s) - 1) \in Seq(Bytes)
           /\ Len(s) > 0 => /\ Len(SubSeq(s, 1, Len(s) - 1)) = Len(s) - 1
                            /\ \A k \in 1 .. Len(s) - 1 : SubSeq(s, 1, Len(s) - 1)[k] = s[k]
<1>1. CASE Len(s) = 0
  <2>1. SubSeq(s, 1, Len(s) - 1) = <<>>
    BY <1>1
  <2> QED
    BY <1>1, <2>1
<1>2. CASE Len(s) # 0
  <2> DEFINE n == Len(s) - 1
  <2>1. n \in Nat /\ n <= Len(s) /\ Len(s) \in Nat
    BY <1>2
  <2> HIDE DEF n
  <2>2. /\ SubSeq(s, 1, n) \in Seq(Bytes) /\ Len(SubSeq(s, 1, n)) = n
        /\ \A k \in 1 .. n : SubSeq(s, 1, n)[k] = s[k]
    BY <2>1
  <2> QED
    BY <2>2 DEF n
<1> QED
  BY <1>1, <1>2

\* A key that stores a byte and changes the length of the line on the screen.
LEMMA KeyTypes ==
    ASSUME TypeInv, NEW a, NEW c \in Bytes, Store(a, c), NEW s \in Seq(Bytes),
           buffer_index' \in 0 .. IndexRange - 1,
           typed' = [typed EXCEPT ![current_terminal] = s],
           enter_state' \in [Terminals -> BOOLEAN],
           UNCHANGED <<keyboardVars, reader>>
    PROVE  TypeInv'
<1>1. terminal_buffers' \in [Memory -> Bytes] /\ overrun' \in BOOLEAN
  BY StoreType DEF TypeInv
<1>2. buffer_indices' = buffer_indices /\ current_terminal' = current_terminal /\ reader' = reader
  BY DEF keyboardVars
<1>3. typed' \in [Terminals -> Seq(Bytes)]
  BY DEF TypeInv, TypeOK
<1> QED
  BY <1>1, <1>2, <1>3, Zenon DEF TypeInv, TypeOK

LEMMA PrintableKeyTypes ==
    ASSUME TypeInv, NEW c \in Chars, PrintableKey(c)
    PROVE  TypeInv'
<1>1. /\ buffer_index \in 0 .. IndexRange - 1 /\ typed[current_terminal] \in Seq(Bytes)
      /\ enter_state \in [Terminals -> BOOLEAN]
  BY DEF TypeInv, TypeOK
<1>2. Append(typed[current_terminal], c) \in Seq(Bytes)
  BY <1>1, SpecialBytes
<1>3. c \in Bytes /\ buffer_index' \in 0 .. IndexRange - 1
  BY <1>1, NextIndex, SpecialBytes DEF PrintableKey
<1> QED
  BY <1>1, <1>2, <1>3, KeyTypes DEF PrintableKey

LEMMA EnterKeyTypes ==
    ASSUME TypeInv, EnterKey
    PROVE  TypeInv'
<1>1. /\ buffer_index \in 0 .. IndexRange - 1 /\ typed[current_terminal] \in Seq(Bytes)
      /\ enter_state \in [Terminals -> BOOLEAN]
  BY DEF TypeInv, TypeOK
<1>2. Append(typed[current_terminal], NewLine) \in Seq(Bytes)
  BY <1>1, SpecialBytes
<1>3. NewLine \in Bytes /\ buffer_index' \in 0 .. IndexRange - 1
  BY <1>1, NextIndex, SpecialBytes DEF EnterKey
<1>4. enter_state' \in [Terminals -> BOOLEAN]
  BY <1>1 DEF EnterKey
<1> QED
  BY <1>1, <1>2, <1>3, <1>4, KeyTypes DEF EnterKey

LEMMA BackspaceKeyTypes ==
    ASSUME TypeInv, BackspaceKey
    PROVE  TypeInv'
<1>1. /\ buffer_index \in 0 .. IndexRange - 1 /\ typed[current_terminal] \in Seq(Bytes)
      /\ enter_state \in [Terminals -> BOOLEAN]
  BY DEF TypeInv, TypeOK
<1>2. SubSeq(typed[current_terminal], 1, Len(typed[current_terminal]) - 1) \in Seq(Bytes)
  BY <1>1, Shortened
<1>3. Nul \in Bytes /\ buffer_index' \in 0 .. IndexRange - 1
  <2>1. \A r \in Nat : \A n \in 0 .. r - 1 : n # 0 => n - 1 \in 0 .. r - 1
    OBVIOUS
  <2> QED
    BY <1>1, <2>1, Sizes, SpecialBytes DEF BackspaceKey
<1> QED
  BY <1>1, <1>2, <1>3, KeyTypes DEF BackspaceKey

LEMMA SwitchTerminalTypes ==
    ASSUME TypeInv, NEW t \in Terminals, SwitchTerminal(t)
    PROVE  TypeInv'
<1>1. /\ buffer_indices' = [buffer_indices EXCEPT ![current_terminal] = buffer_index]
      /\ buffer_index' = buffer_indices[t]
      /\ current_terminal' = t
      /\ terminal_buffers' = terminal_buffers /\ enter_state' = enter_state /\ reader' = reader
      /\ overrun' = overrun /\ typed' = typed
  BY DEF SwitchTerminal
<1>2. /\ buffer_indices' \in [Terminals -> 0 .. IndexRange - 1]
      /\ buffer_index' \in 0 .. IndexRange - 1
  BY <1>1 DEF TypeInv, TypeOK
<1> QED
  BY <1>1, <1>2, Zenon DEF TypeInv, TypeOK

\* A step of terminal_read changes the record of its own terminal.
LEMMA ReadTypes ==
    ASSUME TypeInv, NEW t \in Terminals, NEW r \in Reader, r.n \in 0 .. r.nbytes,
           reader' = [reader EXCEPT ![t] = r],
           terminal_buffers' \in [Memory -> Bytes], overrun' \in BOOLEAN,
           buffer_index' \in 0 .. IndexRange - 1,
           enter_state' \in [Terminals -> BOOLEAN],
           typed' \in [Terminals -> Seq(Bytes)],
           UNCHANGED keyboardVars
    PROVE  TypeInv'
<1>1. buffer_indices' = buffer_indices /\ current_terminal' = current_terminal
  BY DEF keyboardVars
<1>2. reader' \in [Terminals -> Reader]
  BY DEF TypeInv
<1>3. \A u \in Terminals : reader'[u].n \in 0 .. reader'[u].nbytes
  <2>1. ASSUME NEW u \in Terminals PROVE reader'[u] = IF u = t THEN r ELSE reader[u]
    BY DEF TypeInv
  <2> QED
    BY <2>1, Zenon DEF TypeInv, TypeOK
<1>4. \A u \in Terminals :
          /\ reader'[u].pc \in {"idle", "wait", "copy", "clear"}
          /\ reader'[u].nbytes \in Nat
          /\ reader'[u].i \in 0 .. BufferSize
          /\ reader'[u].buf \in Seq(Bytes)
  BY <1>2 DEF Reader
<1> QED
  BY <1>1, <1>2, <1>3, <1>4, Zenon DEF TypeInv, TypeOK

LEMMA IdleType == Idle \in Reader /\ Idle.n \in 0 .. Idle.nbytes
<1>1. <<>> \in Seq(Bytes) /\ 0 \in 0 .. BufferSize
  BY Sizes
<1> QED
  BY <1>1 DEF Idle, Reader

\* The changes that the steps of terminal_read make to their record.
LEMMA CallChange ==
    ASSUME NEW x \in Reader, NEW n \in Nat
    PROVE  LET r == [x EXCEPT !.pc = "wait", !.nbytes = n]
           IN  r \in Reader /\ r.pc = "wait" /\ r.nbytes = n /\ r.n = x.n
BY DEF Reader

LEMMA WakeChange ==
    ASSUME NEW x \in Reader, NEW n \in Nat
    PROVE  LET r == [x EXCEPT !.pc = "copy", !.n = n]
           IN  r \in Reader /\ r.pc = "copy" /\ r.nbytes = x.nbytes /\ r.n = n
BY DEF Reader

LEMMA CopyChange ==
    ASSUME NEW x \in Reader, NEW b \in Seq(Bytes)
    PROVE  LET r == [x EXCEPT !.pc = "clear", !.i = 0, !.buf = b]
           IN  r \in Reader /\ r.pc = "clear" /\ r.nbytes = x.nbytes /\ r.n = x.n /\ r.buf = b
<1>1. 0 \in 0 .. BufferSize
  BY Sizes
<1> QED
  BY <1>1 DEF Reader

LEMMA ClearChange ==
    ASSUME NEW x \in Reader, NEW k \in 0 .. BufferSize
    PROVE  LET r == [x EXCEPT !.i = k]
           IN  r \in Reader /\ r.pc = x.pc /\ r.nbytes = x.nbytes /\ r.n = x.n /\ r.buf = x.buf
BY DEF Reader

LEMMA ReadCallTypes ==
    ASSUME TypeInv, NEW t \in Terminals, NEW n \in ReadSizes, ReadCall(t, n)
    PROVE  TypeInv'
<1> DEFINE r == [Idle EXCEPT !.pc = "wait", !.nbytes = n]
<1>1. n \in Nat
  BY ConstantsAssumption
<1>2. r \in Reader /\ r.n \in 0 .. r.nbytes
  <2>1. r \in Reader /\ r.nbytes = n /\ r.n = 0
    BY <1>1, IdleType, CallChange, Zenon DEF Idle
  <2> HIDE DEF r
  <2> QED
    BY <1>1, <2>1
<1>3. /\ reader' = [reader EXCEPT ![t] = r]
      /\ terminal_buffers' = terminal_buffers /\ overrun' = overrun
      /\ buffer_index' = buffer_index /\ enter_state' = enter_state /\ typed' = typed
      /\ UNCHANGED keyboardVars
  BY DEF ReadCall
<1>4. /\ terminal_buffers \in [Memory -> Bytes] /\ overrun \in BOOLEAN
      /\ buffer_index \in 0 .. IndexRange - 1
      /\ enter_state \in [Terminals -> BOOLEAN] /\ typed \in [Terminals -> Seq(Bytes)]
  BY DEF TypeInv, TypeOK
<1> HIDE DEF r
<1> QED
  BY <1>2, <1>3, <1>4, ReadTypes

LEMMA ReadWakeTypes ==
    ASSUME TypeInv, NEW t \in Terminals, ReadWake(t)
    PROVE  TypeInv'
<1> DEFINE n == Min({reader[t].nbytes, buffer_index})
           r == [reader[t] EXCEPT !.pc = "copy", !.n = n]
<1>1. reader[t] \in Reader /\ reader[t].nbytes \in Nat /\ buffer_index \in Nat
  BY DEF TypeInv, TypeOK, Reader
<1>2. n \in Nat /\ n <= reader[t].nbytes
  BY <1>1, MinRight
<1> HIDE DEF n
<1>3. r \in Reader /\ r.n \in 0 .. r.nbytes
  <2>1. r \in Reader /\ r.nbytes = reader[t].nbytes /\ r.n = n
    BY <1>1, <1>2, WakeChange, Zenon
  <2> HIDE DEF r
  <2> QED
    BY <1>1, <1>2, <2>1
<1>4. /\ reader' = [reader EXCEPT ![t] = r]
      /\ terminal_buffers' = terminal_buffers /\ overrun' = overrun
      /\ buffer_index' = buffer_index /\ enter_state' = enter_state /\ typed' = typed
      /\ UNCHANGED keyboardVars
  BY DEF ReadWake, n, TypeInv
<1>5. /\ terminal_buffers \in [Memory -> Bytes] /\ overrun \in BOOLEAN
      /\ buffer_index \in 0 .. IndexRange - 1
      /\ enter_state \in [Terminals -> BOOLEAN] /\ typed \in [Terminals -> Seq(Bytes)]
  BY DEF TypeInv, TypeOK
<1> HIDE DEF r
<1> QED
  BY <1>3, <1>4, <1>5, ReadTypes

\* The bytes that ReadCopy copies.
Copied(t) == [k \in 1 .. reader[t].n |-> Load(Address(k - 1))]

LEMMA CopiedType ==
    ASSUME TypeInv, NEW t \in Terminals
    PROVE  Copied(t) \in Seq(Bytes)
<1>1. reader[t].n \in Nat
  BY DEF TypeInv, Reader
<1>2. \A k \in 1 .. reader[t].n : Load(Address(k - 1)) \in Bytes
  BY LoadType DEF TypeInv
<1> QED
  BY <1>1, <1>2 DEF Copied

LEMMA ReadCopyTypes ==
    ASSUME TypeInv, NEW t \in Terminals, ReadCopy(t)
    PROVE  TypeInv'
<1> DEFINE b == Copied(t)
           r == [reader[t] EXCEPT !.pc = "clear", !.i = 0, !.buf = b]
<1>1. reader[t] \in Reader /\ b \in Seq(Bytes) /\ reader[t].n \in 0 .. reader[t].nbytes
  BY CopiedType DEF TypeInv, TypeOK
<1> HIDE DEF b
<1>2. r \in Reader /\ r.n \in 0 .. r.nbytes
  <2>1. r \in Reader /\ r.nbytes = reader[t].nbytes /\ r.n = reader[t].n
    BY <1>1, CopyChange, Zenon
  <2> HIDE DEF r
  <2> QED
    BY <1>1, <2>1
<1>3. /\ reader' = [reader EXCEPT ![t] = r]
      /\ terminal_buffers' = terminal_buffers /\ overrun' = overrun
      /\ buffer_index' = buffer_index /\ typed' = typed
      /\ enter_state' = [enter_state EXCEPT ![t] = FALSE]
      /\ UNCHANGED keyboardVars
  BY DEF ReadCopy, b, Copied, TypeInv
<1>4. /\ terminal_buffers \in [Memory -> Bytes] /\ overrun \in BOOLEAN
      /\ buffer_index \in 0 .. IndexRange - 1
      /\ enter_state' \in [Terminals -> BOOLEAN] /\ typed \in [Terminals -> Seq(Bytes)]
  BY <1>3 DEF TypeInv, TypeOK
<1> HIDE DEF r
<1> QED
  BY <1>2, <1>3, <1>4, ReadTypes

LEMMA ReadClearTypes ==
    ASSUME TypeInv, NEW t \in Terminals, ReadClear(t)
    PROVE  TypeInv'
<1> DEFINE k == reader[t].i + 1
           r == [reader[t] EXCEPT !.i = k]
<1>1. reader[t] \in Reader /\ reader[t].n \in 0 .. reader[t].nbytes /\ reader[t].i \in 0 .. BufferSize
  BY DEF TypeInv, TypeOK
<1>2. k \in 0 .. BufferSize
  BY <1>1, Sizes DEF ReadClear
<1> HIDE DEF k
<1>3. r \in Reader /\ r.n \in 0 .. r.nbytes
  <2>1. r \in Reader /\ r.nbytes = reader[t].nbytes /\ r.n = reader[t].n
    BY <1>1, <1>2, ClearChange, Zenon
  <2> HIDE DEF r
  <2> QED
    BY <1>1, <2>1
<1>4. /\ reader' = [reader EXCEPT ![t] = r]
      /\ Store(Address(reader[t].i), Nul)
      /\ buffer_index' = buffer_index /\ typed' = typed /\ enter_state' = enter_state
      /\ UNCHANGED keyboardVars
  BY DEF ReadClear, k, TypeInv
<1>5. terminal_buffers' \in [Memory -> Bytes] /\ overrun' \in BOOLEAN
  BY <1>4, StoreType, SpecialBytes DEF TypeInv
<1>6. /\ buffer_index \in 0 .. IndexRange - 1
      /\ enter_state \in [Terminals -> BOOLEAN] /\ typed \in [Terminals -> Seq(Bytes)]
  BY DEF TypeInv, TypeOK
<1> HIDE DEF r
<1> QED
  BY <1>3, <1>4, <1>5, <1>6, ReadTypes

LEMMA ReadReturnTypes ==
    ASSUME TypeInv, NEW t \in Terminals, ReadReturn(t)
    PROVE  TypeInv'
<1>1. /\ reader' = [reader EXCEPT ![t] = Idle]
      /\ terminal_buffers' = terminal_buffers /\ overrun' = overrun /\ enter_state' = enter_state
      /\ buffer_index' = 0 /\ typed' = [typed EXCEPT ![t] = <<>>]
      /\ UNCHANGED keyboardVars
  BY DEF ReadReturn
<1>2. /\ terminal_buffers \in [Memory -> Bytes] /\ overrun \in BOOLEAN
      /\ enter_state \in [Terminals -> BOOLEAN] /\ typed \in [Terminals -> Seq(Bytes)]
  BY DEF TypeInv, TypeOK
<1>3. 0 \in 0 .. IndexRange - 1 /\ <<>> \in Seq(Bytes)
  BY Sizes
<1>4. typed' \in [Terminals -> Seq(Bytes)]
  BY <1>1, <1>2, <1>3
<1> QED
  BY <1>1, <1>2, <1>3, <1>4, IdleType, ReadTypes

LEMMA InitTypes ==
    ASSUME Init
    PROVE  TypeInv
<1>1. /\ 0 \in 0 .. IndexRange - 1 /\ 0 \in 0 .. BufferSize /\ <<>> \in Seq(Bytes)
      /\ 0 \in Terminals
  BY ConstantsAssumption, Sizes DEF Terminals
<1>2. reader \in [Terminals -> Reader] /\ \A t \in Terminals : reader[t].n \in 0 .. reader[t].nbytes
  BY IdleType DEF Init
<1>3. \A t \in Terminals :
          /\ reader[t].pc \in {"idle", "wait", "copy", "clear"}
          /\ reader[t].nbytes \in Nat
          /\ reader[t].n \in 0 .. reader[t].nbytes
          /\ reader[t].i \in 0 .. BufferSize
          /\ reader[t].buf \in Seq(Bytes)
  BY <1>2, ReaderTypes
<1>4. /\ terminal_buffers \in [Memory -> Bytes] /\ buffer_indices \in [Terminals -> 0 .. IndexRange - 1]
      /\ enter_state \in [Terminals -> BOOLEAN] /\ typed \in [Terminals -> Seq(Bytes)]
      /\ overrun \in BOOLEAN /\ current_terminal \in Terminals /\ buffer_index \in 0 .. IndexRange - 1
  BY <1>1, SpecialBytes DEF Init
<1> QED
  BY <1>2, <1>3, <1>4, Zenon DEF TypeInv, TypeOK

LEMMA StepTypes ==
    ASSUME TypeInv, [Next]_vars
    PROVE  TypeInv'
<1>1. ASSUME NEW t \in Terminals, ReadStep(t) PROVE TypeInv'
  BY <1>1, ReadWakeTypes, ReadCopyTypes, ReadClearTypes, ReadReturnTypes DEF ReadStep
<1>2. ASSUME NEW t \in Terminals, NEW n \in ReadSizes, ReadCall(t, n) PROVE TypeInv'
  BY <1>2, ReadCallTypes
<1>3. CASE UNCHANGED vars
  BY <1>3 DEF vars, keyboardVars, TypeInv, TypeOK
<1> QED
  BY <1>1, <1>2, <1>3, PrintableKeyTypes, EnterKeyTypes, BackspaceKeyTypes, SwitchTerminalTypes
  DEF Next

\* The buffers and the reads in progress have their types, whatever the user does.
THEOREM TypeCorrect == Spec => []TypeOK
<1>1. TypeInv => TypeOK
  BY DEF TypeInv
<1> QED
  BY <1>1, InitTypes, StepTypes, PTL DEF Spec

-----------------------------------------------------------------------------
(* Lines                                                                   *)

\* A byte stored in the line of terminal t changes no other.
LEMMA StoreInside ==
    ASSUME TypeInv, NEW t \in Terminals, NEW j \in 0 .. BufferSize - 1, NEW c,
           Store(t * BufferSize + j, c)
    PROVE  /\ overrun' = overrun
           /\ \A u \in Terminals, k \in 1 .. BufferSize :
                 terminal_buffers'[u * BufferSize + k - 1] =
                    IF u = t /\ k = j + 1 THEN c
                    ELSE terminal_buffers[u * BufferSize + k - 1]
<1>1. t * BufferSize + j \in Memory
  BY InMemory
<1>2. overrun' = overrun
  BY <1>1 DEF Store, TypeInv, TypeOK
<1>3. ASSUME NEW u \in Terminals, NEW k \in 1 .. BufferSize
      PROVE  terminal_buffers'[u * BufferSize + k - 1] =
                    IF u = t /\ k = j + 1 THEN c
                    ELSE terminal_buffers[u * BufferSize + k - 1]
  <2> DEFINE a == u * BufferSize
  <2>1. k - 1 \in 0 .. BufferSize - 1 /\ a \in Int
    BY Sizes
  <2>2. a + (k - 1) \in Memory
    BY <2>1, InMemory
  <2>3. a + (k - 1) = t * BufferSize + j => u = t /\ k - 1 = j
    BY <2>1, Apart
  <2>4. k = j + 1 <=> k - 1 = j
    BY <2>1, Sizes
  <2>5. u = t /\ k - 1 = j => a + (k - 1) = t * BufferSize + j
    BY Zenon
  <2>6. terminal_buffers'[a + (k - 1)] =
           IF a + (k - 1) = t * BufferSize + j THEN c ELSE terminal_buffers[a + (k - 1)]
    BY <2>2, Zenon DEF Store
  <2>7. a + k - 1 = a + (k - 1)
    <3> HIDE DEF a
    <3> QED
      BY <2>1
  <2> QED
    BY <2>3, <2>4, <2>5, <2>6, <2>7, Zenon
<1> QED
  BY <1>2, <1>3

LEMMA LineTypes ==
    ASSUME TypeInv
    PROVE  /\ current_terminal \in Terminals
           /\ \A t \in Terminals : typed[t] \in Seq(Bytes) /\ Len(typed[t]) \in Nat
           /\ \A t \in Terminals : reader[t] \in Reader
BY DEF TypeInv, TypeOK

\* A key that makes the line on the screen s by storing its j-th byte.
LEMMA KeyKeeps ==
    ASSUME IInv, TypeInv', Settled(current_terminal),
           NEW s \in Seq(Bytes), NEW c, NEW j \in 0 .. BufferSize - 1,
           Store(Address(j), c),
           buffer_index' = Len(s), Len(s) <= BufferSize,
           \A k \in 1 .. Len(s) :
               s[k] = IF k = j + 1 THEN c ELSE typed[current_terminal][k],
           \A k \in 1 .. Len(s) : k # j + 1 => k \in 1 .. Len(typed[current_terminal]),
           typed' = [typed EXCEPT ![current_terminal] = s],
           \A t \in Terminals : t # current_terminal => enter_state'[t] = enter_state[t],
           ~enter_state'[current_terminal] => Len(s) < BufferSize,
           UNCHANGED <<keyboardVars, reader>>
    PROVE  IInv'
<1> DEFINE x == current_terminal
<1>0. x \in Terminals /\ Store(x * BufferSize + j, c) /\ TypeInv
  BY LineTypes DEF IInv, Address
<1>1. /\ overrun' = overrun
      /\ \A u \in Terminals, k \in 1 .. BufferSize :
             terminal_buffers'[u * BufferSize + k - 1] =
                IF u = x /\ k = j + 1 THEN c
                ELSE terminal_buffers[u * BufferSize + k - 1]
  BY <1>0, StoreInside
<1>2. /\ current_terminal' = x /\ reader' = reader /\ buffer_indices' = buffer_indices
      /\ typed'[x] = s
      /\ \A t \in Terminals : t # x => typed'[t] = typed[t]
  BY <1>0 DEF keyboardVars, TypeInv, TypeOK
<1>3. RoomInv'
  <2>1. ASSUME NEW t \in Terminals
        PROVE  /\ Index(t)' = Len(typed'[t])
               /\ Len(typed'[t]) <= BufferSize
               /\ Settled(t)' => Len(typed'[t]) < BufferSize
               /\ ~Settled(t)' => t = x
    <3>1. CASE t = x
      BY <1>2, <3>1, Zenon DEF Index, Settled
    <3>2. CASE t # x
      BY <1>2, <3>2, Zenon DEF Index, Settled, IInv, RoomInv
    <3> QED
      BY <3>1, <3>2
  <2> QED
    BY <1>1, <1>2, <2>1, Zenon DEF IInv, RoomInv
<1>4. ASSUME NEW t \in Terminals, reader[t].pc # "clear"
      PROVE  Holds(t)'
  <2>1. Holds(t)
    BY <1>4 DEF IInv, ReadInv
  <2>2. CASE t = x
    <3>1. \A k \in 1 .. Len(s) : k \in 1 .. BufferSize
      BY Sizes
    <3>2. ASSUME NEW k \in 1 .. Len(s)
          PROVE  terminal_buffers'[t * BufferSize + k - 1] = s[k]
      <4>1. CASE k = j + 1
        BY <1>0, <1>1, <2>2, <3>1, <4>1, Zenon
      <4>2. CASE k # j + 1
        <5>1. k \in 1 .. Len(typed[t]) /\ s[k] = typed[t][k]
          BY <2>2, <4>2, Zenon
        <5>2. terminal_buffers'[t * BufferSize + k - 1] = terminal_buffers[t * BufferSize + k - 1]
          BY <1>0, <1>1, <2>2, <3>1, <4>2, Zenon
        <5> QED
          BY <2>1, <5>1, <5>2, Zenon DEF Holds
      <4> QED
        BY <4>1, <4>2
    <3>3. typed'[t] = s
      BY <1>2, <2>2, Zenon
    <3> QED
      BY <3>2, <3>3, Zenon DEF Holds
  <2>3. CASE t # x
    <3>1. Len(typed[t]) \in Nat /\ Len(typed[t]) <= BufferSize
      BY <1>0, LineTypes DEF IInv, RoomInv
    <3>2. \A k \in 1 .. Len(typed[t]) : k \in 1 .. BufferSize
      <4>1. \A n \in Nat, b \in Nat : n <= b => \A k \in 1 .. n : k \in 1 .. b
        OBVIOUS
      <4> QED
        BY <3>1, <4>1, Sizes
    <3>3. \A k \in 1 .. Len(typed[t]) :
              terminal_buffers'[t * BufferSize + k - 1] = terminal_buffers[t * BufferSize + k - 1]
      BY <1>1, <2>3, <3>2, Zenon
    <3> QED
      BY <1>2, <2>1, <2>3, <3>3, Zenon DEF Holds
  <2> QED
    BY <2>2, <2>3
<1>5. reader[x].pc \in {"idle", "wait"}
  BY DEF Settled
<1>6. ReadInv'
  <2>1. ASSUME NEW t \in Terminals, t # x PROVE Returned(t)' = Returned(t)
    BY <1>2, <2>1, Zenon DEF Returned
  <2>2. reader[x].pc # "copy" /\ reader[x].pc # "clear"
    BY <1>5
  <2> QED
    BY <1>2, <1>4, <2>1, <2>2, ZenonT(40) DEF IInv, ReadInv
<1> QED
  BY <1>3, <1>6 DEF IInv

\* A character at the end of the line on the screen.
LEMMA AppendKeeps ==
    ASSUME IInv, TypeInv', Settled(current_terminal), NEW c \in Bytes,
           Store(Address(buffer_index), c),
           buffer_index' = (buffer_index + 1) % IndexRange,
           typed' = [typed EXCEPT ![current_terminal] = Append(@, c)],
           \A t \in Terminals : t # current_terminal => enter_state'[t] = enter_state[t],
           ~enter_state'[current_terminal] => buffer_index < BufferSize - 1,
           UNCHANGED <<keyboardVars, reader>>
    PROVE  IInv'
<1> DEFINE x == current_terminal
           s == Append(typed[x], c)
<1>1. x \in Terminals /\ typed[x] \in Seq(Bytes) /\ typed \in [Terminals -> Seq(Bytes)]
  BY LineTypes DEF IInv, TypeInv, TypeOK
<1>2. buffer_index = Len(typed[x]) /\ Len(typed[x]) < BufferSize
  BY <1>1 DEF IInv, RoomInv, Index
<1>3. /\ s \in Seq(Bytes) /\ Len(s) = Len(typed[x]) + 1
      /\ \A k \in 1 .. Len(s) : s[k] = IF k = Len(typed[x]) + 1 THEN c ELSE typed[x][k]
      /\ \A k \in 1 .. Len(s) : k # Len(typed[x]) + 1 => k \in 1 .. Len(typed[x])
      /\ Len(typed[x]) \in Nat
  BY <1>1
<1>4. typed' = [typed EXCEPT ![x] = s]
  BY <1>1
<1> HIDE DEF s
<1>5. buffer_index \in 0 .. BufferSize - 1 /\ buffer_index \in 0 .. IndexRange - 1
  BY <1>2, <1>3, Sizes
<1>6. buffer_index' = Len(s) /\ Len(s) <= BufferSize
  <2>1. buffer_index' = buffer_index + 1
    BY <1>2, <1>5, NextIndex
  <2>2. \A n \in Nat, b \in Nat : n < b => n + 1 <= b
    OBVIOUS
  <2>3. Len(typed[x]) + 1 <= BufferSize
    BY <1>2, <1>3, <2>2, Sizes
  <2> QED
    BY <1>2, <1>3, <2>1, <2>3, Zenon
<1>7. ~enter_state'[x] => Len(s) < BufferSize
  BY <1>2, <1>3, Sizes
<1>8. /\ \A k \in 1 .. Len(s) : s[k] = IF k = buffer_index + 1 THEN c ELSE typed[x][k]
      /\ \A k \in 1 .. Len(s) : k # buffer_index + 1 => k \in 1 .. Len(typed[x])
  BY <1>2, <1>3, Zenon
<1> QED
  BY <1>3, <1>4, <1>5, <1>6, <1>7, <1>8, KeyKeeps

LEMMA PrintableKeyKeeps ==
    ASSUME UserWaits, IInv, TypeInv', NEW c \in Chars, PrintableKey(c)
    PROVE  IInv'
<1>1. Settled(current_terminal)
  BY DEF PrintableKey, MayType, UserWaits
<1>2. c \in Bytes
  BY SpecialBytes
<1> QED
  BY <1>1, <1>2, AppendKeeps DEF PrintableKey

LEMMA EnterKeyKeeps ==
    ASSUME UserWaits, IInv, TypeInv', EnterKey
    PROVE  IInv'
<1>1. Settled(current_terminal)
  BY DEF EnterKey, MayType, UserWaits
<1>2. /\ \A t \in Terminals : t # current_terminal => enter_state'[t] = enter_state[t]
      /\ enter_state'[current_terminal]
  BY DEF EnterKey, IInv, TypeInv, TypeOK
<1> QED
  BY <1>1, <1>2, SpecialBytes, AppendKeeps DEF EnterKey

LEMMA BackspaceKeyKeeps ==
    ASSUME UserWaits, IInv, TypeInv', BackspaceKey
    PROVE  IInv'
<1> DEFINE x == current_terminal
           s == SubSeq(typed[x], 1, Len(typed[x]) - 1)
<1>1. /\ x \in Terminals /\ typed[x] \in Seq(Bytes) /\ Len(typed[x]) \in Nat
      /\ typed \in [Terminals -> Seq(Bytes)]
  BY LineTypes DEF IInv, TypeInv, TypeOK
<1>2. Settled(x)
  BY DEF BackspaceKey, UserWaits
<1>3. buffer_index = Len(typed[x]) /\ Len(typed[x]) < BufferSize
  BY <1>1, <1>2 DEF IInv, RoomInv, Index
<1>4. buffer_index # 0 /\ buffer_index' = buffer_index - 1
  BY DEF BackspaceKey
<1>5. Len(typed[x]) > 0
  BY <1>1, <1>3, <1>4
<1>6. /\ s \in Seq(Bytes) /\ Len(s) = Len(typed[x]) - 1
      /\ \A k \in 1 .. Len(typed[x]) - 1 : s[k] = typed[x][k]
  BY <1>1, <1>5, Shortened
<1>7. typed' = [typed EXCEPT ![x] = s]
  BY <1>1 DEF BackspaceKey
<1> HIDE DEF s
<1>8. buffer_index - 1 \in 0 .. BufferSize - 1
  BY <1>1, <1>3, <1>5, Sizes
<1>9. buffer_index' = Len(s) /\ Len(s) < BufferSize /\ Len(s) <= BufferSize
  BY <1>1, <1>3, <1>4, <1>6, Sizes
<1>10. ASSUME NEW k \in 1 .. Len(s)
       PROVE  k # buffer_index - 1 + 1 /\ k \in 1 .. Len(typed[x]) /\ s[k] = typed[x][k]
  BY <1>1, <1>3, <1>6
<1>11. /\ \A k \in 1 .. Len(s) : s[k] = IF k = buffer_index - 1 + 1 THEN Nul ELSE typed[x][k]
       /\ \A k \in 1 .. Len(s) : k # buffer_index - 1 + 1 => k \in 1 .. Len(typed[x])
  BY <1>10, Zenon
<1>12. /\ Store(Address(buffer_index - 1), Nul)
       /\ \A t \in Terminals : t # x => enter_state'[t] = enter_state[t]
       /\ UNCHANGED <<keyboardVars, reader>>
  BY DEF BackspaceKey
<1> HIDE DEF x
<1> QED
  BY <1>2, <1>6, <1>7, <1>8, <1>9, <1>11, <1>12, KeyKeeps DEF x

LEMMA SwitchTerminalKeeps ==
    ASSUME UserWaits, IInv, TypeInv', NEW t \in Terminals, SwitchTerminal(t)
    PROVE  IInv'
<1>1. /\ Settled(current_terminal) /\ t # current_terminal
      /\ buffer_indices' = [buffer_indices EXCEPT ![current_terminal] = buffer_index]
      /\ buffer_index' = buffer_indices[t] /\ current_terminal' = t
      /\ terminal_buffers' = terminal_buffers /\ enter_state' = enter_state /\ reader' = reader
      /\ overrun' = overrun /\ typed' = typed
  BY DEF SwitchTerminal, UserWaits
<1>2. \A u \in Terminals : Index(u)' = Index(u)
  BY <1>1 DEF Index, IInv, TypeInv, TypeOK
<1>3. \A u \in Terminals : Settled(u)
  BY <1>1, Zenon DEF IInv, RoomInv
<1>4. \A u \in Terminals : (Settled(u)' <=> Settled(u)) /\ (Holds(u)' <=> Holds(u)) /\ Returned(u)' = Returned(u)
  BY <1>1, Zenon DEF Settled, Holds, Returned
<1>5. RoomInv'
  BY <1>1, <1>2, <1>3, <1>4, Zenon DEF IInv, RoomInv
<1>6. ReadInv'
  BY <1>1, <1>4, Zenon DEF IInv, ReadInv
<1> QED
  BY <1>5, <1>6 DEF IInv

\* A step of terminal_read that leaves the lines alone.
LEMMA ReaderKeeps ==
    ASSUME IInv, NEW t \in Terminals, NEW r \in Reader,
           reader' = [reader EXCEPT ![t] = r],
           \A u \in Terminals : u # t => enter_state'[u] = enter_state[u],
           (~enter_state'[t] /\ r.pc \in {"idle", "wait"}) => Settled(t),
           (enter_state'[t] \/ r.pc \notin {"idle", "wait"}) => ~Settled(t),
           r.pc # "clear" => reader[t].pc # "clear",
           r.pc = "copy" => r.n = Min({r.nbytes, Len(typed[t])}),
           r.pc = "clear" => r.buf = SubSeq(typed[t], 1, Min({r.nbytes, Len(typed[t])})),
           UNCHANGED <<keyboardVars, terminal_buffers, buffer_index, overrun, typed>>
    PROVE  RoomInv' /\ ReadInv'
<1>1. /\ reader'[t] = r
      /\ \A u \in Terminals : u # t => reader'[u] = reader[u]
      /\ current_terminal' = current_terminal /\ buffer_indices' = buffer_indices
      /\ terminal_buffers' = terminal_buffers /\ buffer_index' = buffer_index
      /\ overrun' = overrun /\ typed' = typed
  BY DEF keyboardVars, IInv, TypeInv
<1>2. \A u \in Terminals : Index(u)' = Index(u) /\ (Holds(u)' <=> Holds(u))
  BY <1>1, Zenon DEF Index, Holds
<1>3. \A u \in Terminals : Settled(u)' <=> Settled(u)
  <2>1. Settled(t)' <=> Settled(t)
    BY <1>1, Zenon DEF Settled
  <2>2. \A u \in Terminals : u # t => (Settled(u)' <=> Settled(u))
    BY <1>1, Zenon DEF Settled
  <2> QED
    BY <2>1, <2>2
<1>4. RoomInv'
  <2>1. \A u \in Terminals :
            /\ Index(u)' = Len(typed'[u])
            /\ Len(typed'[u]) <= BufferSize
            /\ Settled(u)' => Len(typed'[u]) < BufferSize
            /\ ~Settled(u)' => u = current_terminal'
    BY <1>1, <1>2, <1>3, Zenon DEF IInv, RoomInv
  <2>2. ~overrun'
    BY <1>1 DEF IInv, RoomInv
  <2> QED
    BY <2>1, <2>2, Zenon DEF RoomInv
<1>5. ASSUME NEW u \in Terminals
      PROVE  /\ reader'[u].pc # "clear" => Holds(u)'
             /\ reader'[u].pc = "copy" => reader'[u].n = Min({reader'[u].nbytes, Len(typed'[u])})
             /\ reader'[u].pc = "clear" => reader'[u].buf = Returned(u)'
  <2>1. CASE u = t
    <3>1. reader'[u] = r /\ typed'[u] = typed[t]
      BY <1>1, <2>1, Zenon
    <3>2. r.pc # "clear" => Holds(u)'
      BY <1>2, <2>1, Zenon DEF IInv, ReadInv
    <3> QED
      BY <3>1, <3>2, Zenon DEF Returned
  <2>2. CASE u # t
    <3>1. reader'[u] = reader[u] /\ typed'[u] = typed[u] /\ Returned(u)' = Returned(u)
      BY <1>1, <2>2, Zenon DEF Returned
    <3> QED
      BY <1>2, <3>1, Zenon DEF IInv, ReadInv
  <2> QED
    BY <2>1, <2>2
<1> QED
  BY <1>4, <1>5, Zenon DEF ReadInv

LEMMA ReadCallKeeps ==
    ASSUME IInv, TypeInv', NEW t \in Terminals, NEW n \in ReadSizes, ReadCall(t, n)
    PROVE  IInv'
<1> DEFINE r == [Idle EXCEPT !.pc = "wait", !.nbytes = n]
<1>1. r \in Reader /\ r.pc = "wait"
  BY IdleType, CallChange, ConstantsAssumption
<1>2. /\ reader[t].pc = "idle" /\ reader' = [reader EXCEPT ![t] = r]
      /\ enter_state' = enter_state
      /\ UNCHANGED <<keyboardVars, terminal_buffers, buffer_index, overrun, typed>>
  BY DEF ReadCall
<1> HIDE DEF r
<1>3. RoomInv' /\ ReadInv'
  BY <1>1, <1>2, ReaderKeeps DEF Settled
<1> QED
  BY <1>3 DEF IInv

\* The line that a read has seen finished is the one on the screen.
LEMMA LineOnScreen ==
    ASSUME IInv, NEW t \in Terminals, ~Settled(t)
    PROVE  t = current_terminal /\ buffer_index = Len(typed[t]) /\ Len(typed[t]) <= BufferSize
BY DEF IInv, RoomInv, Index

LEMMA ReadWakeKeeps ==
    ASSUME IInv, TypeInv', NEW t \in Terminals, ReadWake(t)
    PROVE  IInv'
<1> DEFINE n == Min({reader[t].nbytes, buffer_index})
           r == [reader[t] EXCEPT !.pc = "copy", !.n = n]
<1>1. ~Settled(t) /\ reader[t].pc # "clear"
  BY DEF ReadWake, Settled
<1>2. reader[t] \in Reader /\ n \in Nat
  <2>1. reader[t] \in Reader /\ reader[t].nbytes \in Nat /\ buffer_index \in Nat
    BY DEF IInv, TypeInv, TypeOK, Reader
  <2> QED
    BY <2>1, MinRight
<1>3. r \in Reader /\ r.pc = "copy" /\ r.nbytes = reader[t].nbytes /\ r.n = n
  <2> HIDE DEF n
  <2> QED
    BY <1>2, WakeChange, Zenon
<1>4. r.n = Min({r.nbytes, Len(typed[t])})
  BY <1>1, <1>3, LineOnScreen, Zenon
<1>5. /\ reader' = [reader EXCEPT ![t] = r] /\ enter_state' = enter_state
      /\ UNCHANGED <<keyboardVars, terminal_buffers, buffer_index, overrun, typed>>
  BY DEF ReadWake, IInv, TypeInv
<1>6. r.pc # "clear" /\ r.pc \notin {"idle", "wait"}
  <2> HIDE DEF r
  <2> QED
    BY <1>3
<1> HIDE DEF r
<1>7. RoomInv' /\ ReadInv'
  BY <1>1, <1>3, <1>4, <1>5, <1>6, ReaderKeeps
<1> QED
  BY <1>7 DEF IInv

\* What ReadCopy copies is the line, as far as it fits.
LEMMA CopiedRight ==
    ASSUME IInv, NEW t \in Terminals, reader[t].pc = "copy"
    PROVE  Copied(t) = SubSeq(typed[t], 1, Min({reader[t].nbytes, Len(typed[t])}))
<1> DEFINE s == typed[t]
           n == reader[t].n
           b == Copied(t)
<1>1. ~Settled(t)
  BY DEF Settled
<1>2. t = current_terminal /\ Len(s) <= BufferSize /\ s \in Seq(Bytes) /\ Len(s) \in Nat
  BY <1>1, LineOnScreen, LineTypes DEF IInv
<1>3. n = Min({reader[t].nbytes, Len(s)}) /\ Holds(t)
  BY DEF IInv, ReadInv
<1>4. n \in Nat /\ n <= Len(s)
  BY <1>2, <1>3, MinRight DEF IInv, TypeInv, TypeOK
<1>5. b = [k \in 1 .. n |-> Load(Address(k - 1))]
  BY DEF Copied
<1>6. ASSUME NEW k \in 1 .. n
      PROVE  Load(Address(k - 1)) = s[k]
  <2> DEFINE a == t * BufferSize
  <2>1. k \in 1 .. Len(s) /\ k - 1 \in 0 .. BufferSize - 1
    <3>1. \A l \in Nat, m \in Nat, z \in Nat : l <= m /\ m <= z =>
              \A i \in 1 .. l : i \in 1 .. m /\ i - 1 \in 0 .. z - 1
      OBVIOUS
    <3> QED
      BY <1>2, <1>4, <3>1, Sizes
  <2>2. a + (k - 1) \in Memory
    BY <2>1, InMemory
  <2>3. a + k - 1 = a + (k - 1)
    <3>1. a \in Int /\ k \in Int
      BY Sizes
    <3> HIDE DEF a
    <3> QED
      BY <3>1
  <2>4. terminal_buffers[a + (k - 1)] = s[k]
    BY <1>3, <2>1, <2>3, Zenon DEF Holds
  <2> QED
    BY <1>2, <2>2, <2>4, Zenon DEF Load, Address
<1>7. b = [k \in 1 .. n |-> s[k]]
  BY <1>5, <1>6, Zenon
<1>8. \A z \in Seq(Bytes) : \A m \in Nat : m <= Len(z) => SubSeq(z, 1, m) = [k \in 1 .. m |-> z[k]]
  OBVIOUS
<1>9. SubSeq(s, 1, n) = [k \in 1 .. n |-> s[k]]
  BY <1>2, <1>4, <1>8, Zenon
<1> QED
  BY <1>3, <1>7, <1>9, Zenon

LEMMA ReadCopyKeeps ==
    ASSUME IInv, TypeInv', NEW t \in Terminals, ReadCopy(t)
    PROVE  IInv'
<1> DEFINE b == Copied(t)
           r == [reader[t] EXCEPT !.pc = "clear", !.i = 0, !.buf = b]
<1>1. reader[t].pc = "copy" /\ ~Settled(t)
  BY DEF ReadCopy, Settled
<1>2. reader[t] \in Reader /\ b \in Seq(Bytes)
  BY CopiedType, LineTypes DEF IInv
<1>3. r \in Reader /\ r.pc = "clear" /\ r.nbytes = reader[t].nbytes /\ r.buf = b
  <2> HIDE DEF b
  <2> QED
    BY <1>2, CopyChange, Zenon
<1>4. r.buf = SubSeq(typed[t], 1, Min({r.nbytes, Len(typed[t])}))
  BY <1>1, <1>3, CopiedRight, Zenon
<1>5. /\ reader' = [reader EXCEPT ![t] = r]
      /\ enter_state' = [enter_state EXCEPT ![t] = FALSE]
      /\ UNCHANGED <<keyboardVars, terminal_buffers, buffer_index, overrun, typed>>
  BY DEF ReadCopy, Copied, IInv, TypeInv
<1>6. r.pc \notin {"idle", "wait"} /\ r.pc # "copy"
  <2> HIDE DEF r
  <2> QED
    BY <1>3
<1>7. \A u \in Terminals : u # t => enter_state'[u] = enter_state[u]
  BY <1>5 DEF IInv, TypeInv, TypeOK
<1> HIDE DEF r
<1>8. RoomInv' /\ ReadInv'
  BY <1>1, <1>3, <1>4, <1>5, <1>6, <1>7, ReaderKeeps
<1> QED
  BY <1>8 DEF IInv

\* Only the buffer of the line that was read is emptied.
LEMMA ReadClearKeeps ==
    ASSUME IInv, TypeInv', NEW t \in Terminals, ReadClear(t)
    PROVE  IInv'
<1> DEFINE k == reader[t].i + 1
           r == [reader[t] EXCEPT !.i = k]
<1>1. ~Settled(t) /\ reader[t].pc = "clear"
  BY DEF ReadClear, Settled
<1>2. reader[t] \in Reader /\ reader[t].i \in 0 .. BufferSize - 1 /\ k \in 0 .. BufferSize
  <2>1. reader[t] \in Reader /\ reader[t].i \in 0 .. BufferSize /\ reader[t].i < BufferSize
    BY DEF ReadClear, IInv, TypeInv, TypeOK
  <2> QED
    BY <2>1, Sizes
<1>3. r \in Reader /\ r.pc = "clear" /\ r.nbytes = reader[t].nbytes /\ r.buf = reader[t].buf
  <2> HIDE DEF k
  <2> QED
    BY <1>1, <1>2, ClearChange, Zenon
<1>4. /\ reader' = [reader EXCEPT ![t] = r] /\ enter_state' = enter_state
      /\ typed' = typed /\ buffer_index' = buffer_index
      /\ current_terminal' = current_terminal /\ buffer_indices' = buffer_indices
  BY DEF ReadClear, keyboardVars, IInv, TypeInv
<1> HIDE DEF r, k
<1>5. reader'[t] = r /\ \A u \in Terminals : u # t => reader'[u] = reader[u]
  BY <1>4 DEF IInv, TypeInv
<1>6. Store(t * BufferSize + reader[t].i, Nul)
  BY <1>1, LineOnScreen DEF ReadClear, Address
<1>7. /\ overrun' = overrun
      /\ \A u \in Terminals, j \in 1 .. BufferSize : u # t =>
             terminal_buffers'[u * BufferSize + j - 1] = terminal_buffers[u * BufferSize + j - 1]
  BY <1>2, <1>6, StoreInside DEF IInv
<1>8. RoomInv'
  <2>1. \A u \in Terminals : Index(u)' = Index(u) /\ (Settled(u)' <=> Settled(u))
    <3>1. Settled(t)' <=> Settled(t)
      BY <1>1, <1>3, <1>4, <1>5, Zenon DEF Settled
    <3>2. \A u \in Terminals : u # t => (Settled(u)' <=> Settled(u))
      BY <1>4, <1>5, Zenon DEF Settled
    <3> QED
      BY <1>4, <3>1, <3>2, Zenon DEF Index
  <2>2. \A u \in Terminals :
            /\ Index(u)' = Len(typed'[u])
            /\ Len(typed'[u]) <= BufferSize
            /\ Settled(u)' => Len(typed'[u]) < BufferSize
            /\ ~Settled(u)' => u = current_terminal'
    BY <1>4, <2>1, Zenon DEF IInv, RoomInv
  <2>3. ~overrun'
    BY <1>7 DEF IInv, RoomInv
  <2> QED
    BY <2>2, <2>3, Zenon DEF RoomInv
<1>9. ASSUME NEW u \in Terminals
      PROVE  /\ reader'[u].pc # "clear" => Holds(u)'
             /\ reader'[u].pc = "copy" => reader'[u].n = Min({reader'[u].nbytes, Len(typed'[u])})
             /\ reader'[u].pc = "clear" => reader'[u].buf = Returned(u)'
  <2>1. CASE u = t
    <3>1. reader'[u] = r /\ typed'[u] = typed[t]
      BY <1>4, <1>5, <2>1, Zenon
    <3>2. r.pc # "copy" /\ r.buf = Returned(t) /\ Returned(u)' = Returned(t)
      BY <1>1, <1>3, <2>1, <3>1 DEF IInv, ReadInv, Returned
    <3> QED
      BY <1>3, <3>1, <3>2, Zenon
  <2>2. CASE u # t
    <3>1. reader'[u] = reader[u] /\ typed'[u] = typed[u] /\ Returned(u)' = Returned(u)
      BY <1>4, <1>5, <2>2, Zenon DEF Returned
    <3>2. \A j \in 1 .. Len(typed[u]) : j \in 1 .. BufferSize
      <4>1. \A n \in Nat, b \in Nat : n <= b => \A j \in 1 .. n : j \in 1 .. b
        OBVIOUS
      <4>2. Len(typed[u]) \in Nat /\ Len(typed[u]) <= BufferSize
        BY LineTypes DEF IInv, RoomInv
      <4> QED
        BY <4>1, <4>2, Sizes
    <3>3. Holds(u) => Holds(u)'
      BY <1>7, <2>2, <3>1, <3>2, Zenon DEF Holds
    <3> QED
      BY <3>1, <3>3, Zenon DEF IInv, ReadInv
  <2> QED
    BY <2>1, <2>2
<1>10. ReadInv'
  BY <1>9, Zenon DEF ReadInv
<1> QED
  BY <1>8, <1>10 DEF IInv

LEMMA ReadReturnKeeps ==
    ASSUME IInv, TypeInv', NEW t \in Terminals, ReadReturn(t)
    PROVE  IInv'
<1>1. /\ ~Settled(t)
      /\ reader' = [reader EXCEPT ![t] = Idle] /\ typed' = [typed EXCEPT ![t] = <<>>]
      /\ buffer_index' = 0 /\ enter_state' = enter_state /\ overrun' = overrun
      /\ terminal_buffers' = terminal_buffers
      /\ current_terminal' = current_terminal /\ buffer_indices' = buffer_indices
  BY DEF ReadReturn, keyboardVars, Settled
<1>2. /\ reader'[t] = Idle /\ typed'[t] = <<>>
      /\ \A u \in Terminals : u # t => reader'[u] = reader[u] /\ typed'[u] = typed[u]
  BY <1>1 DEF IInv, TypeInv, TypeOK
<1>3. t = current_terminal
  BY <1>1, LineOnScreen
<1>4. Len(typed'[t]) = 0 /\ 0 <= BufferSize /\ 0 < BufferSize
  BY <1>2, Sizes
<1>5. ASSUME NEW u \in Terminals
      PROVE  /\ Index(u)' = Len(typed'[u])
             /\ Len(typed'[u]) <= BufferSize
             /\ Settled(u)' => Len(typed'[u]) < BufferSize
             /\ ~Settled(u)' => u = current_terminal'
  <2>1. CASE u = t
    <3>1. Index(t)' = 0
      BY <1>1, <1>3, Zenon DEF Index
    <3> QED
      BY <1>1, <1>3, <1>4, <2>1, <3>1, Zenon
  <2>2. CASE u # t
    <3>1. Index(u)' = Index(u) /\ (Settled(u)' <=> Settled(u))
      BY <1>1, <1>2, <1>3, <2>2, Zenon DEF Index, Settled
    <3> QED
      BY <1>1, <1>2, <2>2, <3>1, Zenon DEF IInv, RoomInv
  <2> QED
    BY <2>1, <2>2
<1>6. ASSUME NEW u \in Terminals
      PROVE  /\ reader'[u].pc # "clear" => Holds(u)'
             /\ reader'[u].pc = "copy" => reader'[u].n = Min({reader'[u].nbytes, Len(typed'[u])})
             /\ reader'[u].pc = "clear" => reader'[u].buf = Returned(u)'
  <2>1. CASE u = t
    <3>1. reader'[u].pc = "idle"
      BY <1>2, <2>1 DEF Idle
    <3>2. typed'[u] = <<>>
      BY <1>2, <2>1, Zenon
    <3>3. Holds(u)'
      BY <3>2 DEF Holds
    <3> QED
      BY <3>1, <3>3
  <2>2. CASE u # t
    <3>1. reader'[u] = reader[u] /\ typed'[u] = typed[u]
      BY <1>2, <2>2, Zenon
    <3>2. Returned(u)' = Returned(u) /\ (Holds(u)' <=> Holds(u))
      BY <1>1, <3>1, Zenon DEF Returned, Holds
    <3> QED
      BY <3>1, <3>2, Zenon DEF IInv, ReadInv
  <2> QED
    BY <2>1, <2>2
<1>7. RoomInv'
  <2>1. ~overrun'
    BY <1>1 DEF IInv, RoomInv
  <2> QED
    BY <1>5, <2>1, Zenon DEF RoomInv
<1>8. ReadInv'
  BY <1>6, Zenon DEF ReadInv
<1> QED
  BY <1>7, <1>8 DEF IInv

LEMMA InitKeeps ==
    ASSUME Init
    PROVE  IInv
<1>1. 0 \in Terminals
  BY ConstantsAssumption DEF Terminals
<1>2. /\ ~overrun /\ buffer_index = 0
      /\ \A t \in Terminals :
            /\ typed[t] = <<>> /\ reader[t] = Idle /\ ~enter_state[t] /\ buffer_indices[t] = 0
  BY DEF Init
<1>3. ASSUME NEW t \in Terminals
      PROVE  Index(t) = 0 /\ Len(typed[t]) = 0 /\ Settled(t) /\ Holds(t)
             /\ reader[t].pc # "copy" /\ reader[t].pc # "clear"
  BY <1>2 DEF Index, Settled, Holds, Idle
<1>4. RoomInv
  BY <1>2, <1>3, Sizes DEF RoomInv
<1>5. ReadInv
  BY <1>3 DEF ReadInv
<1> QED
  BY <1>4, <1>5, InitTypes DEF IInv

LEMMA StepKeeps ==
    ASSUME UserWaits, IInv, [Next]_vars
    PROVE  IInv'
<1>1. TypeInv'
  BY StepTypes DEF IInv
<1>2. ASSUME NEW t \in Terminals, ReadStep(t) PROVE IInv'
  BY <1>1, <1>2, ReadWakeKeeps, ReadCopyKeeps, ReadClearKeeps, ReadReturnKeeps DEF ReadStep
<1>3. ASSUME NEW t \in Terminals, NEW n \in ReadSizes, ReadCall(t, n) PROVE IInv'
  BY <1>1, <1>3, ReadCallKeeps
<1>4. CASE UNCHANGED vars
  <2>1. RoomInv'
    BY <1>4 DEF vars, keyboardVars, IInv, RoomInv, Index, Settled
  <2>2. ReadInv'
    BY <1>4 DEF vars, IInv, ReadInv, Holds, Returned
  <2> QED
    BY <1>1, <2>1, <2>2 DEF IInv
<1> QED
  BY <1>1, <1>2, <1>3, <1>4, PrintableKeyKeeps, EnterKeyKeeps, BackspaceKeyKeeps,
     SwitchTerminalKeeps DEF Next

\* The inductive invariant of keys, terminal switches and reads.
THEOREM Invariance == ASSUME UserWaits PROVE Spec => []IInv
BY InitKeeps, StepKeeps, PTL DEF Spec

\* The 128th character of a line is an Enter: no key stores past a buffer.
THEOREM LinesFit == ASSUME UserWaits PROVE Spec => []LineFits
<1>1. IInv => LineFits
  BY DEF IInv, RoomInv, LineFits
<1> QED
  BY <1>1, Invariance, PTL

\* Each terminal's buffer holds the line typed there, however its keys, the
\* terminal switches and the reads are ordered.
THEOREM BufferIsTheLine == ASSUME UserWaits PROVE Spec => []BufferHoldsLine
<1>1. IInv => BufferHoldsLine
  BY DEF IInv, RoomInv, ReadInv, Holds, BufferHoldsLine
<1> QED
  BY <1>1, Invariance, PTL

\* terminal_read hands over the line of its own terminal.
THEOREM ReadIsTheLine == ASSUME UserWaits PROVE Spec => ReadReturnsLine
<1> DEFINE Right == \A t \in Terminals : ReadReturn(t) =>
              reader[t].buf = SubSeq(typed[t], 1, Min({reader[t].nbytes, Len(typed[t])}))
<1>1. IInv => Right
  BY DEF IInv, ReadInv, ReadReturn, Returned
<1>2. IInv /\ [Next]_vars => [Right]_vars
  BY <1>1
<1>3. [][Right]_vars => ReadReturnsLine
  BY DEF ReadReturnsLine
<1> QED
  BY <1>2, <1>3, Invariance, PTL DEF Spec
============================================================================
