------------------------------ MODULE Library ------------------------------
(***************************************************************************)
(* The kernel's own library (lib.c): the functions that set and copy       *)
(* memory, which go byte by byte up to an aligned address, then word by    *)
(* word with a string instruction, then byte by byte again; the string     *)
(* copies; and printf with the conversion of numbers.                      *)
(*                                                                         *)
(* A behaviour is one call.  The direction flag starts as earlier calls    *)
(* left it: memmove does not clear the flag it sets.                       *)
(***************************************************************************)
EXTENDS Integers, FiniteSets, Sequences, SequencesExt, FiniteSetsExt

CONSTANTS
    Width,      \* bits of a number, 32 in the code
    MemSize,    \* bytes of the memory
    Memories,   \* what the memory may hold before the call
    Calls(_),   \* calls of the memory and string functions, with that memory
    Formats     \* what printf may be called with: sequences of items

WordSize  == 4
Addresses == 0 .. MemSize - 1
Byte      == 0 .. 255

ASSUME LibraryAssumption ==
    Width \in Nat \ {0} /\ Width % 4 = 0 /\ MemSize \in Nat /\ Memories \subseteq [Addresses -> Byte]

VARIABLES
    mem,        \* bytes, by address
    before,     \* what they were before the call
    df,         \* the direction flag: string instructions go down
    call,       \* the call made
    items,      \* of a call of printf: the pieces of its format
    buf, esp,   \* how much of the format and of the arguments is done
    out,        \* what was given to putc
    pc

vars == <<mem, before, df, call, items, buf, esp, out, pc>>

\* Which way a string instruction goes.
Up   == 1
Down == -1

\* Mutant: the instruction is missing, and the flag is what it was.
cld_Missing == IF df THEN Down ELSE Up

\* The way after a cld.
cld == Up

-----------------------------------------------------------------------------
(* Memory                                                                  *)

\* rep stos: k units, the bytes of one of which are unit, from address edi on.
stos(m, edi, unit, k, way) ==
    LET at(j) == edi + way * Len(unit) * (j - 1)
        after[j \in 0 .. k] ==
            IF j = 0 THEN m
            ELSE [i \in Addresses |-> IF i \in at(j) .. at(j) + Len(unit) - 1
                                      THEN unit[i - at(j) + 1] ELSE after[j - 1][i]]
    IN  after[k]

\* rep movs: k units of the given size from esi to edi.
movs(m, edi, esi, size, k, way) ==
    LET at(j) == edi + way * size * (j - 1)
        after[j \in 0 .. k] ==
            IF j = 0 THEN m
            ELSE [i \in Addresses |-> IF i \in at(j) .. at(j) + size - 1
                                      THEN after[j - 1][esi + (i - edi)] ELSE after[j - 1][i]]
    IN  after[k]

\* Mutant: the bytes up to the aligned address are not taken off the count.
Split_KeepsCount(dest, n) ==
    LET head == Min({n, (-dest) % WordSize})
    IN  [head |-> head, words |-> n \div WordSize, tail |-> n % WordSize]

\* How many bytes go before, in and behind the words.
Split(dest, n) ==
    LET head == Min({n, (-dest) % WordSize})
    IN  [head |-> head, words |-> (n - head) \div WordSize, tail |-> (n - head) % WordSize]

\* The bytes are stored one at a time, upwards; the words with the flag cleared.
memset(m, s, c, n) ==
    LET p    == Split(s, n)
        byte == <<c % 256>>
        word == byte \o byte \o byte \o byte
        mid  == s + p.head
    IN  stos(stos(stos(m, s, byte, p.head, Up), mid, word, p.words, cld),
             mid + WordSize * p.words, byte, p.tail, Up)

\* A number in memory, the lowest byte first.
Bytes(c, size) == [i \in 1 .. size |-> (c \div 256 ^ (i - 1)) % 256]

memset_word(m, s, c, n) == stos(m, s, Bytes(c, 2), n, cld)

memset_dword(m, s, c, n) == stos(m, s, Bytes(c, 4), n, cld)

memcpy(m, dest, src, n) ==
    LET p   == Split(dest, n)
        mid == dest + p.head
        end == mid + WordSize * p.words
    IN  movs(movs(movs(m, dest, src, 1, p.head, Up), mid, src + p.head, WordSize, p.words, cld),
             end, src + (end - dest), 1, p.tail, Up)

\* Mutant: always upwards.
Backward_Never(dest, src) == FALSE

Backward(dest, src) == src < dest

\* Bytes only; downwards, from the last, if the destination lies behind the source.
memmove(m, dest, src, n) ==
    IF Backward(dest, src) THEN movs(m, dest + n - 1, src + n - 1, 1, n, Down)
    ELSE movs(m, dest, src, 1, n, cld)

Nul == 0
strlen(m, s) == Min({i \in 0 .. MemSize : s + i \notin Addresses \/ m[s + i] = Nul})

strcpy(m, dest, src) == movs(m, dest, src, 1, strlen(m, src) + 1, Up)

\* Mutant: what is behind the string is not filled.
strncpy_NoFill(m, dest, src, n) == movs(m, dest, src, 1, Min({n, strlen(m, src) + 1}), Up)

\* No terminator if the string has n characters or more.
strncpy(m, dest, src, n) ==
    LET k == Min({n, strlen(m, src)})
    IN  stos(movs(m, dest, src, 1, k, Up), dest + k, <<Nul>>, n - k, Up)

-----------------------------------------------------------------------------
(* Numbers                                                                 *)

\* The n-th power of b.
Power(b, n) ==
    LET power[i \in 0 .. n] == IF i = 0 THEN 1 ELSE b * power[i - 1]
    IN  power[n]

Size   == Power(2, Width)
Lookup == <<"0", "1", "2", "3", "4", "5", "6", "7", "8", "9", "A", "B", "C", "D", "E", "F">>

\* s with its k first and k last characters exchanged one by one, from both ends.
Exchanged(s, k) ==
    LET after[end \in 0 .. k] ==
            IF end = 0 THEN s
            ELSE [i \in 1 .. Len(s) |-> IF i = end THEN after[end - 1][Len(s) + 1 - end]
                                       ELSE IF i = Len(s) + 1 - end THEN after[end - 1][end]
                                       ELSE after[end - 1][i]]
    IN  after[k]

\* Mutant: the middle of an odd number of characters is taken for the end.
strrev_Short(s) == Exchanged(s, (Len(s) - 1) \div 2)

\* To the middle.
strrev(s) == Exchanged(s, Len(s) \div 2)

\* The digits come lowest first and are reversed.
itoa(value, radix) ==
    LET digits[newval \in 0 .. value] ==
            IF newval = 0 THEN <<>> ELSE <<Lookup[(newval % radix) + 1]>> \o digits[newval \div radix]
    IN  IF value = 0 THEN <<"0">> ELSE strrev(digits[value])

-----------------------------------------------------------------------------
(* printf                                                                  *)

\* The eight digits of %#x, one for each four bits: conv_buf has zeros up to the number.
HexPadded(value) ==
    LET s == itoa(value, 16) IN [i \in 1 .. (Width \div 4) - Len(s) |-> "0"] \o s

\* Mutant: the sign is printed, the number as it is.
Signed_NotNegated(value) ==
    IF value >= Size \div 2 THEN <<"-">> \o itoa(value, 10) ELSE itoa(value, 10)

\* -value is computed modulo Size; the least number is its own negative.
Signed(value) ==
    IF value >= Size \div 2 THEN <<"-">> \o itoa((-value) % Size, 10) ELSE itoa(value, 10)

\* An item is some text, or a conversion and its argument.  (A letter that is no conversion
\* prints nothing and is not in the comment.)
Item(item) ==
    \/ item.spelled \in Seq(STRING) \ {<<>>} /\ item.args = <<>>
       /\ \A i \in 1 .. Len(item.spelled) : item.spelled[i] \notin {"%", "NUL"}
    \/ item.spelled \in {<<"%", "d">>, <<"%", "u">>, <<"%", "x">>, <<"%", "#", "x">>}
       /\ item.args \in Seq(0 .. Size - 1) /\ Len(item.args) = 1
    \/ item.spelled = <<"%", "c">> /\ item.args \in Seq(STRING) /\ Len(item.args) = 1
    \/ item.spelled = <<"%", "s">> /\ item.args \in Seq(Seq(STRING)) /\ Len(item.args) = 1
    \/ item.spelled = <<"%", "%">> /\ item.args = <<>>

ASSUME FormatsAssumption ==
    \A f \in Formats : f = [k \in 1 .. Len(f) |-> f[k]] /\ Len(f) \in Nat
                       /\ \A k \in 1 .. Len(f) : Item(f[k])

Format == FlattenSeq([k \in 1 .. Len(items) |-> items[k].spelled])
Args   == FlattenSeq([k \in 1 .. Len(items) |-> items[k].args])

\* The character of the format to look at, and the next argument.
Char == IF buf < Len(Format) THEN Format[buf + 1] ELSE "NUL"
Arg  == Args[esp + 1]

\* What a conversion puts out, and how many arguments it takes.
Conversion(spec, alternate) ==
    CASE spec = "%" -> <<<<"%">>, 0>>
      [] spec = "x" -> <<IF alternate THEN HexPadded(Arg) ELSE itoa(Arg, 16), 1>>
      [] spec = "u" -> <<itoa(Arg, 10), 1>>
      [] spec = "d" -> <<Signed(Arg), 1>>
      [] spec = "c" -> <<<<Arg>>, 1>>
      [] spec = "s" -> <<Arg, 1>>
      [] OTHER      -> <<<<>>, 0>>

\* One turn of printf's loop.  A format does not end in "%" or "%#".
PrintfPlain ==
    /\ pc = "printf" /\ Char \notin {"NUL", "%"}
    /\ out' = Append(out, Char)
    /\ buf' = buf + 1
    /\ UNCHANGED <<mem, before, df, call, items, esp, pc>>

\* Any number of "#" may come before the letter.
PrintfConversion ==
    /\ pc = "printf" /\ Char = "%"
    /\ LET at        == Min({i \in buf + 2 .. Len(Format) : Format[i] # "#"})
           converted == Conversion(Format[at], at > buf + 2)
       IN  /\ out' = out \o converted[1]
           /\ esp' = esp + converted[2]
           /\ buf' = at
    /\ UNCHANGED <<mem, before, df, call, items, pc>>

PrintfEnd ==
    /\ pc = "printf" /\ Char = "NUL"
    /\ pc' = "done"
    /\ UNCHANGED <<mem, before, df, call, items, buf, esp, out>>

-----------------------------------------------------------------------------
(* Calls                                                                   *)

\* How many bytes a call stores.
Stored(m, c) ==
    CASE c.fn = "memset_word"  -> 2 * c.n
      [] c.fn = "memset_dword" -> 4 * c.n
      [] c.fn = "strcpy"       -> strlen(m, c.src) + 1
      [] OTHER                 -> c.n

\* What is stored and what is copied lies in the memory; strcpy is given a string that ends.
Within(m, c) ==
    /\ c \in [fn : {"memset", "memset_word", "memset_dword", "memcpy", "memmove", "strcpy", "strncpy"},
              dest : Nat, src : 0 .. MemSize, c : Nat, n : Nat]
    /\ c.dest + Stored(m, c) <= MemSize
    /\ c.fn \in {"memcpy", "memmove", "strcpy"} => c.src + Stored(m, c) <= MemSize

ASSUME CallsAssumption == \A m \in Memories : \A c \in Calls(m) : Within(m, c)

NoCall == [fn |-> "none", dest |-> 0, src |-> 0, c |-> 0, n |-> 0]

Init ==
    /\ mem \in Memories /\ before = mem
    /\ df \in BOOLEAN
    /\ call = NoCall /\ items = <<>>
    /\ buf = 0 /\ esp = 0 /\ out = <<>>
    /\ pc = "ready"

Call(c) ==
    /\ pc = "ready"
    /\ call' = c
    /\ mem' = CASE c.fn = "memset"       -> memset(mem, c.dest, c.c, c.n)
                [] c.fn = "memset_word"  -> memset_word(mem, c.dest, c.c, c.n)
                [] c.fn = "memset_dword" -> memset_dword(mem, c.dest, c.c, c.n)
                [] c.fn = "memcpy"       -> memcpy(mem, c.dest, c.src, c.n)
                [] c.fn = "memmove"      -> memmove(mem, c.dest, c.src, c.n)
                [] c.fn = "strcpy"       -> strcpy(mem, c.dest, c.src)
                [] c.fn = "strncpy"      -> strncpy(mem, c.dest, c.src, c.n)
    /\ df' = CASE c.fn = "memmove" -> Backward(c.dest, c.src)
               [] c.fn \in {"memset", "memcpy"} -> df /\ Split(c.dest, c.n).head = c.n
               [] c.fn \in {"memset_word", "memset_dword"} -> FALSE
               [] OTHER -> df
    /\ pc' = "done"
    /\ UNCHANGED <<before, items, buf, esp, out>>

printf(f) ==
    /\ pc = "ready"
    /\ items' = f
    /\ pc' = "printf"
    /\ UNCHANGED <<mem, before, df, call, buf, esp, out>>

Next == \/ \E c \in Calls(mem) : Call(c)
        \/ \E f \in Formats : printf(f)
        \/ PrintfPlain \/ PrintfConversion \/ PrintfEnd

Spec == Init /\ [][Next]_vars

-----------------------------------------------------------------------------
(* Properties                                                              *)

\* What the memory is to be, byte by byte.
Promised(c) ==
    LET from(k, byte(_)) == [i \in Addresses |->
                                IF i \in c.dest .. c.dest + k - 1 THEN byte(i - c.dest) ELSE before[i]]
        copied(j) == before[c.src + j]
        len       == strlen(before, c.src)
    IN  CASE c.fn = "memset"       -> from(c.n, LAMBDA j : c.c % 256)
          [] c.fn = "memset_word"  -> from(2 * c.n, LAMBDA j : (c.c \div 256 ^ (j % 2)) % 256)
          [] c.fn = "memset_dword" -> from(4 * c.n, LAMBDA j : (c.c \div 256 ^ (j % 4)) % 256)
          [] c.fn \in {"memcpy", "memmove"} -> from(c.n, copied)
          [] c.fn = "strcpy"       -> from(len + 1, copied)
          [] c.fn = "strncpy"      -> from(c.n, LAMBDA j : IF j < len THEN copied(j) ELSE Nul)

\* memcpy and the string copies may not be given a destination inside the source, behind
\* its first byte.
Apart(c) ==
    c.fn \in {"memcpy", "strcpy", "strncpy"} =>
        ~(c.src < c.dest /\ c.dest < c.src + Stored(before, c))

\* The memory functions change exactly the bytes they are to change, whatever the
\* alignment, the length and the overlap, and whatever direction flag an earlier
\* memmove has left behind (scroll, switch_terminal and read_data rely on it).
MemoryRight ==
    pc = "done" /\ call # NoCall /\ Apart(call) => mem = Promised(call)

\* The numeral of a number: as many digits as it takes.
Numeral(value, radix) ==
    LET k == CHOOSE j \in 1 .. Width :
                 value < Power(radix, j) /\ (j = 1 \/ Power(radix, j - 1) <= value)
    IN  [i \in 1 .. k |-> Lookup[((value \div Power(radix, k - i)) % radix) + 1]]

\* What an item is to print, by the comment above printf.
Shown(item) ==
    LET v == item.args[1]
    IN  CASE item.spelled = <<"%", "d">> ->
                 IF v < Size \div 2 THEN Numeral(v, 10) ELSE <<"-">> \o Numeral(Size - v, 10)
          [] item.spelled = <<"%", "u">> -> Numeral(v, 10)
          [] item.spelled = <<"%", "x">> -> Numeral(v, 16)
          [] item.spelled = <<"%", "#", "x">> ->
                 [i \in 1 .. Width \div 4 |-> Lookup[((v \div Power(16, (Width \div 4) - i)) % 16) + 1]]
          [] item.spelled = <<"%", "c">> -> <<v>>
          [] item.spelled = <<"%", "s">> -> v
          [] item.spelled = <<"%", "%">> -> <<"%">>
          [] OTHER -> item.spelled

\* printf prints each item as its comment says, the least and the greatest number, zero and
\* the padded form included, and every conversion takes its own argument.
PrintfRight ==
    pc = "done" /\ items # <<>> => out = FlattenSeq([k \in 1 .. Len(items) |-> Shown(items[k])])
=============================================================================
