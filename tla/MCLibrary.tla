----------------------------- MODULE MCLibrary -----------------------------
(***************************************************************************)
(* Every call of Library on a few bytes, and every number of eight bits.   *)
(***************************************************************************)
EXTENDS Library

\* Bytes that differ from each other, and strings.
MCMemories == {[i \in Addresses |-> 100 + i],
               [i \in Addresses |-> IF i % 4 = 3 THEN Nul ELSE 100 + i]}

Value == 67305985    \* bytes 1, 2, 3 and 4

MCCalls(m) ==
    LET Unit(fn) == CASE fn = "memset_word" -> 2 [] fn = "memset_dword" -> 4 [] OTHER -> 1
        Sets   == [fn : {"memset", "memset_word", "memset_dword"}, dest : Addresses, src : {0},
                   c : {Value}, n : 0 .. MemSize]
        Copies == [fn : {"memcpy", "memmove", "strncpy"}, dest : Addresses, src : Addresses,
                   c : {0}, n : 0 .. MemSize]
        Fits(c) == /\ c.dest + c.n * Unit(c.fn) <= MemSize
                   /\ c.fn \in {"memcpy", "memmove", "strncpy"} => c.src + c.n <= MemSize
    IN  {c \in Sets \cup Copies : Fits(c)}
        \* strcpy is given strings that end.
        \cup (IF m[3] = Nul THEN [fn : {"strcpy"}, dest : {4, 6}, src : 0 .. 2, c : {0}, n : {4}]
              ELSE {})

Text(s)         == [spelled |-> s, args |-> <<>>]
Number(spec, v) == [spelled |-> spec, args |-> <<v>>]
Specs == {<<"%", "d">>, <<"%", "u">>, <<"%", "x">>, <<"%", "#", "x">>}

MCFormats ==
    {<<Number(spec, v)>> : spec \in Specs, v \in 0 .. 2 ^ Width - 1}
    \cup {<<Text(<<"a">>), Number(s, 7), Text(<<"%", "%">>), Number(<<"%", "c">>, "b"),
            Number(<<"%", "s">>, <<"x", "y">>), Text(<<"c">>), Number(t, 200)>> : s, t \in Specs}
=============================================================================
